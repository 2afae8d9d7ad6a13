--------------------------- MODULE EventBus_proofs ---------------------------
(***************************************************************************)
(* Proofs about EventBus for every number of clients, subscriptions and    *)
(* topics, every queue size and every bound on the number of messages.     *)
(***************************************************************************)
EXTENDS EventBus, SequenceTheorems, FiniteSetTheorems, TLAPS

(* What TypeOK lacks to be inductive: a client inside a call holds a       *)
(* message.                                                                *)
CallsHoldMessages == \A c \in Clients : call[c].pc # "ready" => call[c].msg \in Message

TypeInv == TypeOK /\ CallsHoldMessages

(* NoMessage is not a message. *)
LEMMA NoMessageIsNone == NoMessage \notin Message
  BY DEF NoMessage, Message

(* Removing one element of a sequence leaves a sequence of its type. *)
LEMMA RemoveAtType ==
  ASSUME NEW S, NEW q \in Seq(S), NEW i \in DOMAIN q
  PROVE  RemoveAt(q, i) \in Seq(S)
  BY DEF RemoveAt

(* Routing keeps queues, putters and calls well-formed. *)
LEMMA RouteTypes ==
  ASSUME ConstantsAssumption, TypeInv,
         NEW c \in Clients, NEW mode \in Modes, NEW m \in Message, NEW todo \in Seq(Subs),
         Route(c, mode, m, todo)
  PROVE  /\ queue' \in [Subs -> Seq(Message)]
         /\ \A s \in Subs : Len(queue'[s]) <= Cap
         /\ warned' \in [Subs -> BOOLEAN]
         /\ report' \in [Subs -> {"none", "made", "dropped"}]
         /\ putters' \in [Subs -> Seq(Clients)]
         /\ call' \in [Clients -> Call]
         /\ CallsHoldMessages'
<1>. PICK k \in 0 .. Len(todo) :
        LET reached == {todo[i] : i \in 1 .. k} IN
        /\ \A i \in 1 .. k : HasRoom(todo[i])
        /\ queue' = [s \in Subs |->
                       IF s \in reached THEN Append(queue[s], m) ELSE queue[s]]
        /\ warned' = [s \in Subs |->
                        \/ warned[s]
                        \/ s \in reached /\ Len(queue[s]) + 1 >= WarnThreshold]
        /\ report' = [s \in Subs |-> IF warned'[s] /\ ~warned[s] THEN "made" ELSE report[s]]
        /\ \/ /\ k = Len(todo)
              /\ putters' = putters
              /\ call' = [call EXCEPT ![c] =
                            IF mode = "publish" THEN Idle
                            ELSE [pc |-> "waiting", mode |-> mode, msg |-> m,
                                  todo |-> <<>>]]
           \/ /\ k < Len(todo)
              /\ ~HasRoom(todo[k + 1])
              /\ putters' = [putters EXCEPT ![todo[k + 1]] = Append(@, c)]
              /\ call' = [call EXCEPT ![c] =
                            [pc |-> "routing", mode |-> mode, msg |-> m,
                             todo |-> SubSeq(todo, k + 1, Len(todo))]]
  BY DEF Route
<1>. DEFINE reached == {todo[i] : i \in 1 .. k}
<1>1. queue' \in [Subs -> Seq(Message)]
  BY DEF TypeInv, TypeOK
<1>2. ASSUME NEW s \in Subs PROVE Len(queue'[s]) <= Cap
  <2>1. CASE s \in reached
    <3>1. HasRoom(s)
      BY <2>1
    <3>. QED
      BY <2>1, <3>1 DEF TypeInv, TypeOK, HasRoom, ConstantsAssumption
  <2>2. CASE s \notin reached
    BY <2>2 DEF TypeInv, TypeOK
  <2>. QED
    BY <2>1, <2>2
<1>3. warned' \in [Subs -> BOOLEAN]
  BY Zenon DEF TypeInv, TypeOK
<1>4. /\ putters' \in [Subs -> Seq(Clients)]
      /\ call' \in [Clients -> Call]
      /\ CallsHoldMessages'
  <2>1. CASE k = Len(todo)
    <3>1. /\ putters' = putters
          /\ call' = [call EXCEPT ![c] =
                        IF mode = "publish" THEN Idle
                        ELSE [pc |-> "waiting", mode |-> mode, msg |-> m, todo |-> <<>>]]
      BY <2>1
    <3>2. Idle \in Call /\ [pc |-> "waiting", mode |-> mode, msg |-> m, todo |-> <<>>] \in Call
      BY DEF Idle, Call, Modes
    <3>. QED
      BY <3>1, <3>2 DEF TypeInv, TypeOK, CallsHoldMessages, Idle
  <2>2. CASE k < Len(todo)
    <3>1. /\ putters' = [putters EXCEPT ![todo[k + 1]] = Append(@, c)]
          /\ call' = [call EXCEPT ![c] =
                        [pc |-> "routing", mode |-> mode, msg |-> m,
                         todo |-> SubSeq(todo, k + 1, Len(todo))]]
      BY <2>2
    <3>2. todo[k + 1] \in Subs /\ SubSeq(todo, k + 1, Len(todo)) \in Seq(Subs)
      BY <2>2
    <3>3. [pc |-> "routing", mode |-> mode, msg |-> m,
           todo |-> SubSeq(todo, k + 1, Len(todo))] \in Call
      BY <3>2 DEF Call
    <3>4. putters' \in [Subs -> Seq(Clients)]
      BY <3>1, <3>2 DEF TypeInv, TypeOK
    <3>5. call' \in [Clients -> Call] /\ CallsHoldMessages'
      BY <3>1, <3>3 DEF TypeInv, TypeOK, CallsHoldMessages
    <3>. QED
      BY <3>4, <3>5
  <2>. QED
    BY <2>1, <2>2
<1>5. report' \in [Subs -> {"none", "made", "dropped"}]
  BY DEF TypeInv, TypeOK
<1>. QED
  BY <1>1, <1>2, <1>3, <1>4, <1>5

-----------------------------------------------------------------------------
(* Draining keeps queues and putters well-formed. *)
LEMMA DrainTypes ==
  ASSUME ConstantsAssumption, TypeOK, NEW S, Drain(S)
  PROVE  /\ queue' \in [Subs -> Seq(Message)]
         /\ \A s \in Subs : Len(queue'[s]) <= Cap
         /\ putters' \in [Subs -> Seq(Clients)]
         /\ report' \in [Subs -> {"none", "made", "dropped"}]
<1>1. /\ queue' = [s \in Subs |-> IF s \in S THEN <<>> ELSE queue[s]]
      /\ putters' = [s \in Subs |->
                       IF s \in S
                       THEN SubSeq(putters[s], Len(queue[s]) + 1, Len(putters[s]))
                       ELSE putters[s]]
  BY DEF Drain
<1>2. ASSUME NEW s \in Subs
      PROVE  SubSeq(putters[s], Len(queue[s]) + 1, Len(putters[s])) \in Seq(Clients)
  <2>1. putters[s] \in Seq(Clients) /\ Len(queue[s]) + 1 \in 1 .. (Len(queue[s]) + 1)
    BY DEF TypeOK
  <2>. QED
    BY <2>1
<1>3. ASSUME NEW s \in Subs PROVE queue'[s] \in Seq(Message) /\ Len(queue'[s]) <= Cap
  BY <1>1 DEF TypeOK, ConstantsAssumption
<1>4. report' \in [Subs -> {"none", "made", "dropped"}]
  BY DEF Drain, TypeOK
<1>. QED
  BY <1>1, <1>2, <1>3, <1>4 DEF TypeOK

(* TypeOK and CallsHoldMessages hold initially. *)
LEMMA InitTypes == ConstantsAssumption /\ Init => TypeInv
<1>. SUFFICES ASSUME ConstantsAssumption, Init PROVE TypeInv
  OBVIOUS
<1>1. Idle \in Call /\ Idle.pc = "ready"
  BY DEF Idle, Call, Modes
<1>2. call \in [Clients -> Call] /\ CallsHoldMessages
  BY <1>1 DEF Init, CallsHoldMessages
<1>3. /\ registry \in [Topics -> Seq(Subs)]
      /\ queue \in [Subs -> Seq(Message)] /\ \A s \in Subs : Len(queue[s]) <= Cap
      /\ putters \in [Subs -> Seq(Clients)]
  BY DEF Init, ConstantsAssumption
<1>4. warned \in [Subs -> BOOLEAN]
  BY Zenon DEF Init
<1>5. /\ handling \in [Subs -> Message \cup {NoMessage}]
      /\ dispatcher \in [Subs -> {"none", "waiting", "handling", "cancelled"}]
      /\ future \in [Clients -> {"none", "pending"} \cup Resolved]
      /\ report \in [Subs -> {"none", "made", "dropped"}]
  BY DEF Init
<1>6. running \in BOOLEAN
  BY Zenon DEF Init
<1>7. issued \in 0 .. MaxMessages /\ stopping \in SUBSET Subs /\ removed \in SUBSET Subs
  BY DEF Init, ConstantsAssumption
<1>. QED
  BY <1>2, <1>3, <1>4, <1>5, <1>6, <1>7 DEF TypeInv, TypeOK

(* Every step preserves them. *)
LEMMA StepTypes == ConstantsAssumption /\ TypeInv /\ [Next]_vars => TypeInv'
<1>. SUFFICES ASSUME ConstantsAssumption, TypeInv, [Next]_vars PROVE TypeInv'
  OBVIOUS
<1>. USE DEF TypeInv
<1>1. ASSUME NEW c \in Clients, NEW t \in Topics, Publish(c, t) PROVE TypeInv'
  <2>1. NextMessage(c) \in Message /\ "publish" \in Modes /\ registry[t] \in Seq(Subs)
    BY DEF NextMessage, Message, Modes, TypeOK
  <2>2. Route(c, "publish", NextMessage(c), registry[t])
    BY <1>1 DEF Publish
  <2>. QED
    BY <1>1, <2>1, <2>2, RouteTypes DEF Publish, TypeOK, ConstantsAssumption
<1>2. ASSUME NEW c \in Clients, NEW t \in Topics, NEW mode \in {"request", "timed"},
             Request(c, t, mode)
      PROVE  TypeInv'
  <2>1. NextMessage(c) \in Message /\ mode \in Modes /\ registry[t] \in Seq(Subs)
    BY DEF NextMessage, Message, Modes, TypeOK
  <2>2. Route(c, mode, NextMessage(c), registry[t])
    BY <1>2 DEF Request
  <2>. QED
    BY <1>2, <2>1, <2>2, RouteTypes DEF Request, TypeOK, ConstantsAssumption
<1>3. ASSUME NEW c \in Clients, Resume(c) PROVE TypeInv'
  <2>1. call[c].msg \in Message /\ call[c].mode \in Modes /\ call[c].todo \in Seq(Subs)
    BY <1>3 DEF Resume, CallsHoldMessages, TypeOK, Call
  <2>2. Route(c, call[c].mode, call[c].msg, call[c].todo)
    BY <1>3 DEF Resume
  <2>. QED
    BY <1>3, <2>1, <2>2, RouteTypes DEF Resume, TypeOK
<1>4. ASSUME NEW c \in Clients, Return(c) \/ Timeout(c) PROVE TypeInv'
  <2>1. Idle \in Call /\ Idle.pc = "ready"
    BY DEF Idle, Call, Modes
  <2>2. /\ call' = [call EXCEPT ![c] = Idle]
        /\ future' = [future EXCEPT ![c] = "none"]
        /\ UNCHANGED <<running, stopping, registry, removed, queue, putters, warned, report,
                       dispatcher, handling, issued>>
    BY <1>4 DEF Return, Timeout
  <2>3. call' \in [Clients -> Call] /\ CallsHoldMessages'
    BY <2>1, <2>2 DEF TypeOK, CallsHoldMessages
  <2>. QED
    BY <2>2, <2>3 DEF TypeOK
<1>5. ASSUME NEW s \in Subs, Dispatch(s) PROVE TypeInv'
  <2>1. queue[s] \in Seq(Message) /\ queue[s] # <<>>
    BY <1>5 DEF Dispatch, TypeOK
  <2>2. /\ Head(queue[s]) \in Message
        /\ Tail(queue[s]) \in Seq(Message)
        /\ Len(Tail(queue[s])) <= Len(queue[s])
    BY <2>1
  <2>3. queue' \in [Subs -> Seq(Message)] /\ \A r \in Subs : Len(queue'[r]) <= Cap
    BY <1>5, <2>2 DEF Dispatch, TypeOK, ConstantsAssumption
  <2>4. putters' \in [Subs -> Seq(Clients)]
    BY <1>5 DEF Dispatch, TypeOK
  <2>5. warned' \in [Subs -> BOOLEAN]
    BY <1>5, Zenon DEF Dispatch, TypeOK
  <2>6. report' \in [Subs -> {"none", "made", "dropped"}]
    BY <1>5 DEF Dispatch, TypeOK
  <2>. QED
    BY <1>5, <2>2, <2>3, <2>4, <2>5, <2>6 DEF Dispatch, TypeOK, CallsHoldMessages
<1>6. ASSUME NEW s \in Subs, NEW outcome \in {"replied", "failed", "none"},
             HandlerEnds(s, outcome)
      PROVE  TypeInv'
  <2>1. future' \in [Clients -> {"none", "pending"} \cup Resolved]
    BY <1>6 DEF HandlerEnds, TypeOK, Resolved
  <2>. QED
    BY <1>6, <2>1 DEF HandlerEnds, TypeOK, CallsHoldMessages
<1>7. ASSUME NEW s \in Subs, Subscribe(s) PROVE TypeInv'
  BY <1>7 DEF Subscribe, TypeOK, CallsHoldMessages, ConstantsAssumption
<1>8. ASSUME NEW s \in Subs, Unsubscribe(s) PROVE TypeInv'
  <2>1. PICK i \in DOMAIN registry[TopicOf[s]] :
           registry' = [registry EXCEPT ![TopicOf[s]] = RemoveAt(@, i)]
    BY <1>8 DEF Unsubscribe
  <2>2. RemoveAt(registry[TopicOf[s]], i) \in Seq(Subs)
    BY <2>1, RemoveAtType DEF TypeOK, ConstantsAssumption
  <2>3. registry' \in [Topics -> Seq(Subs)]
    BY <2>1, <2>2 DEF TypeOK
  <2>4. Drain({s})
    BY <1>8 DEF Unsubscribe
  <2>. QED
    BY <1>8, <2>3, <2>4, DrainTypes DEF Unsubscribe, TypeOK, CallsHoldMessages
<1>9. CASE Start
  BY <1>9 DEF Start, TypeOK, CallsHoldMessages
<1>10. CASE Stop
  <2>1. future' \in [Clients -> {"none", "pending"} \cup Resolved]
    BY <1>10 DEF Stop, FailPendingReplies, TypeOK, Resolved
  <2>. QED
    BY <1>10, <2>1 DEF Stop, RegisteredSubs, TypeOK, CallsHoldMessages
<1>11. CASE StopFinish
  <2>1. Drain(stopping)
    BY <1>11 DEF StopFinish
  <2>2. future' \in [Clients -> {"none", "pending"} \cup Resolved]
    BY <1>11 DEF StopFinish, FailPendingReplies, TypeOK, Resolved
  <2>. QED
    BY <1>11, <2>1, <2>2, DrainTypes DEF StopFinish, TypeOK, CallsHoldMessages
<1>12. CASE UNCHANGED vars
  BY <1>12 DEF vars, TypeOK, CallsHoldMessages
<1>. QED
  BY <1>1, <1>2, <1>3, <1>4, <1>5, <1>6, <1>7, <1>8, <1>9, <1>10, <1>11, <1>12
  DEF Next, ClientStep, DispatcherStep, HandlerReturnsReply, HandlerReturnsNone, HandlerRaises

(* The types, strengthened to be inductive. *)
THEOREM TypeInvHolds == Spec => []TypeInv
<1>1. Init => TypeInv
  BY InitTypes, ConstantsAssumption
<1>2. TypeInv /\ [Next]_vars => TypeInv'
  BY StepTypes, ConstantsAssumption
<1>. QED
  BY <1>1, <1>2, PTL DEF Spec

(* The bus is type-correct: in particular no queue ever exceeds its bound  *)
(* and every reply future is in a known state.                             *)
THEOREM TypeCorrect == Spec => []TypeOK
<1>1. TypeInv => TypeOK
  BY DEF TypeInv
<1>. QED
  BY <1>1, TypeInvHolds, PTL

-----------------------------------------------------------------------------
(* stop() leaves no requester waiting.  The invariant is inductive given   *)
(* the types: pending futures are created on a running bus only, and each  *)
(* of the two ways for stop() to end fails them all.                       *)
THEOREM StopReleases == Spec => []StopReleasesRequesters
<1>1. Init => StopReleasesRequesters
  BY DEF Init, StopReleasesRequesters
<1>2. TypeInv /\ StopReleasesRequesters /\ [Next]_vars => StopReleasesRequesters'
  <2>. SUFFICES ASSUME TypeInv, StopReleasesRequesters, [Next]_vars,
                       ~running', stopping' = {}, NEW d \in Clients
                PROVE  future'[d] # "pending"
    BY DEF StopReleasesRequesters
  <2>. USE DEF TypeInv, TypeOK, StopReleasesRequesters
  <2>1. ASSUME NEW c \in Clients, ClientStep(c) PROVE future'[d] # "pending"
    BY <2>1 DEF ClientStep, Publish, Request, Resume, Return, Timeout
  <2>2. ASSUME NEW s \in Subs, Dispatch(s) \/ Subscribe(s) \/ Unsubscribe(s)
        PROVE  future'[d] # "pending"
    BY <2>2 DEF Dispatch, Subscribe, Unsubscribe
  <2>3. ASSUME NEW s \in Subs, NEW outcome \in {"replied", "failed", "none"},
               HandlerEnds(s, outcome)
        PROVE  future'[d] # "pending"
    BY <2>3 DEF HandlerEnds
  <2>4. CASE Start
    BY <2>4 DEF Start
  <2>5. CASE Stop
    BY <2>5 DEF Stop, FailPendingReplies
  <2>6. CASE StopFinish
    BY <2>6 DEF StopFinish, FailPendingReplies
  <2>7. CASE UNCHANGED vars
    BY <2>7 DEF vars
  <2>. QED
    BY <2>1, <2>2, <2>3, <2>4, <2>5, <2>6, <2>7
    DEF Next, DispatcherStep, HandlerReturnsReply, HandlerReturnsNone, HandlerRaises
<1>. QED
  BY <1>1, <1>2, TypeInvHolds, PTL DEF Spec

-----------------------------------------------------------------------------
(* Where routing leaves the client that routes, and the others. *)
LEMMA RouteCall ==
  ASSUME TypeInv, NEW c \in Clients, NEW mode \in Modes, NEW m \in Message,
         NEW todo \in Seq(Subs), Route(c, mode, m, todo)
  PROVE  /\ \A d \in Clients : d # c => call'[d] = call[d]
         /\ \/ call'[c] = Idle /\ mode = "publish"
            \/ call'[c].pc # "ready" /\ call'[c].mode = mode
<1>1. \E k \in 0 .. Len(todo) :
        \/ call' = [call EXCEPT ![c] =
                      IF mode = "publish" THEN Idle
                      ELSE [pc |-> "waiting", mode |-> mode, msg |-> m, todo |-> <<>>]]
        \/ call' = [call EXCEPT ![c] =
                      [pc |-> "routing", mode |-> mode, msg |-> m,
                       todo |-> SubSeq(todo, k + 1, Len(todo))]]
  BY DEF Route
<1>. QED
  BY <1>1 DEF TypeInv, TypeOK

(* A reply future exists exactly while its request is under way. *)
FutureMatchesCall ==
    \A c \in Clients :
        future[c] # "none" <=> call[c].pc # "ready" /\ call[c].mode # "publish"

(* Every step preserves FutureMatchesCall. *)
LEMMA StepFutures ==
  ASSUME TypeInv, FutureMatchesCall, [Next]_vars
  PROVE  FutureMatchesCall'
<1>. USE DEF TypeInv
<1>0. Idle.pc = "ready"
  BY DEF Idle
<1>1. ASSUME NEW c \in Clients, NEW t \in Topics, Publish(c, t) PROVE FutureMatchesCall'
  <2>1. NextMessage(c) \in Message /\ "publish" \in Modes /\ registry[t] \in Seq(Subs)
    BY DEF NextMessage, Message, Modes, TypeOK
  <2>2. Route(c, "publish", NextMessage(c), registry[t]) /\ call[c].pc = "ready"
        /\ UNCHANGED future
    BY <1>1 DEF Publish
  <2>. QED
    BY <1>0, <2>1, <2>2, RouteCall DEF FutureMatchesCall
<1>2. ASSUME NEW c \in Clients, NEW t \in Topics, NEW mode \in {"request", "timed"},
             Request(c, t, mode)
      PROVE  FutureMatchesCall'
  <2>1. NextMessage(c) \in Message /\ mode \in Modes /\ registry[t] \in Seq(Subs)
    BY DEF NextMessage, Message, Modes, TypeOK
  <2>2. Route(c, mode, NextMessage(c), registry[t])
        /\ future' = [future EXCEPT ![c] = "pending"]
    BY <1>2 DEF Request
  <2>. QED
    BY <2>1, <2>2, RouteCall DEF FutureMatchesCall, TypeOK
<1>3. ASSUME NEW c \in Clients, Resume(c) PROVE FutureMatchesCall'
  <2>1. call[c].msg \in Message /\ call[c].mode \in Modes /\ call[c].todo \in Seq(Subs)
    BY <1>3 DEF Resume, CallsHoldMessages, TypeOK, Call
  <2>2. Route(c, call[c].mode, call[c].msg, call[c].todo) /\ call[c].pc = "routing"
        /\ UNCHANGED future
    BY <1>3 DEF Resume
  <2>. QED
    BY <1>0, <2>1, <2>2, RouteCall DEF FutureMatchesCall
<1>4. ASSUME NEW c \in Clients, Return(c) \/ Timeout(c) PROVE FutureMatchesCall'
  BY <1>0, <1>4 DEF Return, Timeout, FutureMatchesCall, TypeOK
<1>5. ASSUME NEW s \in Subs, Dispatch(s) \/ Subscribe(s) \/ Unsubscribe(s)
      PROVE  FutureMatchesCall'
  BY <1>5 DEF Dispatch, Subscribe, Unsubscribe, FutureMatchesCall
<1>6. ASSUME NEW s \in Subs, NEW outcome \in {"replied", "failed", "none"},
             HandlerEnds(s, outcome)
      PROVE  FutureMatchesCall'
  BY <1>6 DEF HandlerEnds, AwaitsReply, FutureMatchesCall
<1>7. CASE Start \/ Stop \/ StopFinish
  BY <1>7 DEF Start, Stop, StopFinish, FailPendingReplies, FutureMatchesCall
<1>8. CASE UNCHANGED vars
  BY <1>8 DEF vars, FutureMatchesCall
<1>. QED
  BY <1>1, <1>2, <1>3, <1>4, <1>5, <1>6, <1>7, <1>8
  DEF Next, ClientStep, DispatcherStep, HandlerReturnsReply, HandlerReturnsNone, HandlerRaises

(* FutureMatchesCall is an invariant. *)
THEOREM FuturesHold == Spec => []FutureMatchesCall
<1>1. Init => FutureMatchesCall
  BY DEF Init, FutureMatchesCall, Idle
<1>2. TypeInv /\ FutureMatchesCall /\ [Next]_vars => FutureMatchesCall'
  BY StepFutures
<1>. QED
  BY <1>1, <1>2, TypeInvHolds, PTL DEF Spec

(* No later reply, failure or stop() changes what a requester will see.    *)
(* A new request cannot either, because the future of the last one is gone *)
(* when its call is over.                                                  *)
THEOREM FirstWins == Spec => FirstResolutionWins
<1>. DEFINE Keeps == \A c \in Clients :
                       future[c] \in Resolved =>
                           future'[c] = future[c] \/ call'[c].pc = "ready"
<1>1. TypeInv /\ FutureMatchesCall /\ [Next]_vars => Keeps
  <2>. SUFFICES ASSUME TypeInv, FutureMatchesCall, [Next]_vars,
                       NEW d \in Clients, future[d] \in Resolved
                PROVE  future'[d] = future[d] \/ call'[d].pc = "ready"
    OBVIOUS
  <2>. USE DEF TypeInv, TypeOK, Resolved
  <2>1. ASSUME NEW c \in Clients, ClientStep(c)
        PROVE  future'[d] = future[d] \/ call'[d].pc = "ready"
    <3>1. CASE \E t \in Topics : Publish(c, t) \/ Resume(c)
      BY <3>1 DEF Publish, Resume
    <3>2. CASE \E t \in Topics, mode \in {"request", "timed"} : Request(c, t, mode)
      BY <3>2 DEF Request, FutureMatchesCall
    <3>3. CASE Return(c) \/ Timeout(c) \/ Resume(c)
      BY <3>3 DEF Return, Timeout, Resume, Idle
    <3>. QED
      BY <2>1, <3>1, <3>2, <3>3 DEF ClientStep
  <2>2. ASSUME NEW s \in Subs, Dispatch(s) \/ Subscribe(s) \/ Unsubscribe(s)
        PROVE  future'[d] = future[d]
    BY <2>2 DEF Dispatch, Subscribe, Unsubscribe
  <2>3. ASSUME NEW s \in Subs, NEW outcome \in {"replied", "failed", "none"},
               HandlerEnds(s, outcome)
        PROVE  future'[d] = future[d]
    BY <2>3 DEF HandlerEnds, AwaitsReply
  <2>4. CASE Start \/ Stop \/ StopFinish
    BY <2>4 DEF Start, Stop, StopFinish, FailPendingReplies
  <2>5. CASE UNCHANGED vars
    BY <2>5 DEF vars
  <2>. QED
    BY <2>1, <2>2, <2>3, <2>4, <2>5
    DEF Next, DispatcherStep, HandlerReturnsReply, HandlerReturnsNone, HandlerRaises
<1>2. TypeInv /\ FutureMatchesCall /\ [Next]_vars => [Keeps]_vars
  BY <1>1
<1>. QED
  BY <1>2, TypeInvHolds, FuturesHold, PTL DEF Spec, FirstResolutionWins

-----------------------------------------------------------------------------
(* A reply or a failure reaches only the request whose message the         *)
(* resolving handler was working on.                                       *)
THEOREM RepliesMatch == Spec => ReplyIsForThisRequest
<1>. DEFINE Matches ==
        \A c \in Clients :
          future[c] # future'[c] /\ future'[c] \in {"replied", "failed"} =>
              \E s \in RequestHandlers :
                  handling[s] = call[c].msg /\ handling'[s] = NoMessage
<1>1. TypeInv /\ [Next]_vars => Matches
  <2>. SUFFICES ASSUME TypeInv, [Next]_vars, NEW d \in Clients,
                       future[d] # future'[d], future'[d] \in {"replied", "failed"}
                PROVE  \E s \in RequestHandlers :
                          handling[s] = call[d].msg /\ handling'[s] = NoMessage
    OBVIOUS
  <2>. USE DEF TypeInv, TypeOK
  <2>1. ASSUME NEW s \in Subs, NEW outcome \in {"replied", "failed", "none"},
               HandlerEnds(s, outcome)
        PROVE  \E r \in RequestHandlers :
                  handling[r] = call[d].msg /\ handling'[r] = NoMessage
    BY <2>1 DEF HandlerEnds, AwaitsReply
  <2>2. ASSUME NEW c \in Clients, ClientStep(c) PROVE FALSE
    BY <2>2 DEF ClientStep, Publish, Request, Resume, Return, Timeout
  <2>3. ASSUME NEW s \in Subs, Dispatch(s) \/ Subscribe(s) \/ Unsubscribe(s) PROVE FALSE
    BY <2>3 DEF Dispatch, Subscribe, Unsubscribe
  <2>4. ~(Start \/ Stop \/ StopFinish)
    BY DEF Start, Stop, StopFinish, FailPendingReplies
  <2>5. ~UNCHANGED vars
    BY DEF vars
  <2>. QED
    BY <2>1, <2>2, <2>3, <2>4, <2>5
    DEF Next, DispatcherStep, HandlerReturnsReply, HandlerReturnsNone, HandlerRaises
<1>2. TypeInv /\ [Next]_vars => [Matches]_vars
  BY <1>1
<1>. QED
  BY <1>2, TypeInvHolds, PTL DEF Spec, ReplyIsForThisRequest

-----------------------------------------------------------------------------
(* The watermark is at least one message, whatever the size of the queue,  *)
(* so an empty queue is below it.                                          *)
LEMMA ThresholdPositive == ConstantsAssumption => WarnThreshold \in Nat /\ WarnThreshold >= 1
  BY DEF ConstantsAssumption, WarnThreshold

(* The flag of a queue at or above the watermark is set, and a set flag    *)
(* rests on a warning that was logged.                                     *)
FlagSet == \A s \in Subs : Len(queue[s]) >= WarnThreshold => warned[s]
FlagReported == \A s \in Subs : warned[s] => report[s] \in {"made", "dropped"}

(* Routing leaves no queue that is at the watermark unannounced. *)
LEMMA RouteWarns ==
  ASSUME ConstantsAssumption, TypeInv, FlagSet,
         NEW c \in Clients, NEW mode \in Modes, NEW m \in Message, NEW todo \in Seq(Subs),
         Route(c, mode, m, todo)
  PROVE  FlagSet'
<1>1. PICK k \in 0 .. Len(todo) :
        /\ queue' = [s \in Subs |-> IF s \in {todo[i] : i \in 1 .. k}
                                    THEN Append(queue[s], m) ELSE queue[s]]
        /\ warned' = [s \in Subs |-> \/ warned[s]
                                     \/ /\ s \in {todo[i] : i \in 1 .. k}
                                        /\ Len(queue[s]) + 1 >= WarnThreshold]
  BY DEF Route
<1>2. ASSUME NEW s \in Subs, Len(queue'[s]) >= WarnThreshold' PROVE warned'[s]
  <2>1. WarnThreshold' = WarnThreshold
    BY DEF WarnThreshold
  <2>2. CASE s \in {todo[i] : i \in 1 .. k}
    <3>1. Len(queue'[s]) = Len(queue[s]) + 1
      BY <1>1, <2>2 DEF TypeInv, TypeOK
    <3>2. Len(queue[s]) + 1 >= WarnThreshold
      BY <1>2, <2>1, <3>1
    <3>. QED
      BY <1>1, <2>2, <3>2, Zenon
  <2>3. CASE s \notin {todo[i] : i \in 1 .. k}
    <3>1. queue'[s] = queue[s]
      BY <1>1, <2>3
    <3>2. warned[s]
      BY <1>2, <2>1, <3>1 DEF FlagSet
    <3>. QED
      BY <1>1, <3>2, Zenon
  <2>. QED
    BY <2>2, <2>3
<1>. QED
  BY <1>2 DEF FlagSet

(* Nor does draining, which leaves warned alone. *)
LEMMA DrainWarns ==
  ASSUME ConstantsAssumption, TypeInv, FlagSet, NEW S, Drain(S), UNCHANGED warned
  PROVE  FlagSet'
<1>1. ASSUME NEW s \in Subs PROVE queue'[s] = <<>> \/ queue'[s] = queue[s]
  BY DEF Drain
<1>2. WarnThreshold' = WarnThreshold
  BY DEF WarnThreshold
<1>. QED
  BY <1>1, <1>2, ThresholdPositive DEF FlagSet

(* A queue at or above the watermark has its flag set. *)
LEMMA FlagSetHolds == Spec => []FlagSet
<1>1. Init => FlagSet
  BY ThresholdPositive, ConstantsAssumption DEF Init, FlagSet
<1>2. TypeInv /\ FlagSet /\ [Next]_vars => FlagSet'
  <2>. SUFFICES ASSUME TypeInv, FlagSet, [Next]_vars PROVE FlagSet'
    OBVIOUS
  <2>. USE ConstantsAssumption
  <2>0. WarnThreshold' = WarnThreshold
    BY DEF WarnThreshold
  <2>1. ASSUME NEW c \in Clients, NEW t \in Topics, NEW mode \in Modes,
               Route(c, mode, NextMessage(c), registry[t])
        PROVE  FlagSet'
    <3>1. NextMessage(c) \in Message /\ registry[t] \in Seq(Subs)
      BY DEF NextMessage, Message, TypeInv, TypeOK
    <3>. QED
      BY <2>1, <3>1, RouteWarns
  <2>2. ASSUME NEW c \in Clients, Resume(c) PROVE FlagSet'
    <3>1. call[c].msg \in Message /\ call[c].mode \in Modes /\ call[c].todo \in Seq(Subs)
      BY <2>2 DEF Resume, CallsHoldMessages, TypeInv, TypeOK, Call
    <3>. QED
      BY <2>2, <3>1, RouteWarns DEF Resume
  <2>3. ASSUME NEW s \in Subs, Dispatch(s) PROVE FlagSet'
    <3>. SUFFICES ASSUME NEW r \in Subs, Len(queue'[r]) >= WarnThreshold' PROVE warned'[r]
      BY DEF FlagSet
    <3>1. CASE r = s
      <4>1. Len(queue[s]) - 1 >= WarnThreshold /\ Len(queue[s]) >= WarnThreshold
        BY <2>0, <2>3, <3>1, ThresholdPositive DEF Dispatch, TypeInv, TypeOK
      <4>2. warned[s]
        BY <4>1 DEF FlagSet
      <4>3. warned' = [warned EXCEPT ![s] = @ /\ Len(queue[s]) - 1 >= WarnThreshold]
            /\ warned \in [Subs -> BOOLEAN]
        BY <2>3 DEF Dispatch, TypeInv, TypeOK
      <4>. QED
        BY <3>1, <4>1, <4>2, <4>3, Zenon
    <3>2. CASE r # s
      <4>1. queue'[r] = queue[r] /\ (warned[r] => warned'[r])
        BY <2>3, <3>2 DEF Dispatch, TypeInv, TypeOK
      <4>. QED
        BY <2>0, <4>1 DEF FlagSet
    <3>. QED
      BY <3>1, <3>2
  <2>4. ASSUME NEW s \in Subs, Unsubscribe(s) PROVE FlagSet'
    BY <2>4, DrainWarns DEF Unsubscribe
  <2>5. CASE StopFinish
    BY <2>5, DrainWarns DEF StopFinish
  <2>6. CASE UNCHANGED <<queue, warned>>
    BY <2>0, <2>6 DEF FlagSet
  <2>. QED
    BY <2>1, <2>2, <2>3, <2>4, <2>5, <2>6
    DEF Next, ClientStep, DispatcherStep, HandlerReturnsReply, HandlerReturnsNone,
        HandlerRaises, HandlerEnds, Publish, Request, Return, Timeout, Subscribe,
        Start, Stop, vars, Modes
<1>. QED
  BY <1>1, <1>2, TypeInvHolds, PTL DEF Spec

(* A flag is set by a warning only, and is reset before the warning is     *)
(* forgotten: a drain forgets neither.                                     *)
LEMMA FlagReportedHolds == Spec => []FlagReported
<1>1. Init => FlagReported
  BY DEF Init, FlagReported
<1>2. TypeInv /\ FlagReported /\ [Next]_vars => FlagReported'
  <2>. SUFFICES ASSUME TypeInv, FlagReported, [Next]_vars, NEW s \in Subs, warned'[s]
                PROVE  report'[s] \in {"made", "dropped"}
    BY DEF FlagReported
  <2>0. warned[s] => report[s] \in {"made", "dropped"}
    BY DEF FlagReported
  <2>1. ASSUME NEW c \in Clients, NEW mode, NEW m, NEW todo, Route(c, mode, m, todo)
        PROVE  report'[s] \in {"made", "dropped"}
    <3>1. report' = [r \in Subs |-> IF warned'[r] /\ ~warned[r] THEN "made" ELSE report[r]]
      BY <2>1 DEF Route
    <3>. QED
      BY <2>0, <3>1
  <2>2. ASSUME NEW r \in Subs, Dispatch(r) PROVE report'[s] \in {"made", "dropped"}
    <3>1. /\ warned' = [warned EXCEPT ![r] = @ /\ Len(queue[r]) - 1 >= WarnThreshold]
          /\ report' = [report EXCEPT ![r] = IF Len(queue[r]) - 1 < WarnThreshold THEN "none" ELSE @]
      BY <2>2 DEF Dispatch
    <3>2. CASE s = r
      <4>1. warned[s] /\ Len(queue[s]) - 1 >= WarnThreshold
        BY <3>1, <3>2, Zenon DEF TypeInv, TypeOK
      <4>2. Len(queue[s]) \in Nat /\ WarnThreshold \in Nat
        BY ThresholdPositive, ConstantsAssumption DEF TypeInv, TypeOK
      <4>3. ~(Len(queue[s]) - 1 < WarnThreshold)
        BY <4>1, <4>2
      <4>4. report'[s] = report[s]
        BY <3>1, <3>2, <4>3 DEF TypeInv, TypeOK
      <4>. QED
        BY <2>0, <4>1, <4>4
    <3>3. CASE s # r
      <4>1. warned'[s] = warned[s] /\ report'[s] = report[s]
        BY <3>1, <3>3 DEF TypeInv, TypeOK
      <4>. QED
        BY <2>0, <4>1
    <3>. QED
      BY <3>2, <3>3
  <2>3. ASSUME NEW S, Drain(S), UNCHANGED warned PROVE report'[s] \in {"made", "dropped"}
    BY <2>0, <2>3 DEF Drain
  <2>4. CASE UNCHANGED <<warned, report>>
    BY <2>0, <2>4
  <2>. QED
    BY <2>1, <2>2, <2>3, <2>4
    DEF Next, ClientStep, DispatcherStep, HandlerReturnsReply, HandlerReturnsNone,
        HandlerRaises, HandlerEnds, Publish, Request, Resume, Return, Timeout,
        Subscribe, Unsubscribe, Start, Stop, StopFinish, vars
<1>. QED
  BY <1>1, <1>2, TypeInvHolds, PTL DEF Spec

(* A queue at or above the high watermark was warned about in this fill or *)
(* in one that a drain cut short, whatever the size of the queues.         *)
THEOREM Watermark == Spec => []FullQueueWarned
<1>1. FlagSet /\ FlagReported => FullQueueWarned
  BY DEF FlagSet, FlagReported, FullQueueWarned
<1>. QED
  BY <1>1, FlagSetHolds, FlagReportedHolds, PTL

-----------------------------------------------------------------------------
(* Dispatchers.  What DispatcherIffServed lacks to be inductive: no        *)
(* subscription is listed twice, so that removing one entry unregisters    *)
(* it, and while stop() is under way the bus is not running, so that the   *)
(* dispatchers it ends were not started anew.                              *)
NoDuplicates ==
    \A t \in Topics : \A i, j \in DOMAIN registry[t] :
        registry[t][i] = registry[t][j] => i = j
StoppingIsStopped == stopping # {} => ~running
DispatcherInv == DispatcherIffServed /\ NoDuplicates /\ StoppingIsStopped

(* The elements of a sequence without one of them. *)
LEMMA RemoveAtElements ==
  ASSUME NEW S, NEW q \in Seq(S), NEW i \in DOMAIN q
  PROVE  /\ RemoveAt(q, i) \in Seq(S)
         /\ Len(RemoveAt(q, i)) = Len(q) - 1
         /\ \A j \in 1 .. (Len(q) - 1) :
               RemoveAt(q, i)[j] = IF j < i THEN q[j] ELSE q[j + 1]
<1>. DEFINE front == SubSeq(q, 1, i - 1)
            back  == SubSeq(q, i + 1, Len(q))
<1>1. i \in 1 .. Len(q) /\ Len(q) \in Nat
  OBVIOUS
<1>2. /\ front \in Seq(S) /\ Len(front) = i - 1
      /\ \A j \in 1 .. (i - 1) : front[j] = q[j]
  BY <1>1
<1>3. /\ back \in Seq(S) /\ Len(back) = Len(q) - i
      /\ \A j \in 1 .. (Len(q) - i) : back[j] = q[i + j]
  BY <1>1
<1>4. RemoveAt(q, i) = front \o back
  BY DEF RemoveAt
<1>. HIDE DEF front, back
<1>5. /\ front \o back \in Seq(S)
      /\ Len(front \o back) = Len(q) - 1
      /\ \A j \in 1 .. (Len(q) - 1) :
            (front \o back)[j] = IF j <= i - 1 THEN front[j] ELSE back[j - (i - 1)]
  <2>1. front \in Seq(S) /\ back \in Seq(S)
    BY <1>2, <1>3
  <2>2. /\ front \o back \in Seq(S)
        /\ Len(front \o back) = Len(front) + Len(back)
        /\ \A j \in 1 .. (Len(front) + Len(back)) :
              (front \o back)[j] = IF j <= Len(front) THEN front[j] ELSE back[j - Len(front)]
    BY <2>1, ConcatProperties
  <2>3. Len(front) = i - 1 /\ Len(front) + Len(back) = Len(q) - 1
    BY <1>1, <1>2, <1>3
  <2>. QED
    BY <2>2, <2>3
<1>6. ASSUME NEW j \in 1 .. (Len(q) - 1)
      PROVE  RemoveAt(q, i)[j] = IF j < i THEN q[j] ELSE q[j + 1]
  <2>1. CASE j < i
    <3>1. j \in 1 .. (i - 1) /\ j <= i - 1
      BY <2>1, <1>1
    <3>2. (front \o back)[j] = front[j]
      BY <1>5, <3>1
    <3>3. front[j] = q[j]
      BY <1>2, <3>1
    <3>. QED
      BY <2>1, <1>4, <3>2, <3>3
  <2>2. CASE j >= i
    <3>1. j - (i - 1) \in 1 .. (Len(q) - i) /\ i + (j - (i - 1)) = j + 1
      BY <2>2, <1>1
    <3>2. back[j - (i - 1)] = q[j + 1]
      BY <3>1, <1>3
    <3>3. ~(j <= i - 1) /\ ~(j < i)
      BY <2>2, <1>1
    <3>4. (front \o back)[j] = back[j - (i - 1)]
      BY <3>3, <1>5
    <3>. QED
      BY <3>2, <3>3, <3>4, <1>4
  <2>. QED
    BY <2>1, <2>2, <1>1
<1>. QED
  BY <1>4, <1>5, <1>6

(* Unsubscribing takes s, and s only, out of the registry. *)
LEMMA UnregisterOne ==
  ASSUME ConstantsAssumption, TypeInv, NoDuplicates, NEW s \in Subs, Unsubscribe(s)
  PROVE  /\ NoDuplicates'
         /\ \A r \in Subs : Registered(r)' <=> Registered(r) /\ r # s
<1>. DEFINE t == TopicOf[s]
<1>0. t \in Topics /\ registry[t] \in Seq(Subs) /\ registry \in [Topics -> Seq(Subs)]
  BY DEF ConstantsAssumption, TypeInv, TypeOK
<1>1. PICK i \in DOMAIN registry[t] :
         registry[t][i] = s /\ registry' = [registry EXCEPT ![t] = RemoveAt(@, i)]
  BY DEF Unsubscribe
<1>2. /\ registry'[t] = RemoveAt(registry[t], i)
      /\ \A u \in Topics : u # t => registry'[u] = registry[u]
  BY <1>0, <1>1
<1>3. /\ registry'[t] \in Seq(Subs)
      /\ Len(registry'[t]) = Len(registry[t]) - 1
      /\ \A j \in 1 .. (Len(registry[t]) - 1) :
            registry'[t][j] = IF j < i THEN registry[t][j] ELSE registry[t][j + 1]
  BY <1>0, <1>2, RemoveAtElements
<1>4. /\ DOMAIN registry[t] = 1 .. Len(registry[t])
      /\ DOMAIN registry'[t] = 1 .. (Len(registry[t]) - 1)
      /\ Len(registry[t]) \in Nat /\ i \in 1 .. Len(registry[t])
  BY <1>0, <1>1, <1>3
<1>5. \A j, k \in 1 .. Len(registry[t]) : registry[t][j] = registry[t][k] => j = k
  BY <1>0, <1>4 DEF NoDuplicates
<1>. HIDE DEF t
<1>6. NoDuplicates'
  <2>. SUFFICES ASSUME NEW u \in Topics, NEW j \in DOMAIN registry'[u],
                       NEW k \in DOMAIN registry'[u], registry'[u][j] = registry'[u][k]
                PROVE  j = k
    BY DEF NoDuplicates
  <2>1. CASE u = t
    <3>1. j \in 1 .. (Len(registry[t]) - 1) /\ k \in 1 .. (Len(registry[t]) - 1)
      BY <2>1, <1>4
    <3>2. /\ registry'[t][j] = IF j < i THEN registry[t][j] ELSE registry[t][j + 1]
          /\ registry'[t][k] = IF k < i THEN registry[t][k] ELSE registry[t][k + 1]
          /\ registry'[t][j] = registry'[t][k]
      BY <2>1, <3>1, <1>3
    <3>3. CASE j < i /\ k < i
      BY <3>1, <3>2, <3>3, <1>4, <1>5
    <3>4. CASE j < i /\ ~(k < i)
      <4>1. registry[t][j] = registry[t][k + 1] /\ j \in 1 .. Len(registry[t])
            /\ k + 1 \in 1 .. Len(registry[t])
        BY <3>1, <3>2, <3>4, <1>4
      <4>. QED
        BY <3>1, <3>4, <4>1, <1>4, <1>5
    <3>5. CASE ~(j < i) /\ k < i
      <4>1. registry[t][j + 1] = registry[t][k] /\ k \in 1 .. Len(registry[t])
            /\ j + 1 \in 1 .. Len(registry[t])
        BY <3>1, <3>2, <3>5, <1>4
      <4>. QED
        BY <3>1, <3>5, <4>1, <1>4, <1>5
    <3>6. CASE ~(j < i) /\ ~(k < i)
      <4>1. registry[t][j + 1] = registry[t][k + 1] /\ k + 1 \in 1 .. Len(registry[t])
            /\ j + 1 \in 1 .. Len(registry[t])
        BY <3>1, <3>2, <3>6, <1>4
      <4>. QED
        BY <3>1, <4>1, <1>4, <1>5
    <3>. QED
      BY <3>3, <3>4, <3>5, <3>6
  <2>2. CASE u # t
    BY <2>2, <1>2 DEF NoDuplicates
  <2>. QED
    BY <2>1, <2>2
<1>7. ASSUME NEW r \in Subs PROVE Registered(r)' <=> Registered(r) /\ r # s
  <2>1. CASE TopicOf[r] = t
    <3>1. ASSUME NEW j \in DOMAIN registry'[t], registry'[t][j] = r
          PROVE  Registered(r) /\ r # s
      <4>1. PICK k \in 1 .. Len(registry[t]) : k # i /\ registry[t][k] = r
        <5>1. j \in 1 .. (Len(registry[t]) - 1)
          BY <1>4
        <5>2. registry'[t][j] = IF j < i THEN registry[t][j] ELSE registry[t][j + 1]
          BY <5>1, <1>3
        <5>3. CASE j < i
          BY <3>1, <5>1, <5>2, <5>3, <1>4
        <5>4. CASE ~(j < i)
          <6>1. j + 1 \in 1 .. Len(registry[t]) /\ j + 1 # i /\ registry[t][j + 1] = r
            BY <3>1, <5>1, <5>2, <5>4, <1>4
          <6>. QED
            BY <6>1
        <5>. QED
          BY <5>3, <5>4
      <4>. QED
        BY <4>1, <2>1, <1>1, <1>4, <1>5 DEF Registered
    <3>2. ASSUME NEW j \in DOMAIN registry[t], registry[t][j] = r, r # s
          PROVE  \E k \in DOMAIN registry'[t] : registry'[t][k] = r
      <4>1. CASE j < i
        BY <3>2, <4>1, <1>1, <1>3, <1>4
      <4>2. CASE j > i
        <5>1. j - 1 \in DOMAIN registry'[t] /\ registry'[t][j - 1] = registry[t][j]
          BY <4>2, <1>1, <1>3, <1>4
        <5>. QED
          BY <3>2, <5>1
      <4>3. j # i
        BY <3>2, <1>1
      <4>. QED
        BY <4>1, <4>2, <4>3, <1>4
    <3>. QED
      BY <2>1, <3>1, <3>2 DEF Registered
  <2>2. CASE TopicOf[r] # t
    <3>1. r # s /\ TopicOf[r] \in Topics
      BY <2>2 DEF t, ConstantsAssumption
    <3>. QED
      BY <2>2, <3>1, <1>2 DEF Registered
  <2>. QED
    BY <2>1, <2>2
<1>. QED
  BY <1>6, <1>7

(* Subscribing puts s, and s only, into the registry. *)
LEMMA RegisterOne ==
  ASSUME ConstantsAssumption, TypeInv, NoDuplicates, NEW s \in Subs, Subscribe(s)
  PROVE  /\ NoDuplicates'
         /\ \A r \in Subs : Registered(r)' <=> Registered(r) \/ r = s
<1>. DEFINE t == TopicOf[s]
<1>0. t \in Topics /\ registry[t] \in Seq(Subs) /\ registry \in [Topics -> Seq(Subs)]
  BY DEF ConstantsAssumption, TypeInv, TypeOK
<1>1. ~Registered(s) /\ registry' = [registry EXCEPT ![t] = Append(@, s)]
  BY DEF Subscribe
<1>2. /\ DOMAIN registry[t] = 1 .. Len(registry[t]) /\ Len(registry[t]) \in Nat
      /\ DOMAIN registry'[t] = 1 .. (Len(registry[t]) + 1)
      /\ \A j \in 1 .. Len(registry[t]) : registry'[t][j] = registry[t][j]
      /\ registry'[t][Len(registry[t]) + 1] = s
      /\ \A u \in Topics : u # t => registry'[u] = registry[u]
  BY <1>0, <1>1
<1>3. /\ \A j \in 1 .. Len(registry[t]) : registry[t][j] # s
      /\ \A j, k \in 1 .. Len(registry[t]) : registry[t][j] = registry[t][k] => j = k
  BY <1>0, <1>1, <1>2 DEF Registered, NoDuplicates
<1>. HIDE DEF t
<1>4. NoDuplicates'
  <2>. SUFFICES ASSUME NEW u \in Topics, NEW j \in DOMAIN registry'[u],
                       NEW k \in DOMAIN registry'[u], registry'[u][j] = registry'[u][k]
                PROVE  j = k
    BY DEF NoDuplicates
  <2>1. CASE u = t
    <3>1. /\ j \in 1 .. (Len(registry[t]) + 1) /\ k \in 1 .. (Len(registry[t]) + 1)
          /\ registry'[t][j] = registry'[t][k]
      BY <2>1, <1>2
    <3>2. CASE j = Len(registry[t]) + 1 \/ k = Len(registry[t]) + 1
      BY <3>1, <3>2, <1>2, <1>3
    <3>3. CASE j \in 1 .. Len(registry[t]) /\ k \in 1 .. Len(registry[t])
      BY <3>1, <3>3, <1>2, <1>3
    <3>. QED
      BY <3>1, <3>2, <3>3, <1>2
  <2>2. CASE u # t
    BY <2>2, <1>2 DEF NoDuplicates
  <2>. QED
    BY <2>1, <2>2
<1>5. ASSUME NEW r \in Subs PROVE Registered(r)' <=> Registered(r) \/ r = s
  <2>1. CASE TopicOf[r] = t
    BY <2>1, <1>2 DEF Registered, t
  <2>2. CASE TopicOf[r] # t
    <3>1. r # s /\ TopicOf[r] \in Topics
      BY <2>2 DEF t, ConstantsAssumption
    <3>. QED
      BY <2>2, <3>1, <1>2 DEF Registered
  <2>. QED
    BY <2>1, <2>2
<1>. QED
  BY <1>4, <1>5

(* A step that moves no subscription in or out of the registry. *)
LEMMA SameRegistry ==
  ASSUME UNCHANGED registry
  PROVE  /\ NoDuplicates <=> NoDuplicates'
         /\ \A s \in Subs : Registered(s)' <=> Registered(s)
  BY DEF NoDuplicates, Registered

(* Every step preserves DispatcherInv. *)
LEMMA StepDispatchers ==
  ASSUME ConstantsAssumption, TypeInv, DispatcherInv, [Next]_vars
  PROVE  DispatcherInv'
<1>. USE DEF TypeInv, TypeOK, DispatcherInv, DispatcherIffServed, Live, StoppingIsStopped
<1>1. ASSUME NEW c \in Clients, ClientStep(c) PROVE DispatcherInv'
  <2>1. UNCHANGED <<running, stopping, registry, dispatcher, handling>>
    BY <1>1 DEF ClientStep, Publish, Request, Resume, Return, Timeout
  <2>. QED
    BY <2>1, SameRegistry
<1>2. ASSUME NEW s \in Subs, Dispatch(s) PROVE DispatcherInv'
  <2>1. Head(queue[s]) # NoMessage
    <3>1. queue[s] \in Seq(Message) /\ queue[s] # <<>>
      BY <1>2 DEF Dispatch
    <3>. QED
      BY <3>1, NoMessageIsNone
  <2>2. /\ dispatcher[s] = "waiting"
        /\ dispatcher' = [dispatcher EXCEPT ![s] = "handling"]
        /\ handling' = [handling EXCEPT ![s] = Head(queue[s])]
        /\ UNCHANGED <<running, stopping, registry>>
    BY <1>2 DEF Dispatch
  <2>. QED
    BY <2>1, <2>2, SameRegistry
<1>3. ASSUME NEW s \in Subs, NEW outcome \in {"replied", "failed", "none"},
             HandlerEnds(s, outcome)
      PROVE  DispatcherInv'
  <2>1. /\ dispatcher[s] = "handling"
        /\ dispatcher' = [dispatcher EXCEPT ![s] = "waiting"]
        /\ handling' = [handling EXCEPT ![s] = NoMessage]
        /\ UNCHANGED <<running, stopping, registry>>
    BY <1>3 DEF HandlerEnds
  <2>. QED
    BY <2>1, SameRegistry
<1>4. ASSUME NEW s \in Subs, Subscribe(s) PROVE DispatcherInv'
  <2>1. /\ ~Registered(s)
        /\ dispatcher' = [dispatcher EXCEPT ![s] = IF running THEN "waiting" ELSE "none"]
        /\ UNCHANGED <<running, stopping, handling>>
    BY <1>4 DEF Subscribe
  <2>. QED
    BY <1>4, <2>1, RegisterOne
<1>5. ASSUME NEW s \in Subs, Unsubscribe(s) PROVE DispatcherInv'
  <2>1. /\ dispatcher' = [dispatcher EXCEPT ![s] = "none"]
        /\ handling' = [handling EXCEPT ![s] = NoMessage]
        /\ UNCHANGED <<running, stopping>>
    BY <1>5 DEF Unsubscribe
  <2>. QED
    BY <1>5, <2>1, UnregisterOne
<1>6. CASE Start
  <2>1. /\ ~running /\ stopping = {} /\ running' = TRUE
        /\ dispatcher' = [s \in Subs |-> IF Registered(s) THEN "waiting" ELSE dispatcher[s]]
        /\ UNCHANGED <<stopping, registry, handling>>
    BY <1>6 DEF Start
  <2>. QED
    BY <2>1, SameRegistry
<1>7. CASE Stop
  <2>1. /\ running' = FALSE
        /\ dispatcher' = [s \in Subs |-> IF Registered(s) THEN "cancelled" ELSE dispatcher[s]]
        /\ handling' = [s \in Subs |-> IF Registered(s) THEN NoMessage ELSE handling[s]]
        /\ UNCHANGED registry
    BY <1>7 DEF Stop
  <2>. QED
    BY <2>1, SameRegistry
<1>8. CASE StopFinish
  <2>1. /\ stopping # {} /\ stopping' = {}
        /\ dispatcher' = [s \in Subs |-> IF s \in stopping THEN "none" ELSE dispatcher[s]]
        /\ UNCHANGED <<running, registry, handling>>
    BY <1>8 DEF StopFinish
  <2>. QED
    BY <2>1, SameRegistry
<1>9. CASE UNCHANGED vars
  <2>1. UNCHANGED <<running, stopping, registry, dispatcher, handling>>
    BY <1>9 DEF vars
  <2>. QED
    BY <2>1, SameRegistry
<1>. QED
  BY <1>1, <1>2, <1>3, <1>4, <1>5, <1>6, <1>7, <1>8, <1>9
  DEF Next, DispatcherStep, HandlerReturnsReply, HandlerReturnsNone, HandlerRaises

(* The dispatchers' invariant holds throughout. *)
THEOREM DispatchersHold == Spec => []DispatcherInv
<1>1. Init => DispatcherInv
  <2>. SUFFICES ASSUME Init PROVE DispatcherInv
    OBVIOUS
  <2>1. \A s \in Subs : ~Live(s) /\ dispatcher[s] # "handling" /\ handling[s] = NoMessage
    BY DEF Init, Live
  <2>2. running = FALSE /\ stopping = {}
    BY DEF Init
  <2>3. NoDuplicates
    BY DEF Init, NoDuplicates
  <2>. QED
    BY <2>1, <2>2, <2>3 DEF DispatcherInv, DispatcherIffServed, StoppingIsStopped
<1>2. TypeInv /\ DispatcherInv /\ [Next]_vars => DispatcherInv'
  BY StepDispatchers, ConstantsAssumption
<1>. QED
  BY <1>1, <1>2, TypeInvHolds, PTL DEF Spec

(* Through every order of start, stop, subscribe and unsubscribe a         *)
(* subscription has a live dispatcher exactly while it is registered on a  *)
(* running bus, and only a live dispatcher is inside a handler.            *)
THEOREM Served == Spec => []DispatcherIffServed
<1>1. DispatcherInv => DispatcherIffServed
  BY DEF DispatcherInv
<1>. QED
  BY <1>1, DispatchersHold, PTL

-----------------------------------------------------------------------------
(* Order.  What SenderOrder lacks to be inductive: a client inside a call  *)
(* holds a message of its own, no message is newer than the last one       *)
(* issued, and what a held-back routing has yet to reach names no          *)
(* subscription twice (which follows from the registry).                   *)
OwnMessages ==
    \A c \in Clients : call[c].pc # "ready" =>
        call[c].msg.from = c /\ call[c].msg.id <= issued
OnlyIssued == \A s \in Subs : \A i \in DOMAIN Line(s) : Line(s)[i].id <= issued
TodoOnce ==
    \A c \in Clients :
        /\ call[c].pc = "routing" <=> call[c].todo # <<>>
        /\ \A i, j \in DOMAIN call[c].todo : call[c].todo[i] = call[c].todo[j] => i = j
OrderInv == SenderOrder /\ OwnMessages /\ OnlyIssued /\ TodoOnce

(* p is q without some of its elements. *)
Within(p, q) ==
    \E f \in [DOMAIN p -> DOMAIN q] :
        /\ \A i \in DOMAIN p : p[i] = q[f[i]]
        /\ \A i, j \in DOMAIN p : i < j => f[i] < f[j]

(* A line is a sequence of messages. *)
LEMMA LineType == ASSUME TypeInv, NEW s \in Subs PROVE Line(s) \in Seq(Message)
<1>1. queue[s] \in Seq(Message) /\ handling[s] \in Message \cup {NoMessage}
  BY DEF TypeInv, TypeOK
<1>2. (IF handling[s] = NoMessage THEN <<>> ELSE <<handling[s]>>) \in Seq(Message)
  BY <1>1
<1>. QED
  BY <1>1, <1>2, ConcatProperties DEF Line

(* What a subscription has not finished, element by element. *)
LEMMA LineElements ==
  ASSUME TypeInv, NEW s \in Subs
  PROVE  IF handling[s] = NoMessage THEN Line(s) = queue[s]
         ELSE /\ Len(Line(s)) = Len(queue[s]) + 1
              /\ Line(s)[1] = handling[s]
              /\ \A i \in 1 .. Len(queue[s]) : Line(s)[i + 1] = queue[s][i]
<1>1. queue[s] \in Seq(Message) /\ handling[s] \in Message \cup {NoMessage}
  BY DEF TypeInv, TypeOK
<1>2. CASE handling[s] = NoMessage
  <2>1. Line(s) = <<>> \o queue[s]
    BY <1>2 DEF Line
  <2>. QED
    BY <1>1, <1>2, <2>1
<1>3. CASE handling[s] # NoMessage
  <2>1. Line(s) = <<handling[s]>> \o queue[s] /\ <<handling[s]>> \in Seq(Message)
        /\ Len(<<handling[s]>>) = 1 /\ <<handling[s]>>[1] = handling[s]
    BY <1>1, <1>3 DEF Line
  <2>. HIDE DEF NoMessage
  <2>2. /\ Len(Line(s)) = 1 + Len(queue[s])
        /\ \A i \in 1 .. (1 + Len(queue[s])) :
              Line(s)[i] = IF i <= 1 THEN <<handling[s]>>[i] ELSE queue[s][i - 1]
    BY <1>1, <2>1, ConcatProperties
  <2>. QED
    BY <1>1, <1>3, <2>1, <2>2
<1>. QED
  BY <1>2, <1>3

(* Whatever is a subsequence of itself. *)
LEMMA WithinSame == ASSUME NEW q \in Seq(Message) PROVE Within(q, q)
<1>. DEFINE f == [i \in DOMAIN q |-> i]
<1>1. f \in [DOMAIN q -> DOMAIN q] /\ \A i \in DOMAIN q : f[i] = i
  OBVIOUS
<1>. HIDE DEF f
<1>. QED
  BY <1>1 DEF Within

(* The empty line is within every line. *)
LEMMA WithinEmpty == ASSUME NEW q \in Seq(Message) PROVE Within(<<>>, q)
<1>. DEFINE f == [i \in {} |-> i]
<1>1. DOMAIN <<>> = {} /\ f \in [{} -> DOMAIN q]
  OBVIOUS
<1>. HIDE DEF f
<1>. QED
  BY <1>1 DEF Within

(* What is queued is part of the line. *)
LEMMA WithinQueue == ASSUME TypeInv, NEW s \in Subs PROVE Within(queue[s], Line(s))
<1>. DEFINE f == [i \in DOMAIN queue[s] |-> i + 1]
<1>0. queue[s] \in Seq(Message) /\ Line(s) \in Seq(Message)
  BY LineType DEF TypeInv, TypeOK
<1>1. CASE handling[s] = NoMessage
  BY <1>0, <1>1, LineElements, WithinSame
<1>2. CASE handling[s] # NoMessage
  <2>1. /\ Len(Line(s)) = Len(queue[s]) + 1
        /\ \A i \in 1 .. Len(queue[s]) : Line(s)[i + 1] = queue[s][i]
    BY <1>2, LineElements
  <2>2. f \in [DOMAIN queue[s] -> DOMAIN Line(s)] /\ \A i \in DOMAIN queue[s] : f[i] = i + 1
    BY <1>0, <2>1
  <2>. HIDE DEF f
  <2>3. ASSUME NEW i \in DOMAIN queue[s] PROVE queue[s][i] = Line(s)[f[i]]
    <3>1. i \in 1 .. Len(queue[s]) /\ f[i] = i + 1
      BY <1>0, <2>2
    <3>. QED
      BY <2>1, <3>1
  <2>4. ASSUME NEW i \in DOMAIN queue[s], NEW j \in DOMAIN queue[s], i < j
        PROVE  f[i] < f[j]
    <3>1. i \in Nat /\ j \in Nat /\ f[i] = i + 1 /\ f[j] = j + 1
      BY <1>0, <2>2
    <3>. QED
      BY <2>4, <3>1
  <2>. QED
    BY <2>2, <2>3, <2>4 DEF Within
<1>. QED
  BY <1>1, <1>2

(* A step that takes messages out of the lines, and clients out of their   *)
(* calls, keeps the order.                                                 *)
LEMMA ShrinkOrder ==
  ASSUME TypeInv, TypeInv', OrderInv, UNCHANGED issued,
         \A c \in Clients : call'[c] = call[c] \/ call'[c] = Idle,
         \A s \in Subs : Within(Line(s)', Line(s))
  PROVE  OrderInv'
<1>0. /\ Idle.pc = "ready" /\ Idle.todo = <<>> /\ DOMAIN Idle.todo = {} /\ Range(<<>>) = {}
      /\ issued \in Nat
  BY DEF Idle, Range, TypeInv, TypeOK
<1>1. ASSUME NEW s \in Subs, NEW i \in DOMAIN Line(s)'
      PROVE  \E k \in DOMAIN Line(s) : Line(s)'[i] = Line(s)[k]
  BY DEF Within
<1>2. OwnMessages'
  BY <1>0 DEF OrderInv, OwnMessages
<1>3. OnlyIssued'
  BY <1>1 DEF OrderInv, OnlyIssued
<1>4. TodoOnce'
  BY <1>0 DEF OrderInv, TodoOnce
<1>5. ASSUME NEW s \in Subs, NEW i \in DOMAIN Line(s)', NEW j \in DOMAIN Line(s)',
             i < j, Line(s)'[i].from = Line(s)'[j].from
      PROVE  Line(s)'[i].id < Line(s)'[j].id
  <2>1. PICK f \in [DOMAIN Line(s)' -> DOMAIN Line(s)] :
            /\ \A k \in DOMAIN Line(s)' : Line(s)'[k] = Line(s)[f[k]]
            /\ \A k, l \in DOMAIN Line(s)' : k < l => f[k] < f[l]
    BY DEF Within
  <2>2. f[i] < f[j] /\ f[i] \in DOMAIN Line(s) /\ f[j] \in DOMAIN Line(s)
    BY <1>5, <2>1
  <2>. QED
    BY <1>5, <2>1, <2>2 DEF OrderInv, SenderOrder
<1>6. ASSUME NEW s \in Subs, NEW c \in Clients, NEW i \in DOMAIN Line(s)',
             s \in Range(call'[c].todo), Line(s)'[i].from = c
      PROVE  Line(s)'[i].id < call'[c].msg.id
  <2>1. call'[c] = call[c]
    BY <1>0, <1>6
  <2>. QED
    BY <1>1, <1>6, <2>1 DEF OrderInv, SenderOrder
<1>7. SenderOrder'
  BY <1>5, <1>6 DEF SenderOrder
<1>. QED
  BY <1>2, <1>3, <1>4, <1>7 DEF OrderInv

(* Appending to the second of two sequences appends to both. *)
LEMMA ConcatAppend ==
  ASSUME NEW S, NEW p \in Seq(S), NEW q \in Seq(S), NEW x \in S
  PROVE  p \o Append(q, x) = Append(p \o q, x)
<1>0. <<x>> \in Seq(S)
  OBVIOUS
<1>1. PICK u \in Seq(S) : u = <<x>>
  BY <1>0, Zenon
<1>2. p \o q \in Seq(S)
  BY ConcatProperties
<1>3. Append(q, x) = q \o u /\ Append(p \o q, x) = (p \o q) \o u
  BY <1>1, <1>2, AppendIsConcat
<1>4. (p \o q) \o u = p \o (q \o u)
  BY <1>1, ConcatAssociative
<1>. QED
  BY <1>3, <1>4

(* A message put on a queue is the last of the line. *)
LEMMA LineGrows ==
  ASSUME TypeInv, NEW s \in Subs, NEW m \in Message,
         handling'[s] = handling[s], queue'[s] = Append(queue[s], m)
  PROVE  Line(s)' = Append(Line(s), m)
<1>. DEFINE h == IF handling[s] = NoMessage THEN <<>> ELSE <<handling[s]>>
<1>1. queue[s] \in Seq(Message) /\ h \in Seq(Message)
  BY DEF TypeInv, TypeOK
<1>2. Line(s) = h \o queue[s] /\ Line(s)' = h \o Append(queue[s], m)
  BY DEF Line
<1>. HIDE DEF h
<1>. QED
  BY <1>1, <1>2, ConcatAppend

(* What routing does to the lines and to the call: k queues grow by the    *)
(* message, and what is left to reach holds none of them.                  *)
LEMMA RouteLines ==
  ASSUME TypeInv, NEW c \in Clients, NEW mode \in Modes, NEW m \in Message,
         NEW todo \in Seq(Subs), Route(c, mode, m, todo), UNCHANGED handling,
         \A i, j \in DOMAIN todo : todo[i] = todo[j] => i = j
  PROVE  /\ \A d \in Clients : d # c => call'[d] = call[d]
         /\ \A s \in Subs : \/ Line(s)' = Line(s)
                            \/ Line(s)' = Append(Line(s), m) /\ s \in Range(todo)
         /\ \/ call'[c] = Idle
            \/ /\ call'[c].pc = "waiting" /\ call'[c].msg = m /\ call'[c].todo = <<>>
            \/ /\ call'[c].pc = "routing" /\ call'[c].msg = m
               /\ call'[c].todo \in Seq(Subs) /\ call'[c].todo # <<>>
               /\ \A i, j \in DOMAIN call'[c].todo :
                     call'[c].todo[i] = call'[c].todo[j] => i = j
               /\ \A s \in Range(call'[c].todo) :
                     s \in Range(todo) /\ Line(s)' = Line(s)
<1>1. PICK k \in 0 .. Len(todo) :
        /\ queue' = [s \in Subs |-> IF s \in {todo[i] : i \in 1 .. k}
                                    THEN Append(queue[s], m) ELSE queue[s]]
        /\ \/ call' = [call EXCEPT ![c] =
                         IF mode = "publish" THEN Idle
                         ELSE [pc |-> "waiting", mode |-> mode, msg |-> m, todo |-> <<>>]]
           \/ /\ k < Len(todo)
              /\ call' = [call EXCEPT ![c] =
                            [pc |-> "routing", mode |-> mode, msg |-> m,
                             todo |-> SubSeq(todo, k + 1, Len(todo))]]
  BY DEF Route
<1>. DEFINE reached == {todo[i] : i \in 1 .. k}
            rest    == SubSeq(todo, k + 1, Len(todo))
<1>2. call \in [Clients -> Call] /\ queue \in [Subs -> Seq(Message)]
  BY DEF TypeInv, TypeOK
<1>3. ASSUME NEW s \in Subs
      PROVE  /\ s \in reached => Line(s)' = Append(Line(s), m) /\ s \in Range(todo)
             /\ s \notin reached => Line(s)' = Line(s)
  <2>1. CASE s \in reached
    <3>1. queue'[s] = Append(queue[s], m) /\ handling'[s] = handling[s]
      BY <1>1, <2>1
    <3>2. s \in Range(todo)
      BY <2>1 DEF Range
    <3>. QED
      BY <2>1, <3>1, <3>2, LineGrows
  <2>2. CASE s \notin reached
    BY <1>1, <2>2 DEF Line
  <2>. QED
    BY <2>1, <2>2
<1>4. ASSUME k < Len(todo)
      PROVE  /\ rest \in Seq(Subs) /\ rest # <<>>
             /\ \A i, j \in DOMAIN rest : rest[i] = rest[j] => i = j
             /\ \A s \in Range(rest) : s \in Range(todo) /\ s \notin reached /\ s \in Subs
  <2>1. /\ rest \in Seq(Subs) /\ Len(rest) = Len(todo) - k
        /\ DOMAIN rest = 1 .. (Len(todo) - k)
        /\ \A i \in 1 .. (Len(todo) - k) : rest[i] = todo[k + i] /\ k + i \in DOMAIN todo
    BY <1>4
  <2>. HIDE DEF rest
  <2>2. rest # <<>>
    BY <1>4, <2>1
  <2>3. ASSUME NEW i \in DOMAIN rest, NEW j \in DOMAIN rest, rest[i] = rest[j]
        PROVE  i = j
    <3>1. todo[k + i] = todo[k + j] /\ k + i \in DOMAIN todo /\ k + j \in DOMAIN todo
      BY <2>1, <2>3
    <3>2. k + i = k + j
      BY <3>1
    <3>. QED
      BY <2>1, <3>2
  <2>4. ASSUME NEW i \in DOMAIN rest
        PROVE  rest[i] \in Range(todo) /\ rest[i] \notin reached /\ rest[i] \in Subs
    BY <2>1 DEF Range
  <2>. QED
    BY <2>1, <2>2, <2>3, <2>4 DEF Range
<1>5. \A d \in Clients : d # c => call'[d] = call[d]
  BY <1>1, <1>2
<1>6. CASE call' = [call EXCEPT ![c] =
                      IF mode = "publish" THEN Idle
                      ELSE [pc |-> "waiting", mode |-> mode, msg |-> m, todo |-> <<>>]]
  BY <1>2, <1>3, <1>5, <1>6
<1>7. CASE k < Len(todo) /\ call' = [call EXCEPT ![c] =
                            [pc |-> "routing", mode |-> mode, msg |-> m, todo |-> rest]]
  <2>1. call'[c] = [pc |-> "routing", mode |-> mode, msg |-> m, todo |-> rest]
    BY <1>2, <1>7
  <2>. HIDE DEF rest
  <2>2. call'[c].pc = "routing" /\ call'[c].msg = m /\ call'[c].todo = rest
    BY <2>1
  <2>. QED
    BY <1>3, <1>4, <1>5, <1>7, <2>2
<1>. QED
  BY <1>1, <1>6, <1>7

(* Routing keeps the order, for a message newer than everything of its     *)
(* sender that is in front of it.                                          *)
LEMMA RouteOrder ==
  ASSUME TypeInv, TypeInv', OrderInv, NEW c \in Clients, NEW mode \in Modes, NEW m \in Message,
         NEW todo \in Seq(Subs), Route(c, mode, m, todo), UNCHANGED handling,
         \A i, j \in DOMAIN todo : todo[i] = todo[j] => i = j,
         m.from = c, m.id <= issued', issued <= issued',
         \A s \in Range(todo) : \A i \in DOMAIN Line(s) :
             Line(s)[i].from = c => Line(s)[i].id < m.id
  PROVE  OrderInv'
<1>0. /\ Idle.pc = "ready" /\ Idle.todo = <<>> /\ DOMAIN Idle.todo = {} /\ Range(<<>>) = {}
      /\ DOMAIN <<>> = {}
      /\ issued \in Nat /\ issued' \in Nat /\ m.id \in Nat
      /\ \A d \in Clients : call[d].msg \in Message => call[d].msg.id \in Nat
  BY DEF Idle, Range, TypeInv, TypeOK, Message
<1>10. \A s \in Subs : Line(s) \in Seq(Message)
  BY LineType
<1>. DEFINE Left ==
       \/ call'[c] = Idle
       \/ /\ call'[c].pc = "waiting" /\ call'[c].msg = m /\ call'[c].todo = <<>>
       \/ /\ call'[c].pc = "routing" /\ call'[c].msg = m
          /\ call'[c].todo \in Seq(Subs) /\ call'[c].todo # <<>>
          /\ \A i, j \in DOMAIN call'[c].todo :
                call'[c].todo[i] = call'[c].todo[j] => i = j
          /\ \A s \in Range(call'[c].todo) :
                s \in Range(todo) /\ Line(s)' = Line(s)
<1>1. /\ \A d \in Clients : d # c => call'[d] = call[d]
      /\ \A s \in Subs : \/ Line(s)' = Line(s)
                         \/ Line(s)' = Append(Line(s), m) /\ s \in Range(todo)
      /\ Left
  BY RouteLines
<1>2. OwnMessages'
  <2>1. ASSUME NEW d \in Clients, d # c, call'[d].pc # "ready"
        PROVE  call'[d].msg.from = d /\ call'[d].msg.id <= issued'
    <3>1. call'[d] = call[d] /\ call[d].msg \in Message
      BY <1>1, <2>1 DEF TypeInv, CallsHoldMessages
    <3>. QED
      BY <1>0, <2>1, <3>1 DEF OrderInv, OwnMessages
  <2>2. call'[c].pc # "ready" => call'[c].msg.from = c /\ call'[c].msg.id <= issued'
    BY <1>0, <1>1
  <2>. QED
    BY <2>1, <2>2 DEF OwnMessages
<1>3. TodoOnce'
  <2>1. ASSUME NEW d \in Clients
        PROVE  /\ call'[d].pc = "routing" <=> call'[d].todo # <<>>
               /\ \A i, j \in DOMAIN call'[d].todo :
                     call'[d].todo[i] = call'[d].todo[j] => i = j
    <3>1. CASE d # c
      BY <1>1, <3>1 DEF OrderInv, TodoOnce
    <3>2. CASE d = c
      BY <1>0, <1>1, <3>2
    <3>. QED
      BY <3>1, <3>2
  <2>. QED
    BY <2>1 DEF TodoOnce
<1>. HIDE DEF Left
<1>4. ASSUME NEW s \in Subs, NEW i \in DOMAIN Line(s)'
      PROVE  \/ i \in DOMAIN Line(s) /\ Line(s)'[i] = Line(s)[i]
             \/ /\ Line(s)' = Append(Line(s), m) /\ s \in Range(todo)
                /\ i = Len(Line(s)) + 1 /\ Line(s)'[i] = m
  <2>1. CASE Line(s)' = Line(s)
    BY <2>1
  <2>2. CASE Line(s)' = Append(Line(s), m) /\ s \in Range(todo)
    BY <1>10, <2>2
  <2>. QED
    BY <1>1, <2>1, <2>2
<1>5. \A s \in Subs : \A i \in DOMAIN Line(s) : Line(s)[i] \in Message /\ Line(s)[i].id \in Nat
                                             /\ i <= Len(Line(s)) /\ i \in Nat
  <2>1. \A x \in Message : x.id \in Nat
    BY DEF Message
  <2>. QED
    BY <1>10, <2>1
<1>6. OnlyIssued'
  <2>. SUFFICES ASSUME NEW s \in Subs, NEW i \in DOMAIN Line(s)'
                PROVE  Line(s)'[i].id <= issued'
    BY DEF OnlyIssued
  <2>1. CASE i \in DOMAIN Line(s) /\ Line(s)'[i] = Line(s)[i]
    BY <1>0, <1>5, <2>1 DEF OrderInv, OnlyIssued
  <2>. QED
    BY <1>4, <2>1
<1>7. ASSUME NEW s \in Subs, NEW i \in DOMAIN Line(s)', NEW j \in DOMAIN Line(s)',
             i < j, Line(s)'[i].from = Line(s)'[j].from
      PROVE  Line(s)'[i].id < Line(s)'[j].id
  <2>1. CASE j \in DOMAIN Line(s) /\ Line(s)'[j] = Line(s)[j]
    <3>1. i \in DOMAIN Line(s) /\ Line(s)'[i] = Line(s)[i]
      <4>1. i # Len(Line(s)) + 1
        BY <1>0, <1>5, <1>7, <2>1
      <4>. QED
        BY <1>4, <4>1
    <3>. QED
      BY <1>7, <2>1, <3>1 DEF OrderInv, SenderOrder
  <2>2. CASE /\ Line(s)' = Append(Line(s), m) /\ s \in Range(todo)
             /\ j = Len(Line(s)) + 1 /\ Line(s)'[j] = m
    <3>1. i \in DOMAIN Line(s) /\ Line(s)'[i] = Line(s)[i]
      <4>1. i # Len(Line(s)) + 1
        BY <1>0, <1>7, <2>2
      <4>. QED
        BY <1>4, <4>1
    <3>2. Line(s)[i].from = c
      BY <1>7, <2>2, <3>1
    <3>. QED
      BY <2>2, <3>1, <3>2
  <2>. QED
    BY <1>4, <2>1, <2>2
<1>8. ASSUME NEW s \in Subs, NEW d \in Clients, NEW i \in DOMAIN Line(s)',
             s \in Range(call'[d].todo), Line(s)'[i].from = d
      PROVE  Line(s)'[i].id < call'[d].msg.id
  <2>1. CASE d # c
    <3>1. call'[d] = call[d]
      BY <1>1, <2>1
    <3>2. i \in DOMAIN Line(s) /\ Line(s)'[i] = Line(s)[i]
      BY <1>4, <1>8, <2>1
    <3>. QED
      BY <1>8, <3>1, <3>2 DEF OrderInv, SenderOrder
  <2>2. CASE d = c
    <3>1. call'[c].msg = m /\ s \in Range(todo) /\ Line(s)' = Line(s)
      BY <1>0, <1>1, <1>8, <2>2 DEF Left
    <3>. QED
      BY <1>8, <2>2, <3>1
  <2>. QED
    BY <2>1, <2>2
<1>9. SenderOrder'
  BY <1>7, <1>8 DEF SenderOrder
<1>. QED
  BY <1>2, <1>3, <1>6, <1>9 DEF OrderInv

(* Every step preserves OrderInv. *)
LEMMA StepOrder ==
  ASSUME ConstantsAssumption, TypeInv, TypeInv', DispatcherInv, OrderInv, [Next]_vars
  PROVE  OrderInv'
<1>0. /\ \A s \in Subs : Line(s) \in Seq(Message)
      /\ \A s \in Subs : queue[s] \in Seq(Message) /\ handling[s] \in Message \cup {NoMessage}
      /\ \A t \in Topics : registry[t] \in Seq(Subs)
      /\ \A c \in Clients : call[c].todo \in Seq(Subs) /\ call[c].mode \in Modes
      /\ issued \in Nat
  BY LineType DEF TypeInv, TypeOK, Call
<1>1. ASSUME NEW c \in Clients, NEW t \in Topics, NEW mode \in Modes,
             Route(c, mode, NextMessage(c), registry[t]), UNCHANGED handling,
             issued' = issued + 1
      PROVE  OrderInv'
  <2>1. /\ NextMessage(c) \in Message
        /\ NextMessage(c).from = c /\ NextMessage(c).id = issued + 1
    BY <1>0 DEF NextMessage, Message
  <2>. HIDE DEF NextMessage
  <2>2. \A i, j \in DOMAIN registry[t] : registry[t][i] = registry[t][j] => i = j
    BY DEF DispatcherInv, NoDuplicates
  <2>3. ASSUME NEW s \in Subs, NEW i \in DOMAIN Line(s) PROVE Line(s)[i].id < issued + 1
    <3>1. Line(s)[i].id <= issued /\ Line(s)[i] \in Message
      BY <1>0 DEF OrderInv, OnlyIssued
    <3>2. \A x \in Message : x.id \in Nat
      BY DEF Message
    <3>. QED
      BY <1>0, <3>1, <3>2
  <2>4. NextMessage(c).id <= issued' /\ issued <= issued'
    BY <1>0, <1>1, <2>1
  <2>5. \A s \in Range(registry[t]) : s \in Subs
    BY <1>0 DEF Range
  <2>6. \A s \in Range(registry[t]) : \A i \in DOMAIN Line(s) :
            Line(s)[i].from = c => Line(s)[i].id < NextMessage(c).id
    BY <2>1, <2>3, <2>5
  <2>. QED
    BY <1>0, <1>1, <2>1, <2>2, <2>4, <2>6, RouteOrder
<1>2. ASSUME NEW c \in Clients, Resume(c) PROVE OrderInv'
  <2>1. /\ call[c].pc = "routing" /\ UNCHANGED <<handling, issued>>
        /\ Route(c, call[c].mode, call[c].msg, call[c].todo)
    BY <1>2 DEF Resume
  <2>2. /\ call[c].msg \in Message
        /\ call[c].msg.from = c /\ call[c].msg.id <= issued
    BY <2>1 DEF TypeInv, CallsHoldMessages, OrderInv, OwnMessages
  <2>3. \A i, j \in DOMAIN call[c].todo : call[c].todo[i] = call[c].todo[j] => i = j
    BY DEF OrderInv, TodoOnce
  <2>4. \A s \in Range(call[c].todo) : s \in Subs
    BY <1>0 DEF Range
  <2>5. \A s \in Range(call[c].todo) : \A i \in DOMAIN Line(s) :
            Line(s)[i].from = c => Line(s)[i].id < call[c].msg.id
    BY <2>4 DEF OrderInv, SenderOrder
  <2>6. call[c].msg.id <= issued' /\ issued <= issued'
    BY <1>0, <2>1, <2>2
  <2>. QED
    BY <1>0, <2>1, <2>2, <2>3, <2>5, <2>6, RouteOrder
<1>3. ASSUME NEW s \in Subs, Dispatch(s) PROVE OrderInv'
  <2>1. /\ dispatcher[s] = "waiting" /\ queue[s] # <<>>
        /\ handling' = [handling EXCEPT ![s] = Head(queue[s])]
        /\ queue' = [queue EXCEPT ![s] = Tail(@)]
        /\ UNCHANGED <<call, issued>>
    BY <1>3 DEF Dispatch
  <2>2. handling[s] = NoMessage
    BY <2>1 DEF DispatcherInv, DispatcherIffServed
  <2>3. Head(queue[s]) # NoMessage /\ queue[s] = <<Head(queue[s])>> \o Tail(queue[s])
    <3>1. queue[s] \in Seq(Message) /\ queue[s] # <<>> /\ NoMessage \notin Message
      BY <1>0, <2>1, NoMessageIsNone
    <3>. HIDE DEF NoMessage
    <3>. QED
      BY <3>1, HeadTailProperties
  <2>4. Line(s)' = Line(s)
    <3>1. Line(s) = queue[s]
      BY <2>2, LineElements
    <3>2. handling'[s] = Head(queue[s]) /\ queue'[s] = Tail(queue[s])
      BY <2>1 DEF TypeInv, TypeOK
    <3>3. Line(s)' = <<Head(queue[s])>> \o Tail(queue[s])
      BY <2>3, <3>2 DEF Line
    <3>. QED
      BY <2>3, <3>1, <3>3
  <2>5. \A r \in Subs : r # s => Line(r)' = Line(r)
    BY <2>1 DEF Line, TypeInv, TypeOK
  <2>6. \A r \in Subs : Within(Line(r)', Line(r))
    BY <1>0, <2>4, <2>5, WithinSame
  <2>. QED
    BY <2>1, <2>6, ShrinkOrder
<1>4. ASSUME \A c \in Clients : call'[c] = call[c] \/ call'[c] = Idle, UNCHANGED issued,
             \A s \in Subs : \/ queue'[s] = queue[s] /\ handling'[s] = handling[s]
                             \/ queue'[s] = queue[s] /\ handling'[s] = NoMessage
                             \/ queue'[s] = <<>> /\ handling'[s] = NoMessage
      PROVE  OrderInv'
  <2>1. ASSUME NEW s \in Subs PROVE Within(Line(s)', Line(s))
    <3>1. CASE queue'[s] = queue[s] /\ handling'[s] = handling[s]
      <4>1. Line(s)' = Line(s)
        BY <3>1 DEF Line
      <4>. QED
        BY <1>0, <4>1, WithinSame
    <3>2. CASE queue'[s] = queue[s] /\ handling'[s] = NoMessage
      <4>1. Line(s)' = queue[s]
        BY <1>0, <3>2 DEF Line
      <4>2. Within(queue[s], Line(s))
        BY <1>0, WithinQueue
      <4>. QED
        BY <4>1, <4>2
    <3>3. CASE queue'[s] = <<>> /\ handling'[s] = NoMessage
      <4>1. Line(s)' = <<>>
        BY <3>3 DEF Line
      <4>. QED
        BY <1>0, <4>1, WithinEmpty
    <3>. QED
      BY <1>4, <3>1, <3>2, <3>3
  <2>. QED
    BY <1>4, <2>1, ShrinkOrder
<1>5. ASSUME NEW c \in Clients, Return(c) \/ Timeout(c) PROVE OrderInv'
  <2>1. call' = [call EXCEPT ![c] = Idle] /\ UNCHANGED <<queue, handling, issued>>
    BY <1>5 DEF Return, Timeout
  <2>. QED
    BY <1>4, <2>1 DEF TypeInv, TypeOK
<1>6. ASSUME NEW s \in Subs, NEW outcome \in {"replied", "failed", "none"},
             HandlerEnds(s, outcome)
      PROVE  OrderInv'
  <2>1. handling' = [handling EXCEPT ![s] = NoMessage] /\ UNCHANGED <<queue, call, issued>>
    BY <1>6 DEF HandlerEnds
  <2>. QED
    BY <1>4, <2>1 DEF TypeInv, TypeOK
<1>7. ASSUME NEW s \in Subs, Subscribe(s) PROVE OrderInv'
  <2>1. UNCHANGED <<queue, handling, call, issued>>
    BY <1>7 DEF Subscribe
  <2>. QED
    BY <1>4, <2>1
<1>8. ASSUME NEW s \in Subs, Unsubscribe(s) PROVE OrderInv'
  <2>1. /\ handling' = [handling EXCEPT ![s] = NoMessage] /\ UNCHANGED <<call, issued>>
        /\ queue' = [r \in Subs |-> IF r \in {s} THEN <<>> ELSE queue[r]]
    BY <1>8 DEF Unsubscribe, Drain
  <2>. QED
    BY <1>4, <2>1 DEF TypeInv, TypeOK
<1>9. CASE Start
  <2>1. UNCHANGED <<queue, handling, call, issued>>
    BY <1>9 DEF Start
  <2>. QED
    BY <1>4, <2>1
<1>10. CASE Stop
  <2>1. /\ handling' = [s \in Subs |-> IF Registered(s) THEN NoMessage ELSE handling[s]]
        /\ UNCHANGED <<queue, call, issued>>
    BY <1>10 DEF Stop
  <2>. QED
    BY <1>4, <2>1
<1>11. CASE StopFinish
  <2>1. /\ queue' = [s \in Subs |-> IF s \in stopping THEN <<>> ELSE queue[s]]
        /\ stopping # {} /\ UNCHANGED <<handling, call, issued>>
    BY <1>11 DEF StopFinish, Drain
  <2>2. \A s \in Subs : handling[s] = NoMessage
    BY <2>1 DEF DispatcherInv, StoppingIsStopped, DispatcherIffServed, Live
  <2>. QED
    BY <1>4, <2>1, <2>2
<1>12. CASE UNCHANGED vars
  <2>1. UNCHANGED <<queue, handling, call, issued>>
    BY <1>12 DEF vars
  <2>. QED
    BY <1>4, <2>1
<1>13. ASSUME NEW c \in Clients, ClientStep(c) PROVE OrderInv'
  <2>1. ASSUME NEW t \in Topics, Publish(c, t) PROVE OrderInv'
    <3>1. /\ Route(c, "publish", NextMessage(c), registry[t])
          /\ UNCHANGED handling /\ issued' = issued + 1
      BY <2>1 DEF Publish
    <3>. QED
      BY <1>1, <3>1 DEF Modes
  <2>2. ASSUME NEW t \in Topics, NEW mode \in {"request", "timed"}, Request(c, t, mode)
        PROVE  OrderInv'
    <3>1. /\ Route(c, mode, NextMessage(c), registry[t])
          /\ UNCHANGED handling /\ issued' = issued + 1
      BY <2>2 DEF Request
    <3>. QED
      BY <1>1, <3>1 DEF Modes
  <2>. QED
    BY <1>2, <1>5, <1>13, <2>1, <2>2 DEF ClientStep
<1>14. ASSUME NEW s \in Subs, DispatcherStep(s) \/ Subscribe(s) \/ Unsubscribe(s)
       PROVE  OrderInv'
  BY <1>3, <1>6, <1>7, <1>8, <1>14
  DEF DispatcherStep, HandlerReturnsReply, HandlerReturnsNone, HandlerRaises
<1>. QED
  BY <1>9, <1>10, <1>11, <1>12, <1>13, <1>14 DEF Next

(* The order invariant holds throughout. *)
THEOREM OrderHolds == Spec => []OrderInv
<1>1. Init => OrderInv
  <2>. SUFFICES ASSUME Init PROVE OrderInv
    OBVIOUS
  <2>1. \A s \in Subs : Line(s) = <<>> /\ DOMAIN Line(s) = {}
    BY DEF Init, Line
  <2>2. \A c \in Clients : call[c].pc = "ready" /\ call[c].todo = <<>>
    BY DEF Init, Idle
  <2>. QED
    BY <2>1, <2>2 DEF OrderInv, SenderOrder, OwnMessages, OnlyIssued, TodoOnce
<1>2. TypeInv /\ TypeInv' /\ DispatcherInv /\ OrderInv /\ [Next]_vars => OrderInv'
  BY StepOrder, ConstantsAssumption
<1>. QED
  BY <1>1, <1>2, TypeInvHolds, DispatchersHold, PTL DEF Spec

(* The messages of one sender reach every subscription in the order it     *)
(* published them and none twice, whatever held them back on the way.      *)
THEOREM InSenderOrder == Spec => []SenderOrder
<1>1. OrderInv => SenderOrder
  BY DEF OrderInv
<1>. QED
  BY <1>1, OrderHolds, PTL

-----------------------------------------------------------------------------
(* Backpressure.  What NoLostWakeup lacks to be inductive: a client sleeps *)
(* at most once, on the queue its routing has come to, and the routing     *)
(* clients can be counted, however many clients there are.                 *)
SleepersRoute ==
    \A s \in Subs :
        /\ \A c \in Sleepers(s) : call[c].pc = "routing" /\ Head(call[c].todo) = s
        /\ \A i, j \in DOMAIN putters[s] : putters[s][i] = putters[s][j] => i = j
FiniteRouting == IsFiniteSet({c \in Clients : call[c].pc = "routing"})
WakeInv == NoLostWakeup /\ SleepersRoute /\ FiniteRouting

(* Those woken on a queue can be counted. *)
LEMMA WokenFinite ==
  ASSUME FiniteRouting, NEW s \in Subs
  PROVE  IsFiniteSet(Woken(s)) /\ Cardinality(Woken(s)) \in Nat
<1>1. Woken(s) \subseteq {c \in Clients : call[c].pc = "routing"}
  BY DEF Woken
<1>2. IsFiniteSet(Woken(s))
  BY <1>1, FS_Subset DEF FiniteRouting
<1>. QED
  BY <1>2, FS_CardinalityType

(* A step that leaves the calls alone wakes those, and only those, that it *)
(* takes out of the putters of a queue.                                    *)
LEMMA WokenByRemoval ==
  ASSUME TypeInv, SleepersRoute, NEW s \in Subs, UNCHANGED call,
         Sleepers(s)' \subseteq Sleepers(s)
  PROVE  Woken(s)' = Woken(s) \cup (Sleepers(s) \ Sleepers(s)')
<1>1. \A c \in Sleepers(s) : c \in Clients /\ call[c].pc = "routing" /\ Head(call[c].todo) = s
  <2>1. putters[s] \in Seq(Clients)
    BY DEF TypeInv, TypeOK
  <2>. QED
    BY <2>1 DEF SleepersRoute, Sleepers, Range
<1>. QED
  BY <1>1 DEF Woken

(* A step that leaves queues, putters and calls alone keeps WakeInv. *)
LEMMA SameWakeups ==
  ASSUME WakeInv, UNCHANGED <<queue, putters, call>>
  PROVE  WakeInv'
<1>1. \A s \in Subs : Woken(s)' = Woken(s) /\ Sleepers(s)' = Sleepers(s)
  BY DEF Woken, Sleepers
<1>2. NoLostWakeup'
  BY <1>1 DEF WakeInv, NoLostWakeup
<1>3. SleepersRoute'
  BY <1>1 DEF WakeInv, SleepersRoute
<1>. QED
  BY <1>2, <1>3 DEF WakeInv, FiniteRouting

(* get() wakes the putter that has slept longest. *)
LEMMA DispatchWakes ==
  ASSUME ConstantsAssumption, TypeInv, WakeInv, NEW s \in Subs, Dispatch(s)
  PROVE  WakeInv'
<1>0. /\ queue[s] \in Seq(Message) /\ putters[s] \in Seq(Clients) /\ Cap \in Nat
      /\ queue[s] # <<>>
      /\ UNCHANGED call
      /\ queue'[s] = Tail(queue[s])
      /\ putters'[s] = IF putters[s] = <<>> THEN <<>> ELSE Tail(putters[s])
      /\ \A r \in Subs : r # s => queue'[r] = queue[r] /\ putters'[r] = putters[r]
  BY DEF Dispatch, TypeInv, TypeOK, ConstantsAssumption
<1>1. /\ \A i, j \in DOMAIN putters[s] : putters[s][i] = putters[s][j] => i = j
      /\ \A r \in Subs : \A i, j \in DOMAIN putters[r] : putters[r][i] = putters[r][j] => i = j
  BY DEF WakeInv, SleepersRoute
<1>2. ASSUME putters[s] # <<>>
      PROVE  /\ DOMAIN putters'[s] = 1 .. (Len(putters[s]) - 1)
             /\ \A i \in DOMAIN putters'[s] : putters'[s][i] = putters[s][i + 1]
             /\ DOMAIN putters[s] = 1 .. Len(putters[s]) /\ Len(putters[s]) \in Nat \ {0}
  BY <1>0, <1>2
<1>3. Sleepers(s)' \subseteq Sleepers(s)
  <2>1. CASE putters[s] = <<>>
    BY <1>0, <2>1 DEF Sleepers, Range
  <2>2. CASE putters[s] # <<>>
    <3>1. \A i \in DOMAIN putters'[s] : i + 1 \in DOMAIN putters[s]
      BY <1>2, <2>2
    <3>. QED
      BY <1>2, <2>2, <3>1 DEF Sleepers, Range
  <2>. QED
    BY <2>1, <2>2
<1>4. SleepersRoute'
  <2>1. ASSUME NEW r \in Subs, NEW c \in Sleepers(r)'
        PROVE  call'[c].pc = "routing" /\ Head(call'[c].todo) = r
    <3>1. c \in Sleepers(r)
      BY <1>0, <1>3, <2>1 DEF Sleepers
    <3>. QED
      BY <1>0, <3>1 DEF WakeInv, SleepersRoute
  <2>2. ASSUME NEW r \in Subs, NEW i \in DOMAIN putters'[r], NEW j \in DOMAIN putters'[r],
               putters'[r][i] = putters'[r][j]
        PROVE  i = j
    <3>1. CASE r # s
      BY <1>0, <1>1, <2>2, <3>1
    <3>2. CASE r = s /\ putters[s] = <<>>
      BY <1>0, <2>2, <3>2
    <3>3. CASE r = s /\ putters[s] # <<>>
      <4>1. /\ i \in 1 .. (Len(putters[s]) - 1) /\ j \in 1 .. (Len(putters[s]) - 1)
            /\ putters[s][i + 1] = putters[s][j + 1]
        BY <1>2, <2>2, <3>3
      <4>2. i + 1 \in DOMAIN putters[s] /\ j + 1 \in DOMAIN putters[s]
        BY <1>2, <3>3, <4>1
      <4>3. i + 1 = j + 1
        BY <1>1, <4>1, <4>2
      <4>. QED
        BY <4>1, <4>3
    <3>. QED
      BY <3>1, <3>2, <3>3
  <2>. QED
    BY <2>1, <2>2 DEF SleepersRoute
<1>5. FiniteRouting /\ FiniteRouting'
  BY <1>0 DEF WakeInv, FiniteRouting
<1>6. ASSUME putters'[s] # <<>> PROVE Cap - Len(queue'[s]) <= Cardinality(Woken(s)')
  <2>1. putters[s] # <<>>
    BY <1>0, <1>6
  <2>. DEFINE first == putters[s][1]
  <2>2. 1 \in DOMAIN putters[s] /\ first \in Sleepers(s)
    BY <1>2, <2>1 DEF Sleepers, Range
  <2>3. first \notin Sleepers(s)'
    <3>. SUFFICES ASSUME NEW i \in DOMAIN putters'[s], putters'[s][i] = first PROVE FALSE
      BY DEF Sleepers, Range
    <3>1. i + 1 \in DOMAIN putters[s] /\ putters[s][i + 1] = putters[s][1] /\ i + 1 # 1
      BY <1>2, <2>1
    <3>. QED
      BY <1>1, <2>2, <3>1
  <2>4. first \in Woken(s)' /\ Woken(s) \subseteq Woken(s)' /\ first \notin Woken(s)
    <3>1. Woken(s)' = Woken(s) \cup (Sleepers(s) \ Sleepers(s)')
      BY <1>0, <1>3, WokenByRemoval DEF WakeInv
    <3>2. first \notin Woken(s)
      BY <2>2 DEF Woken
    <3>. QED
      BY <2>2, <2>3, <3>1, <3>2
  <2>. HIDE DEF first
  <2>5. /\ IsFiniteSet(Woken(s)) /\ Cardinality(Woken(s)) \in Nat
        /\ IsFiniteSet(Woken(s)') /\ Cardinality(Woken(s)') \in Nat
    <3>1. IsFiniteSet(Woken(s)) /\ Cardinality(Woken(s)) \in Nat
      BY <1>5, WokenFinite
    <3>2. Woken(s)' \subseteq {c \in Clients : call[c].pc = "routing"}
      BY <1>0 DEF Woken
    <3>3. IsFiniteSet(Woken(s)')
      BY <1>5, <3>2, FS_Subset DEF FiniteRouting
    <3>. QED
      BY <3>1, <3>3, FS_CardinalityType
  <2>6. Cardinality(Woken(s) \cup {first}) = Cardinality(Woken(s)) + 1
    BY <2>4, <2>5, FS_AddElement
  <2>7. Cardinality(Woken(s) \cup {first}) <= Cardinality(Woken(s)')
    <3>1. Woken(s) \cup {first} \in SUBSET (Woken(s)')
      BY <2>4
    <3>. QED
      BY <2>5, <3>1, FS_Subset
  <2>8. Cap - Len(queue[s]) <= Cardinality(Woken(s))
    BY <2>1 DEF WakeInv, NoLostWakeup
  <2>9. Len(queue'[s]) = Len(queue[s]) - 1 /\ Len(queue[s]) \in Nat
    BY <1>0
  <2>. QED
    BY <1>0, <2>5, <2>6, <2>7, <2>8, <2>9
<1>7. ASSUME NEW r \in Subs, r # s, putters'[r] # <<>>
      PROVE  Cap - Len(queue'[r]) <= Cardinality(Woken(r)')
  <2>1. Woken(r)' = Woken(r)
    BY <1>0, <1>7 DEF Woken, Sleepers
  <2>. QED
    BY <1>0, <1>7, <2>1 DEF WakeInv, NoLostWakeup
<1>8. NoLostWakeup'
  BY <1>6, <1>7 DEF NoLostWakeup
<1>. QED
  BY <1>4, <1>5, <1>8 DEF WakeInv

(* A sequence without repetitions has as many elements as entries. *)
LEMMA DistinctEntries ==
  ASSUME NEW S, NEW q \in Seq(S), NEW n \in 0 .. Len(q), NEW W,
         \A i, j \in DOMAIN q : q[i] = q[j] => i = j,
         \A i \in 1 .. n : q[i] \in W,
         \A x \in W : \E i \in 1 .. n : q[i] = x
  PROVE  IsFiniteSet(W) /\ Cardinality(W) = n
<1>. DEFINE g == [i \in 1 .. n |-> q[i]]
<1>1. n \in Nat /\ \A i \in 1 .. n : i \in DOMAIN q
  OBVIOUS
<1>2. g \in [1 .. n -> W] /\ \A i \in 1 .. n : g[i] = q[i]
  OBVIOUS
<1>. HIDE DEF g
<1>3. \A i, j \in 1 .. n : g[i] = g[j] => i = j
  BY <1>1, <1>2
<1>4. \A x \in W : \E i \in 1 .. n : g[i] = x
  BY <1>2
<1>5. ExistsBijection(1 .. n, W)
  BY <1>2, <1>3, <1>4 DEF ExistsBijection, Bijection, Injection, Surjection, IsInjective
<1>6. IsFiniteSet(1 .. n) /\ Cardinality(1 .. n) = n
  BY <1>1, FS_Interval
<1>. QED
  BY <1>5, <1>6, FS_Bijection

(* _drain wakes a putter for every message it takes. *)
LEMMA DrainWakes ==
  ASSUME ConstantsAssumption, TypeInv, WakeInv, NEW S, Drain(S), UNCHANGED call
  PROVE  WakeInv'
<1>0. /\ \A s \in Subs : queue[s] \in Seq(Message) /\ putters[s] \in Seq(Clients)
      /\ Cap \in Nat
      /\ \A s \in Subs :
            \/ queue'[s] = queue[s] /\ putters'[s] = putters[s]
            \/ /\ queue'[s] = <<>>
               /\ putters'[s] = SubSeq(putters[s], Len(queue[s]) + 1, Len(putters[s]))
  BY DEF Drain, TypeInv, TypeOK, ConstantsAssumption
<1>1. ASSUME NEW s \in Subs,
             putters'[s] = SubSeq(putters[s], Len(queue[s]) + 1, Len(putters[s]))
      PROVE  \A i \in DOMAIN putters'[s] :
                /\ Len(queue[s]) + i \in DOMAIN putters[s]
                /\ putters'[s][i] = putters[s][Len(queue[s]) + i]
                /\ i \in Nat \ {0}
  <2>. DEFINE n == Len(queue[s])
              p == putters[s]
              q == putters'[s]
  <2>1. n \in Nat /\ p \in Seq(Clients) /\ q = SubSeq(p, n + 1, Len(p))
    BY <1>0, <1>1
  <2>. HIDE DEF n, p, q
  <2>2. \A i \in DOMAIN q : n + i \in DOMAIN p /\ q[i] = p[n + i] /\ i \in Nat \ {0}
    BY <2>1
  <2>. QED
    BY <2>2 DEF n, p, q
<1>2. ASSUME NEW s \in Subs PROVE Sleepers(s)' \subseteq Sleepers(s)
  <2>. SUFFICES ASSUME NEW i \in DOMAIN putters'[s]
                PROVE  putters'[s][i] \in Range(putters[s])
    BY DEF Sleepers, Range
  <2>1. CASE putters'[s] = putters[s]
    BY <2>1 DEF Range
  <2>2. CASE putters'[s] = SubSeq(putters[s], Len(queue[s]) + 1, Len(putters[s]))
    <3>1. /\ Len(queue[s]) + i \in DOMAIN putters[s]
          /\ putters'[s][i] = putters[s][Len(queue[s]) + i]
      BY <1>1, <2>2
    <3>. QED
      BY <3>1 DEF Range
  <2>. QED
    BY <1>0, <2>1, <2>2
<1>3. \A s \in Subs : \A i, j \in DOMAIN putters[s] : putters[s][i] = putters[s][j] => i = j
  BY DEF WakeInv, SleepersRoute
<1>4. SleepersRoute'
  <2>1. ASSUME NEW r \in Subs, NEW c \in Sleepers(r)'
        PROVE  call'[c].pc = "routing" /\ Head(call'[c].todo) = r
    <3>1. c \in Sleepers(r)
      BY <1>2, <2>1
    <3>. QED
      BY <3>1 DEF WakeInv, SleepersRoute
  <2>2. ASSUME NEW s \in Subs, NEW i \in DOMAIN putters'[s], NEW j \in DOMAIN putters'[s],
               putters'[s][i] = putters'[s][j]
        PROVE  i = j
    <3>1. CASE putters'[s] = putters[s]
      BY <1>3, <2>2, <3>1
    <3>2. CASE putters'[s] = SubSeq(putters[s], Len(queue[s]) + 1, Len(putters[s]))
      <4>0. /\ Len(queue[s]) + i \in DOMAIN putters[s] /\ i \in Nat
            /\ putters'[s][i] = putters[s][Len(queue[s]) + i]
            /\ Len(queue[s]) + j \in DOMAIN putters[s] /\ j \in Nat
            /\ putters'[s][j] = putters[s][Len(queue[s]) + j]
        BY <1>1, <2>2, <3>2
      <4>1. Len(queue[s]) + i = Len(queue[s]) + j
        BY <4>0, <1>3, <2>2
      <4>2. i \in Nat /\ j \in Nat /\ Len(queue[s]) \in Nat
        BY <1>0, <4>0
      <4>. QED
        BY <4>1, <4>2
    <3>. QED
      BY <1>0, <3>1, <3>2
  <2>. QED
    BY <2>1, <2>2 DEF SleepersRoute
<1>5. FiniteRouting /\ FiniteRouting'
  BY DEF WakeInv, FiniteRouting
<1>6. ASSUME NEW s \in Subs, putters'[s] # <<>>, queue'[s] = <<>>,
             putters'[s] = SubSeq(putters[s], Len(queue[s]) + 1, Len(putters[s]))
      PROVE  Cap - Len(queue'[s]) <= Cardinality(Woken(s)')
  <2>. DEFINE n == Len(queue[s])
              W == {putters[s][i] : i \in 1 .. n}
  <2>1. n \in Nat /\ n \in 0 .. Len(putters[s]) /\ putters[s] # <<>> /\ Len(putters[s]) > n
    <3>. DEFINE p == putters[s]
                q == putters'[s]
    <3>0. n \in Nat /\ p \in Seq(Clients)
      BY <1>0
    <3>1. n \in Nat /\ p \in Seq(Clients) /\ q = SubSeq(p, n + 1, Len(p)) /\ q # <<>>
      BY <3>0, <1>6, Zenon
    <3>. HIDE DEF n, p, q
    <3>2. n \in 0 .. Len(p) /\ p # <<>> /\ Len(p) > n
      BY <3>1
    <3>. QED
      BY <3>1, <3>2 DEF p
  <2>2. IsFiniteSet(W) /\ Cardinality(W) = n
    <3>1. putters[s] \in Seq(Clients) /\ n \in 0 .. Len(putters[s])
      BY <1>0, <2>1
    <3>2. \A i, j \in DOMAIN putters[s] : putters[s][i] = putters[s][j] => i = j
      BY <1>3
    <3>3. /\ \A i \in 1 .. n : putters[s][i] \in W
          /\ \A x \in W : \E i \in 1 .. n : putters[s][i] = x
      OBVIOUS
    <3>. HIDE DEF n, W
    <3>. QED
      BY <3>1, <3>2, <3>3, DistinctEntries
  <2>3. ASSUME NEW i \in 1 .. n
        PROVE  putters[s][i] \in Sleepers(s) /\ putters[s][i] \notin Sleepers(s)'
    <3>1. i \in DOMAIN putters[s] /\ i \in Nat
      BY <1>0, <2>1
    <3>2. putters[s][i] \in Sleepers(s)
      BY <3>1 DEF Sleepers, Range
    <3>3. ASSUME NEW j \in DOMAIN putters'[s], putters'[s][j] = putters[s][i] PROVE FALSE
      <4>1. n + j \in DOMAIN putters[s] /\ putters[s][n + j] = putters[s][i] /\ j \in Nat \ {0}
        BY <1>1, <1>6, <3>3
      <4>2. n + j = i
        BY <1>3, <3>1, <4>1
      <4>. QED
        BY <2>1, <4>1, <4>2
    <3>. QED
      BY <3>2, <3>3 DEF Sleepers, Range
  <2>4. W \subseteq Woken(s)' /\ Woken(s) \subseteq Woken(s)' /\ Woken(s) \cap W = {}
    <3>1. Woken(s)' = Woken(s) \cup (Sleepers(s) \ Sleepers(s)')
      BY <1>2, WokenByRemoval DEF WakeInv
    <3>2. \A c \in Woken(s) : c \notin Sleepers(s)
      BY DEF Woken
    <3>. QED
      BY <2>3, <3>1, <3>2
  <2>. HIDE DEF W, n
  <2>5. /\ IsFiniteSet(Woken(s)) /\ Cardinality(Woken(s)) \in Nat
        /\ IsFiniteSet(Woken(s)') /\ Cardinality(Woken(s)') \in Nat
    <3>1. IsFiniteSet(Woken(s)) /\ Cardinality(Woken(s)) \in Nat
      BY <1>5, WokenFinite
    <3>2. Woken(s)' \subseteq {c \in Clients : call[c].pc = "routing"}
      BY DEF Woken
    <3>3. IsFiniteSet(Woken(s)')
      BY <1>5, <3>2, FS_Subset DEF FiniteRouting
    <3>. QED
      BY <3>1, <3>3, FS_CardinalityType
  <2>6. Cardinality(Woken(s) \cup W) = Cardinality(Woken(s)) + n
    <3>1. Cardinality(Woken(s) \cup W)
            = Cardinality(Woken(s)) + Cardinality(W) - Cardinality(Woken(s) \cap W)
      BY <2>2, <2>5, FS_Union
    <3>2. Cardinality(Woken(s) \cap W) = 0
      BY <2>4, FS_EmptySet
    <3>. QED
      BY <2>1, <2>2, <2>5, <3>1, <3>2
  <2>7. Cardinality(Woken(s) \cup W) <= Cardinality(Woken(s)')
    <3>1. Woken(s) \cup W \in SUBSET (Woken(s)')
      BY <2>4
    <3>. QED
      BY <2>5, <3>1, FS_Subset
  <2>8. Cap - n <= Cardinality(Woken(s))
    BY <2>1 DEF WakeInv, NoLostWakeup, n
  <2>9. Len(queue'[s]) = 0
    BY <1>6
  <2>. QED
    BY <1>0, <2>1, <2>5, <2>6, <2>7, <2>8, <2>9
<1>7. ASSUME NEW r \in Subs, queue'[r] = queue[r], putters'[r] = putters[r], putters'[r] # <<>>
      PROVE  Cap - Len(queue'[r]) <= Cardinality(Woken(r)')
  <2>1. Woken(r)' = Woken(r)
    BY <1>7 DEF Woken, Sleepers
  <2>. QED
    BY <1>7, <2>1 DEF WakeInv, NoLostWakeup
<1>8. NoLostWakeup'
  BY <1>0, <1>6, <1>7 DEF NoLostWakeup
<1>. QED
  BY <1>4, <1>5, <1>8 DEF WakeInv

(* Where routing leaves the queues and the sleepers: the client goes to    *)
(* sleep on a full queue, or on none; if it has not come to rest on the    *)
(* first queue of its list, that queue holds one message more.             *)
LEMMA RoutePutters ==
  ASSUME TypeInv, Cap \in Nat, NEW c \in Clients, NEW mode \in Modes, NEW m \in Message,
         NEW todo \in Seq(Subs), Route(c, mode, m, todo)
  PROVE  /\ \A d \in Clients : d # c => call'[d] = call[d]
         /\ \A s \in Subs : /\ Len(queue[s]) \in Nat /\ Len(queue'[s]) \in Nat
                            /\ Len(queue'[s]) >= Len(queue[s])
         /\ \A s \in Subs :
               \/ /\ putters'[s] = putters[s]
                  /\ ~(call'[c].pc = "routing" /\ Head(call'[c].todo) = s)
                  /\ todo # <<>> /\ s = Head(todo) => Len(queue'[s]) = Len(queue[s]) + 1
               \/ /\ putters'[s] = Append(putters[s], c)
                  /\ call'[c].pc = "routing" /\ Head(call'[c].todo) = s
                  /\ Len(queue[s]) >= Cap
<1>1. PICK k \in 0 .. Len(todo) :
        /\ queue' = [s \in Subs |-> IF s \in {todo[i] : i \in 1 .. k}
                                    THEN Append(queue[s], m) ELSE queue[s]]
        /\ \/ /\ k = Len(todo)
              /\ putters' = putters
              /\ call' = [call EXCEPT ![c] =
                            IF mode = "publish" THEN Idle
                            ELSE [pc |-> "waiting", mode |-> mode, msg |-> m, todo |-> <<>>]]
           \/ /\ k < Len(todo)
              /\ ~HasRoom(todo[k + 1])
              /\ putters' = [putters EXCEPT ![todo[k + 1]] = Append(@, c)]
              /\ call' = [call EXCEPT ![c] =
                            [pc |-> "routing", mode |-> mode, msg |-> m,
                             todo |-> SubSeq(todo, k + 1, Len(todo))]]
  BY DEF Route
<1>. DEFINE reached == {todo[i] : i \in 1 .. k}
            rest    == SubSeq(todo, k + 1, Len(todo))
<1>2. /\ call \in [Clients -> Call] /\ queue \in [Subs -> Seq(Message)]
      /\ putters \in [Subs -> Seq(Clients)]
  BY DEF TypeInv, TypeOK
<1>3. ASSUME NEW s \in Subs
      PROVE  /\ Len(queue[s]) \in Nat /\ Len(queue'[s]) \in Nat
             /\ Len(queue'[s]) >= Len(queue[s])
             /\ s \in reached => Len(queue'[s]) = Len(queue[s]) + 1
  <2>1. queue[s] \in Seq(Message)
    BY <1>2
  <2>2. CASE s \in reached
    <3>1. queue'[s] = Append(queue[s], m)
      BY <1>1, <2>2
    <3>. QED
      BY <2>1, <3>1
  <2>3. CASE s \notin reached
    <3>1. queue'[s] = queue[s]
      BY <1>1, <2>3
    <3>. QED
      BY <2>1, <2>3, <3>1
  <2>. QED
    BY <2>2, <2>3
<1>4. todo # <<>> /\ k # 0 => Head(todo) \in reached
  <2>. SUFFICES ASSUME todo # <<>>, k # 0 PROVE Head(todo) \in reached
    OBVIOUS
  <2>1. Head(todo) = todo[1] /\ 1 \in 1 .. k
    OBVIOUS
  <2>. QED
    BY <2>1
<1>5. \A d \in Clients : d # c => call'[d] = call[d]
  BY <1>1, <1>2
<1>6. CASE /\ k = Len(todo) /\ putters' = putters
           /\ call' = [call EXCEPT ![c] =
                         IF mode = "publish" THEN Idle
                         ELSE [pc |-> "waiting", mode |-> mode, msg |-> m, todo |-> <<>>]]
  <2>1. call'[c].pc # "routing"
    BY <1>2, <1>6 DEF Idle
  <2>2. todo # <<>> => k # 0
    BY <1>6
  <2>. HIDE DEF reached
  <2>. QED
    BY <1>3, <1>4, <1>5, <1>6, <2>1, <2>2
<1>7. CASE /\ k < Len(todo) /\ ~HasRoom(todo[k + 1])
           /\ putters' = [putters EXCEPT ![todo[k + 1]] = Append(@, c)]
           /\ call' = [call EXCEPT ![c] =
                            [pc |-> "routing", mode |-> mode, msg |-> m, todo |-> rest]]
  <2>. DEFINE new == todo[k + 1]
  <2>1. new \in Subs /\ Head(rest) = new /\ (todo # <<>> /\ k = 0 => Head(todo) = new)
    BY <1>7
  <2>2. call'[c] = [pc |-> "routing", mode |-> mode, msg |-> m, todo |-> rest]
    BY <1>2, <1>7
  <2>. HIDE DEF rest
  <2>3. call'[c].pc = "routing" /\ call'[c].todo = rest
    BY <2>2
  <2>4. /\ putters'[new] = Append(putters[new], c)
        /\ \A s \in Subs : s # new => putters'[s] = putters[s]
    BY <1>2, <1>7, <2>1
  <2>5. Len(queue[new]) >= Cap
    BY <1>3, <1>7, <2>1 DEF HasRoom
  <2>. HIDE DEF new, reached
  <2>. QED
    BY <1>3, <1>4, <1>5, <2>1, <2>3, <2>4, <2>5
<1>. QED
  BY <1>1, <1>6, <1>7

(* Routing loses no wakeup: a client that takes a slot of the queue it     *)
(* slept on is one woken client less, and any other slot it takes counts   *)
(* in favour of the sleepers.                                              *)
LEMMA RouteWakes ==
  ASSUME ConstantsAssumption, TypeInv, WakeInv, NEW c \in Clients, NEW mode \in Modes,
         NEW m \in Message, NEW todo \in Seq(Subs), Route(c, mode, m, todo),
         \/ call[c].pc = "ready"
         \/ /\ call[c].pc = "routing" /\ ~Asleep(c)
            /\ todo = call[c].todo /\ todo # <<>>
  PROVE  WakeInv'
<1>0. Cap \in Nat /\ \A s \in Subs : putters[s] \in Seq(Clients)
  BY DEF ConstantsAssumption, TypeInv, TypeOK
<1>1. /\ \A d \in Clients : d # c => call'[d] = call[d]
      /\ \A s \in Subs : /\ Len(queue[s]) \in Nat /\ Len(queue'[s]) \in Nat
                         /\ Len(queue'[s]) >= Len(queue[s])
      /\ \A s \in Subs :
            \/ /\ putters'[s] = putters[s]
               /\ ~(call'[c].pc = "routing" /\ Head(call'[c].todo) = s)
               /\ todo # <<>> /\ s = Head(todo) => Len(queue'[s]) = Len(queue[s]) + 1
            \/ /\ putters'[s] = Append(putters[s], c)
               /\ call'[c].pc = "routing" /\ Head(call'[c].todo) = s
               /\ Len(queue[s]) >= Cap
  BY <1>0, RoutePutters
<1>2. \A s \in Subs : c \notin Sleepers(s)
  BY DEF WakeInv, SleepersRoute, Sleepers, Asleep
<1>3. ASSUME NEW s \in Subs, NEW d \in Sleepers(s)'
      PROVE  \/ d \in Sleepers(s) /\ d # c
             \/ d = c /\ putters'[s] = Append(putters[s], c)
  <2>1. CASE putters'[s] = putters[s]
    BY <1>2, <2>1 DEF Sleepers
  <2>2. CASE putters'[s] = Append(putters[s], c)
    <3>1. PICK i \in DOMAIN putters'[s] : putters'[s][i] = d
      BY DEF Sleepers, Range
    <3>2. CASE i \in DOMAIN putters[s]
      <4>1. d = putters[s][i]
        BY <1>0, <2>2, <3>1, <3>2
      <4>2. d \in Sleepers(s)
        BY <3>2, <4>1 DEF Sleepers, Range
      <4>. QED
        BY <1>2, <4>2
    <3>3. CASE i \notin DOMAIN putters[s]
      BY <1>0, <2>2, <3>1, <3>3
    <3>. QED
      BY <3>2, <3>3
  <2>. QED
    BY <1>1, <2>1, <2>2
<1>4. SleepersRoute'
  <2>1. ASSUME NEW s \in Subs, NEW d \in Sleepers(s)'
        PROVE  call'[d].pc = "routing" /\ Head(call'[d].todo) = s
    <3>1. CASE d \in Sleepers(s) /\ d # c
      <4>1. d \in Clients
        BY <1>0, <3>1 DEF Sleepers, Range
      <4>2. call[d].pc = "routing" /\ Head(call[d].todo) = s
        BY <3>1 DEF WakeInv, SleepersRoute
      <4>. QED
        BY <1>1, <3>1, <4>1, <4>2
    <3>2. CASE d = c /\ putters'[s] = Append(putters[s], c)
      <4>1. putters'[s] # putters[s]
        BY <1>0, <3>2
      <4>. QED
        BY <1>1, <3>2, <4>1
    <3>. QED
      BY <1>3, <2>1, <3>1, <3>2
  <2>2. ASSUME NEW s \in Subs, NEW i \in DOMAIN putters'[s], NEW j \in DOMAIN putters'[s],
               putters'[s][i] = putters'[s][j]
        PROVE  i = j
    <3>0. \A a, b \in DOMAIN putters[s] : putters[s][a] = putters[s][b] => a = b
      BY DEF WakeInv, SleepersRoute
    <3>1. CASE putters'[s] = putters[s]
      BY <2>2, <3>0, <3>1
    <3>2. CASE putters'[s] = Append(putters[s], c)
      <4>. DEFINE n == Len(putters[s])
      <4>1. /\ n \in Nat /\ DOMAIN putters[s] = 1 .. n /\ DOMAIN putters'[s] = 1 .. (n + 1)
            /\ putters'[s][n + 1] = c /\ \A a \in 1 .. n : putters'[s][a] = putters[s][a]
        BY <1>0, <3>2
      <4>2. \A a \in 1 .. n : putters[s][a] # c
        BY <1>2, <4>1 DEF Sleepers, Range
      <4>. HIDE DEF n
      <4>3. (i = n + 1 \/ i \in 1 .. n) /\ (j = n + 1 \/ j \in 1 .. n)
        BY <4>1
      <4>. QED
        BY <2>2, <3>0, <4>1, <4>2, <4>3
    <3>. QED
      BY <1>1, <3>1, <3>2
  <2>. QED
    BY <2>1, <2>2 DEF SleepersRoute
<1>5. FiniteRouting'
  <2>1. IsFiniteSet({d \in Clients : call[d].pc = "routing"} \cup {c})
    BY FS_AddElement DEF WakeInv, FiniteRouting
  <2>2. {d \in Clients : call'[d].pc = "routing"}
          \in SUBSET ({d \in Clients : call[d].pc = "routing"} \cup {c})
    BY <1>1
  <2>. QED
    BY <2>1, <2>2, FS_Subset DEF FiniteRouting
<1>6. ASSUME NEW s \in Subs
      PROVE  /\ IsFiniteSet(Woken(s)) /\ Cardinality(Woken(s)) \in Nat
             /\ IsFiniteSet(Woken(s)') /\ Cardinality(Woken(s)') \in Nat
  <2>1. IsFiniteSet(Woken(s)) /\ Cardinality(Woken(s)) \in Nat
    BY WokenFinite DEF WakeInv
  <2>2. Woken(s)' \in SUBSET {d \in Clients : call'[d].pc = "routing"}
    BY DEF Woken
  <2>3. IsFiniteSet(Woken(s)')
    BY <1>5, <2>2, FS_Subset DEF FiniteRouting
  <2>. QED
    BY <2>1, <2>3, FS_CardinalityType
<1>7. ASSUME NEW s \in Subs, putters'[s] = putters[s], putters[s] # <<>>,
             ~(call'[c].pc = "routing" /\ Head(call'[c].todo) = s),
             todo # <<>> /\ s = Head(todo) => Len(queue'[s]) = Len(queue[s]) + 1
      PROVE  Cap - Len(queue'[s]) <= Cardinality(Woken(s)')
  <2>1. Woken(s)' = Woken(s) \ {c}
    <3>1. Sleepers(s)' = Sleepers(s)
      BY <1>7 DEF Sleepers
    <3>2. c \notin Woken(s)'
      BY <1>7 DEF Woken
    <3>3. ASSUME NEW d \in Clients, d # c PROVE d \in Woken(s)' <=> d \in Woken(s)
      BY <1>1, <3>1, <3>3 DEF Woken
    <3>4. Woken(s) \subseteq Clients /\ Woken(s)' \subseteq Clients
      BY DEF Woken
    <3>. QED
      BY <3>2, <3>3, <3>4
  <2>2. Cap - Len(queue[s]) <= Cardinality(Woken(s))
    BY <1>7 DEF WakeInv, NoLostWakeup
  <2>3. CASE c \in Woken(s)
    <3>1. todo # <<>> /\ s = Head(todo)
      BY <2>3 DEF Woken
    <3>2. Len(queue'[s]) = Len(queue[s]) + 1
      BY <1>7, <3>1
    <3>3. Cardinality(Woken(s) \ {c}) = Cardinality(Woken(s)) - 1
      BY <1>6, <2>3, FS_RemoveElement
    <3>. QED
      BY <1>0, <1>1, <1>6, <2>1, <2>2, <3>2, <3>3
  <2>4. CASE c \notin Woken(s)
    <3>1. Woken(s)' = Woken(s)
      BY <2>1, <2>4
    <3>. QED
      BY <1>0, <1>1, <1>6, <2>2, <3>1
  <2>. QED
    BY <2>3, <2>4
<1>8. ASSUME NEW s \in Subs, Len(queue[s]) >= Cap
      PROVE  Cap - Len(queue'[s]) <= Cardinality(Woken(s)')
  BY <1>0, <1>1, <1>6, <1>8
<1>9. NoLostWakeup'
  <2>. SUFFICES ASSUME NEW s \in Subs, putters'[s] # <<>>
                PROVE  Cap - Len(queue'[s]) <= Cardinality(Woken(s)')
    BY DEF NoLostWakeup
  <2>. QED
    BY <1>1, <1>7, <1>8
<1>. QED
  BY <1>4, <1>5, <1>9 DEF WakeInv

(* Every step preserves WakeInv. *)
LEMMA StepWakes ==
  ASSUME ConstantsAssumption, TypeInv, OrderInv, WakeInv, [Next]_vars
  PROVE  WakeInv'
<1>0. /\ \A t \in Topics : registry[t] \in Seq(Subs)
      /\ \A c \in Clients : call[c].todo \in Seq(Subs) /\ call[c].mode \in Modes
      /\ \A c \in Clients : NextMessage(c) \in Message
      /\ {"publish", "request", "timed"} = Modes
  BY DEF TypeInv, TypeOK, Call, NextMessage, Message, Modes
<1>1. ASSUME NEW c \in Clients, NEW t \in Topics, Publish(c, t) PROVE WakeInv'
  <2>1. call[c].pc = "ready" /\ Route(c, "publish", NextMessage(c), registry[t])
    BY <1>1 DEF Publish
  <2>. QED
    BY <1>0, <2>1, RouteWakes
<1>2. ASSUME NEW c \in Clients, NEW t \in Topics, NEW mode \in {"request", "timed"},
             Request(c, t, mode)
      PROVE  WakeInv'
  <2>1. call[c].pc = "ready" /\ Route(c, mode, NextMessage(c), registry[t])
    BY <1>2 DEF Request
  <2>2. mode \in Modes
    BY <1>0
  <2>. QED
    BY <1>0, <2>1, <2>2, RouteWakes
<1>3. ASSUME NEW c \in Clients, Resume(c) PROVE WakeInv'
  <2>1. /\ call[c].pc = "routing" /\ ~Asleep(c)
        /\ Route(c, call[c].mode, call[c].msg, call[c].todo)
    BY <1>3 DEF Resume
  <2>2. call[c].msg \in Message /\ call[c].todo # <<>>
    BY <2>1 DEF TypeInv, CallsHoldMessages, OrderInv, TodoOnce
  <2>. QED
    BY <1>0, <2>1, <2>2, RouteWakes
<1>4. ASSUME NEW c \in Clients, Return(c) \/ Timeout(c) PROVE WakeInv'
  <2>1. /\ call[c].pc = "waiting" /\ call' = [call EXCEPT ![c] = Idle]
        /\ UNCHANGED <<queue, putters>>
    BY <1>4 DEF Return, Timeout
  <2>2. /\ call'[c].pc = "ready" /\ \A d \in Clients : d # c => call'[d] = call[d]
    BY <2>1 DEF TypeInv, TypeOK, Idle
  <2>3. ASSUME NEW s \in Subs PROVE Sleepers(s)' = Sleepers(s) /\ Woken(s)' = Woken(s)
    <3>1. Sleepers(s)' = Sleepers(s)
      BY <2>1 DEF Sleepers
    <3>2. ASSUME NEW d \in Clients PROVE d \in Woken(s)' <=> d \in Woken(s)
      BY <2>1, <2>2, <3>1 DEF Woken
    <3>3. Woken(s) \subseteq Clients /\ Woken(s)' \subseteq Clients
      BY DEF Woken
    <3>. QED
      BY <3>1, <3>2, <3>3
  <2>4. NoLostWakeup'
    BY <2>1, <2>3 DEF WakeInv, NoLostWakeup
  <2>5. SleepersRoute'
    <3>1. ASSUME NEW s \in Subs, NEW d \in Sleepers(s)'
          PROVE  call'[d].pc = "routing" /\ Head(call'[d].todo) = s
      <4>1. call[d].pc = "routing" /\ Head(call[d].todo) = s
        BY <2>3, <3>1 DEF WakeInv, SleepersRoute
      <4>2. d \in Clients /\ d # c
        <5>1. putters[s] \in Seq(Clients)
          BY DEF TypeInv, TypeOK
        <5>. QED
          BY <2>1, <2>3, <3>1, <4>1, <5>1 DEF Sleepers, Range
      <4>. QED
        BY <2>2, <4>1, <4>2
    <3>. QED
      BY <2>1, <3>1 DEF WakeInv, SleepersRoute
  <2>6. FiniteRouting'
    <3>1. {d \in Clients : call'[d].pc = "routing"} \in SUBSET {d \in Clients : call[d].pc = "routing"}
      BY <2>2
    <3>. QED
      BY <3>1, FS_Subset DEF WakeInv, FiniteRouting
  <2>. QED
    BY <2>4, <2>5, <2>6 DEF WakeInv
<1>5. ASSUME NEW s \in Subs, Unsubscribe(s) PROVE WakeInv'
  BY <1>5, DrainWakes DEF Unsubscribe
<1>6. CASE StopFinish
  BY <1>6, DrainWakes DEF StopFinish
<1>7. ASSUME NEW s \in Subs, Dispatch(s) PROVE WakeInv'
  BY <1>7, DispatchWakes
<1>8. CASE UNCHANGED <<queue, putters, call>>
  BY <1>8, SameWakeups
<1>. QED
  BY <1>1, <1>2, <1>3, <1>4, <1>5, <1>6, <1>7, <1>8
  DEF Next, ClientStep, DispatcherStep, HandlerReturnsReply, HandlerReturnsNone,
      HandlerRaises, HandlerEnds, Subscribe, Start, Stop, vars

(* No lost wakeup in backpressure: while a publisher sleeps on a queue,    *)
(* each free slot of that queue is one a woken publisher is about to see.  *)
THEOREM WakeupsKept == Spec => []NoLostWakeup
<1>1. Init => WakeInv
  <2>. SUFFICES ASSUME Init PROVE WakeInv
    OBVIOUS
  <2>1. \A s \in Subs : putters[s] = <<>> /\ DOMAIN putters[s] = {} /\ Sleepers(s) = {}
    BY DEF Init, Sleepers, Range
  <2>2. {c \in Clients : call[c].pc = "routing"} = {}
    BY DEF Init, Idle
  <2>. QED
    BY <2>1, <2>2, FS_EmptySet DEF WakeInv, NoLostWakeup, SleepersRoute, FiniteRouting
<1>2. TypeInv /\ OrderInv /\ WakeInv /\ [Next]_vars => WakeInv'
  BY StepWakes, ConstantsAssumption
<1>3. WakeInv => NoLostWakeup
  BY DEF WakeInv
<1>. QED
  BY <1>1, <1>2, <1>3, TypeInvHolds, OrderHolds, PTL DEF Spec

=============================================================================
