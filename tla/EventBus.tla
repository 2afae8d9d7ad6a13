------------------------------ MODULE EventBus ------------------------------
(***************************************************************************)
(* The in-process event bus, AsyncQueueEventBus: one bounded asyncio.Queue *)
(* and one dispatcher task per subscription, publishers that route a       *)
(* message to a snapshot of a topic's subscriptions and are held back by   *)
(* full queues, requests whose reply future the first handler to answer    *)
(* resolves, and start() / stop().                                         *)
(*                                                                         *)
(* Everything runs on one event loop, so a step is what a task does        *)
(* between two suspensions.  put() on a queue with room and get() on a     *)
(* non-empty queue do not suspend.  A call the bus refuses (unknown topic, *)
(* bus not running, no request handler and no timeout) changes nothing and *)
(* is no step.                                                             *)
(***************************************************************************)
EXTENDS Naturals, Sequences, FiniteSets, SequencesExt

CONSTANTS
    Clients,          \* tasks that call publish() and request()
    Subs,             \* _Subscription objects; each is registered at most once
    Topics,           \* members of ALL_TOPICS in use
    TopicOf,          \* subscription -> topic
    RequestHandlers,  \* subscriptions made by request_handler()
    Removable,        \* subscriptions whose owner may unsubscribe
    Stoppable,        \* whether the owner may call stop()
    Cap,              \* EventBusConfig.max_queue_size, bounded queues only
    MaxMessages       \* bound: publish() and request() calls in a behaviour

ASSUME ConstantsAssumption ==
    /\ TopicOf \in [Subs -> Topics]
    /\ RequestHandlers \subseteq Subs
    /\ Removable \subseteq Subs
    /\ Stoppable \in BOOLEAN
    /\ Cap \in Nat \ {0}
    /\ MaxMessages \in Nat

VARIABLES
    running,     \* _running
    stopping,    \* stop()'s snapshot of subscriptions while it awaits the
                 \*   cancelled dispatchers; {} when no stop() is under way
    registry,    \* _subscriptions: topic -> subscriptions in order
    removed,     \* subscriptions that unsubscribe() has detached
    queue,       \* subscription -> its queued messages
    putters,     \* subscription -> clients asleep in queue.put(), in order
    warned,      \* subscription -> warned_high_watermark
    report,      \* subscription -> what the last high-watermark warning told
                 \*   of: "made", a fill that goes on; "dropped", one that a
                 \*   drain cut short; "none", neither.  For the properties.
    dispatcher,  \* subscription -> state of its dispatcher task
    handling,    \* subscription -> the message its handler is working on
    call,        \* client -> the publish() or request() it is executing
    future,      \* client -> reply future of its current request
    issued       \* number of messages created; gives each its id

vars == <<running, stopping, registry, removed, queue, putters, warned, report,
          dispatcher, handling, call, future, issued>>

(* Ids stand for message_id and grow in the order of the calls, so they    *)
(* also record publish order.  The topic is that of the subscriptions.     *)
Message == [id : Nat \ {0}, from : Clients]
NoMessage == [id |-> 0, from |-> "nobody"]

Modes == {"publish", "request", "timed"}   \* "timed": request with a timeout
Call == [pc : {"ready", "routing", "waiting"}, mode : Modes,
         msg : Message \cup {NoMessage}, todo : Seq(Subs)]
Idle == [pc |-> "ready", mode |-> "publish", msg |-> NoMessage, todo |-> <<>>]

Resolved == {"replied", "failed", "stopped"}

TypeOK ==
    /\ running \in BOOLEAN
    /\ stopping \in SUBSET Subs
    /\ registry \in [Topics -> Seq(Subs)]
    /\ removed \in SUBSET Subs
    /\ queue \in [Subs -> Seq(Message)]
    /\ \A s \in Subs : Len(queue[s]) <= Cap
    /\ putters \in [Subs -> Seq(Clients)]
    /\ warned \in [Subs -> BOOLEAN]
    /\ report \in [Subs -> {"none", "made", "dropped"}]
    /\ dispatcher \in [Subs -> {"none", "waiting", "handling", "cancelled"}]
    /\ handling \in [Subs -> Message \cup {NoMessage}]
    /\ call \in [Clients -> Call]
    /\ future \in [Clients -> {"none", "pending"} \cup Resolved]
    /\ issued \in 0 .. MaxMessages

Init ==
    /\ running = FALSE
    /\ stopping = {}
    /\ registry = [t \in Topics |-> <<>>]
    /\ removed = {}
    /\ queue = [s \in Subs |-> <<>>]
    /\ putters = [s \in Subs |-> <<>>]
    /\ warned = [s \in Subs |-> FALSE]
    /\ report = [s \in Subs |-> "none"]
    /\ dispatcher = [s \in Subs |-> "none"]
    /\ handling = [s \in Subs |-> NoMessage]
    /\ call = [c \in Clients |-> Idle]
    /\ future = [c \in Clients |-> "none"]
    /\ issued = 0

-----------------------------------------------------------------------------
(* Subscriptions, queues and the high watermark                            *)

Registered(s) == \E i \in DOMAIN registry[TopicOf[s]] : registry[TopicOf[s]][i] = s
RegisteredSubs == {s \in Subs : Registered(s)}
HasRequestHandler(t) == \E i \in DOMAIN registry[t] : registry[t][i] \in RequestHandlers

HasRoom(s) == Len(queue[s]) < Cap

(* max(1, int(0.8 * max_queue_size)) *)
WarnThreshold == LET share == (8 * Cap) \div 10 IN IF share < 1 THEN 1 ELSE share

(* Fault: only start() spawns dispatchers. *)
SubscribeUnserved(s) ==
    /\ ~Registered(s) /\ s \notin removed
    /\ registry' = [registry EXCEPT ![TopicOf[s]] = Append(@, s)]
    /\ UNCHANGED <<running, stopping, removed, queue, putters, warned, report, dispatcher,
                   handling, call, future, issued>>

(* _add_subscription: a dispatcher is spawned at once on a running bus. *)
Subscribe(s) ==
    /\ ~Registered(s) /\ s \notin removed
    /\ registry' = [registry EXCEPT ![TopicOf[s]] = Append(@, s)]
    /\ dispatcher' = [dispatcher EXCEPT ![s] = IF running THEN "waiting" ELSE "none"]
    /\ UNCHANGED <<running, stopping, removed, queue, putters, warned, report, handling,
                   call, future, issued>>

(* Fault: the queue is emptied behind the putters' backs. *)
DrainSilently(S) ==
    /\ queue' = [s \in Subs |-> IF s \in S THEN <<>> ELSE queue[s]]
    /\ putters' = putters
    /\ report' = [s \in Subs |-> IF s \in S /\ report[s] = "made" THEN "dropped" ELSE report[s]]

(* _drain: every get_nowait() wakes one sleeping putter; the watermark     *)
(* flag is not looked at.                                                  *)
Drain(S) ==
    /\ queue' = [s \in Subs |-> IF s \in S THEN <<>> ELSE queue[s]]
    /\ putters' = [s \in Subs |->
                     IF s \in S
                     THEN SubSeq(putters[s], Len(queue[s]) + 1, Len(putters[s]))
                     ELSE putters[s]]
    /\ report' = [s \in Subs |-> IF s \in S /\ report[s] = "made" THEN "dropped" ELSE report[s]]

(* _remove_subscription.  Cancelling the dispatcher abandons the handler   *)
(* at its current await; a reply future it owed is left as it is.          *)
Unsubscribe(s) ==
    /\ s \in Removable
    /\ \E i \in DOMAIN registry[TopicOf[s]] :
          /\ registry[TopicOf[s]][i] = s
          /\ registry' = [registry EXCEPT ![TopicOf[s]] = RemoveAt(@, i)]
    /\ removed' = removed \cup {s}
    /\ dispatcher' = [dispatcher EXCEPT ![s] = "none"]
    /\ handling' = [handling EXCEPT ![s] = NoMessage]
    /\ Drain({s})
    /\ UNCHANGED <<running, stopping, warned, call, future, issued>>

-----------------------------------------------------------------------------
(* publish() and request()                                                 *)

(* Fault: put_nowait(), which drops the message at a full queue. *)
RouteDropping(c, mode, m, todo) ==
    /\ queue' = [s \in Subs |->
                   IF s \in Range(todo) /\ HasRoom(s) THEN Append(queue[s], m) ELSE queue[s]]
    /\ warned' = [s \in Subs |->
                    \/ warned[s]
                    \/ s \in Range(todo) /\ Len(queue[s]) + 1 >= WarnThreshold]
    /\ report' = [s \in Subs |-> IF warned'[s] /\ ~warned[s] THEN "made" ELSE report[s]]
    /\ putters' = putters
    /\ call' = [call EXCEPT ![c] =
                  IF mode = "publish" THEN Idle
                  ELSE [pc |-> "waiting", mode |-> mode, msg |-> m, todo |-> <<>>]]

(* The part of _route that runs without suspending: m is put on the queues *)
(* of todo in order up to the first full one, k of them; the client then   *)
(* sleeps on that queue, or is done with routing.                          *)
Route(c, mode, m, todo) ==
    \E k \in 0 .. Len(todo) :
        LET reached == {todo[i] : i \in 1 .. k} IN
        /\ \A i \in 1 .. k : HasRoom(todo[i])
        /\ queue' = [s \in Subs |->
                       IF s \in reached THEN Append(queue[s], m) ELSE queue[s]]
        /\ warned' = [s \in Subs |->
                        \/ warned[s]
                        \/ s \in reached /\ Len(queue[s]) + 1 >= WarnThreshold]
        /\ report' = [s \in Subs |-> IF warned'[s] /\ ~warned[s] THEN "made" ELSE report[s]]
        /\ \/ /\ k = Len(todo)
              /\ putters' = putters
              /\ call' = [call EXCEPT ![c] =
                            IF mode = "publish" THEN Idle
                            ELSE [pc |-> "waiting", mode |-> mode, msg |-> m,
                                  todo |-> <<>>]]
           \/ /\ k < Len(todo)
              /\ ~HasRoom(todo[k + 1])
              /\ putters' = [putters EXCEPT ![todo[k + 1]] = Append(@, c)]
              /\ call' = [call EXCEPT ![c] =
                            [pc |-> "routing", mode |-> mode, msg |-> m,
                             todo |-> SubSeq(todo, k + 1, Len(todo))]]

NextMessage(c) == [id |-> issued + 1, from |-> c]

(* publish() up to its first suspension, or to its end. *)
Publish(c, t) ==
    /\ running
    /\ call[c].pc = "ready"
    /\ issued < MaxMessages
    /\ issued' = issued + 1
    /\ Route(c, "publish", NextMessage(c), registry[t])
    /\ UNCHANGED <<running, stopping, registry, removed, dispatcher, handling, future>>

(* request(): the reply future exists before the message is routed. *)
Request(c, t, mode) ==
    /\ running
    /\ call[c].pc = "ready"
    /\ issued < MaxMessages
    /\ mode = "request" => HasRequestHandler(t)
    /\ issued' = issued + 1
    /\ future' = [future EXCEPT ![c] = "pending"]
    /\ Route(c, mode, NextMessage(c), registry[t])
    /\ UNCHANGED <<running, stopping, registry, removed, dispatcher, handling>>

(* A client asleep in queue.put() was woken: put() looks again whether the *)
(* queue has room, and the rest of its snapshot follows.  Neither the      *)
(* registry nor running is consulted again.                                *)
Asleep(c) == c \in Range(putters[Head(call[c].todo)])

(* Fault: a publisher that was held back routes from the first subscription. *)
ResumeFromStart(c) ==
    /\ call[c].pc = "routing"
    /\ ~Asleep(c)
    /\ Route(c, call[c].mode, call[c].msg, registry[TopicOf[Head(call[c].todo)]])
    /\ UNCHANGED <<running, stopping, registry, removed, dispatcher, handling,
                   future, issued>>

Resume(c) ==
    /\ call[c].pc = "routing"
    /\ ~Asleep(c)
    /\ Route(c, call[c].mode, call[c].msg, call[c].todo)
    /\ UNCHANGED <<running, stopping, registry, removed, dispatcher, handling,
                   future, issued>>

(* The end of request(): the future's result or exception reaches the      *)
(* caller, and the finally clause forgets the future.                      *)
Return(c) ==
    /\ call[c].pc = "waiting"
    /\ future[c] \in Resolved
    /\ call' = [call EXCEPT ![c] = Idle]
    /\ future' = [future EXCEPT ![c] = "none"]
    /\ UNCHANGED <<running, stopping, registry, removed, queue, putters, warned, report,
                   dispatcher, handling, issued>>

(* Fault: the branches on the timeout are swapped. *)
TimeoutSwapped(c) ==
    /\ call[c].pc = "waiting"
    /\ call[c].mode = "request"
    /\ call' = [call EXCEPT ![c] = Idle]
    /\ future' = [future EXCEPT ![c] = "none"]
    /\ UNCHANGED <<running, stopping, registry, removed, queue, putters, warned, report,
                   dispatcher, handling, issued>>

(* wait_for() gives up.  The timeout covers only the wait for the future;  *)
(* it can also strike when the future is already resolved and its waiter   *)
(* has not run yet, and then the reply is lost.                            *)
Timeout(c) ==
    /\ call[c].pc = "waiting"
    /\ call[c].mode = "timed"
    /\ call' = [call EXCEPT ![c] = Idle]
    /\ future' = [future EXCEPT ![c] = "none"]
    /\ UNCHANGED <<running, stopping, registry, removed, queue, putters, warned, report,
                   dispatcher, handling, issued>>

-----------------------------------------------------------------------------
(* Dispatchers                                                             *)

(* Fault: the watermark flag is never reset. *)
DispatchForgetting(s) ==
    /\ dispatcher[s] = "waiting"
    /\ queue[s] # <<>>
    /\ dispatcher' = [dispatcher EXCEPT ![s] = "handling"]
    /\ handling' = [handling EXCEPT ![s] = Head(queue[s])]
    /\ queue' = [queue EXCEPT ![s] = Tail(@)]
    /\ putters' = [putters EXCEPT ![s] = IF @ = <<>> THEN @ ELSE Tail(@)]
    /\ warned' = warned
    /\ report' = [report EXCEPT ![s] = IF Len(queue[s]) - 1 < WarnThreshold THEN "none" ELSE @]
    /\ UNCHANGED <<running, stopping, registry, removed, call, future, issued>>

(* Fault: a free slot is announced to nobody. *)
DispatchQuietly(s) ==
    /\ dispatcher[s] = "waiting"
    /\ queue[s] # <<>>
    /\ dispatcher' = [dispatcher EXCEPT ![s] = "handling"]
    /\ handling' = [handling EXCEPT ![s] = Head(queue[s])]
    /\ queue' = [queue EXCEPT ![s] = Tail(@)]
    /\ warned' = [warned EXCEPT ![s] = @ /\ Len(queue[s]) - 1 >= WarnThreshold]
    /\ report' = [report EXCEPT ![s] = IF Len(queue[s]) - 1 < WarnThreshold THEN "none" ELSE @]
    /\ UNCHANGED <<running, stopping, registry, removed, putters, call, future, issued>>

(* _dispatch: get() takes the oldest message and wakes one putter; the     *)
(* watermark flag is reset once the queue is below the threshold; the      *)
(* handler starts.  A dispatcher that finds its queue non-empty after a    *)
(* handler ends takes the next message without suspending: the steps of    *)
(* other tasks allowed in between are those a slower handler would allow.  *)
Dispatch(s) ==
    /\ dispatcher[s] = "waiting"
    /\ queue[s] # <<>>
    /\ dispatcher' = [dispatcher EXCEPT ![s] = "handling"]
    /\ handling' = [handling EXCEPT ![s] = Head(queue[s])]
    /\ queue' = [queue EXCEPT ![s] = Tail(@)]
    /\ putters' = [putters EXCEPT ![s] = IF @ = <<>> THEN @ ELSE Tail(@)]
    /\ warned' = [warned EXCEPT ![s] = @ /\ Len(queue[s]) - 1 >= WarnThreshold]
    /\ report' = [report EXCEPT ![s] = IF Len(queue[s]) - 1 < WarnThreshold THEN "none" ELSE @]
    /\ UNCHANGED <<running, stopping, registry, removed, call, future, issued>>

AwaitsAnyReply(c, m) == future[c] = "pending" /\ m.from = c        \* fault: keyed by sender
AwaitsOrHasReply(c, m) == future[c] # "none" /\ call[c].msg = m    \* fault: done() unchecked

(* _reply_futures.get(message_id) finds a future that is not done. *)
AwaitsReply(c, m) == future[c] = "pending" /\ call[c].msg = m

HandlerEnds(s, outcome) ==
    /\ dispatcher[s] = "handling"
    /\ dispatcher' = [dispatcher EXCEPT ![s] = "waiting"]
    /\ handling' = [handling EXCEPT ![s] = NoMessage]
    /\ future' = [c \in Clients |->
                    IF /\ s \in RequestHandlers
                       /\ outcome # "none"
                       /\ AwaitsReply(c, handling[s])
                    THEN outcome ELSE future[c]]
    /\ UNCHANGED <<running, stopping, registry, removed, queue, putters, warned, report,
                   call, issued>>

HandlerReturnsReply(s) == HandlerEnds(s, "replied")   \* _maybe_reply
HandlerReturnsNone(s) == HandlerEnds(s, "none")
HandlerRaises(s) == HandlerEnds(s, "failed")          \* _fail_pending_reply

-----------------------------------------------------------------------------
(* Lifecycle.  As in main.py one owner calls start() and stop() and awaits *)
(* each to its end.                                                        *)

Start ==
    /\ ~running /\ stopping = {}
    /\ running' = TRUE
    /\ dispatcher' = [s \in Subs |-> IF Registered(s) THEN "waiting" ELSE dispatcher[s]]
    /\ UNCHANGED <<stopping, registry, removed, queue, putters, warned, report, handling,
                   call, future, issued>>

FailPendingReplies ==
    future' = [c \in Clients |-> IF future[c] = "pending" THEN "stopped" ELSE future[c]]

(* stop() up to its await.  Cancelled dispatchers abandon their handlers.  *)
(* Without a dispatcher to wait for, stop() runs to its end at once.       *)
Stop ==
    /\ Stoppable
    /\ running
    /\ running' = FALSE
    /\ stopping' = RegisteredSubs
    /\ dispatcher' = [s \in Subs |-> IF Registered(s) THEN "cancelled" ELSE dispatcher[s]]
    /\ handling' = [s \in Subs |-> IF Registered(s) THEN NoMessage ELSE handling[s]]
    /\ IF RegisteredSubs = {} THEN FailPendingReplies ELSE UNCHANGED future
    /\ UNCHANGED <<registry, removed, queue, putters, warned, report, call, issued>>

(* Fault: pending replies are forgotten. *)
StopFinishSilently ==
    /\ stopping # {}
    /\ stopping' = {}
    /\ dispatcher' = [s \in Subs |-> IF s \in stopping THEN "none" ELSE dispatcher[s]]
    /\ Drain(stopping)
    /\ UNCHANGED <<running, registry, removed, warned, handling, call, future, issued>>

(* The rest of stop(), once the cancelled dispatchers have ended. *)
StopFinish ==
    /\ stopping # {}
    /\ stopping' = {}
    /\ dispatcher' = [s \in Subs |-> IF s \in stopping THEN "none" ELSE dispatcher[s]]
    /\ Drain(stopping)
    /\ FailPendingReplies
    /\ UNCHANGED <<running, registry, removed, warned, handling, call, issued>>

-----------------------------------------------------------------------------
ClientStep(c) ==
    \/ \E t \in Topics : Publish(c, t)
    \/ \E t \in Topics, mode \in {"request", "timed"} : Request(c, t, mode)
    \/ Resume(c)
    \/ Return(c)
    \/ Timeout(c)

DispatcherStep(s) ==
    \/ Dispatch(s)
    \/ HandlerReturnsReply(s)
    \/ HandlerReturnsNone(s)
    \/ HandlerRaises(s)

Next ==
    \/ \E c \in Clients : ClientStep(c)
    \/ \E s \in Subs : DispatcherStep(s) \/ Subscribe(s) \/ Unsubscribe(s)
    \/ Start
    \/ Stop
    \/ StopFinish

Spec == Init /\ [][Next]_vars

(* The event loop runs every task that is ready; handlers end and a        *)
(* timeout fires.  Nobody is obliged to call the bus.                      *)
Fairness ==
    /\ \A c \in Clients : WF_vars(Resume(c)) /\ WF_vars(Return(c)) /\ WF_vars(Timeout(c))
    /\ \A s \in Subs : WF_vars(DispatcherStep(s))
    /\ WF_vars(StopFinish)

FairSpec == Spec /\ Fairness

-----------------------------------------------------------------------------
(* Safety                                                                  *)

Live(s) == dispatcher[s] \in {"waiting", "handling"}

(* Through every order of start, stop, subscribe and unsubscribe a         *)
(* subscription has a live dispatcher exactly while it is registered on a  *)
(* running bus, and only a live dispatcher is inside a handler: no handler *)
(* outlives its unsubscribe() or the stop(), and no subscription of a      *)
(* running bus is deaf.                                                    *)
DispatcherIffServed ==
    \A s \in Subs :
        /\ Live(s) <=> running /\ Registered(s)
        /\ dispatcher[s] = "handling" <=> handling[s] # NoMessage

(* stop() leaves no requester waiting: once it has ended, and until the    *)
(* next start(), no reply future is pending, whatever the requesters, the  *)
(* handlers and unsubscribe() were doing.                                  *)
StopReleasesRequesters ==
    ~running /\ stopping = {} => \A c \in Clients : future[c] # "pending"

(* The clients asleep on s, and those woken that have not run yet. *)
Sleepers(s) == Range(putters[s])
Woken(s) == {c \in Clients : /\ call[c].pc = "routing"
                             /\ Head(call[c].todo) = s
                             /\ c \notin Sleepers(s)}

(* No lost wakeup in backpressure: while a publisher sleeps on a queue,    *)
(* each free slot of that queue is one a woken publisher is about to see,  *)
(* also when publishers that never slept take slots first, and when stop() *)
(* or unsubscribe() drains the queue.                                      *)
NoLostWakeup ==
    \A s \in Subs :
        putters[s] # <<>> => Cap - Len(queue[s]) <= Cardinality(Woken(s))

(* What s is yet to finish, oldest first. *)
Line(s) == (IF handling[s] = NoMessage THEN <<>> ELSE <<handling[s]>>) \o queue[s]

(* The messages of one sender reach every subscription in the order it     *)
(* published them and none twice: its calls are sequential, a routing      *)
(* that is held back keeps its place, and nothing of a later call can be   *)
(* queued before it.                                                       *)
SenderOrder ==
    \A s \in Subs :
        /\ \A i, j \in DOMAIN Line(s) :
              i < j /\ Line(s)[i].from = Line(s)[j].from => Line(s)[i].id < Line(s)[j].id
        /\ \A c \in Clients, i \in DOMAIN Line(s) :
              /\ s \in Range(call[c].todo)
              /\ Line(s)[i].from = c
              => Line(s)[i].id < call[c].msg.id

(* No order of publishes, gets, sleeping publishers and restarts lets a    *)
(* queue fill without a word, but one: after a drain the flag of the fill  *)
(* it cut short stands in for a warning, until a get() finds the queue     *)
(* below the threshold again.                                              *)
FullQueueWarned ==
    \A s \in Subs : Len(queue[s]) >= WarnThreshold => report[s] \in {"made", "dropped"}

(* A reply or a failure reaches only the request whose very message the    *)
(* resolving handler was working on: the answer to a request that timed    *)
(* out never resolves the caller's next one.                               *)
ReplyIsForThisRequest ==
    [][\A c \in Clients :
          future[c] # future'[c] /\ future'[c] \in {"replied", "failed"} =>
              \E s \in RequestHandlers :
                  handling[s] = call[c].msg /\ handling'[s] = NoMessage]_vars

(* The first resolution wins: no later reply, failure or stop() changes    *)
(* what the requester will see; only its own return clears it.             *)
FirstResolutionWins ==
    [][\A c \in Clients :
          future[c] \in Resolved =>
              future'[c] = future[c] \/ call'[c].pc = "ready"]_vars

-----------------------------------------------------------------------------
(* Liveness, for a bus that is not stopped and keeps its subscriptions     *)

(* Backpressure slows a publisher down but lets it go: routing ends. *)
RoutingEnds == \A c \in Clients : call[c].pc = "routing" ~> call[c].pc # "routing"

(* Each message gets to every subscription that was registered when the    *)
(* call was made, in the end: backpressure, requests that time out and     *)
(* concurrent subscribe() calls skip nobody.  (Of one topic: topics share  *)
(* nothing.)                                                               *)
EverySubscriberServed ==
    \A s \in Subs, id \in 1 .. MaxMessages :
        [](Registered(s) /\ issued < id => [](issued < id) \/ <>(handling[s].id = id))

(* A request with a timeout comes back to its caller.  (With unsubscribe() *)
(* or stop() in play this fails: the timeout does not cover routing.)      *)
TimedRequestReturns ==
    \A c \in Clients : call[c].mode = "timed" ~> call[c].mode # "timed"

-----------------------------------------------------------------------------
(* Claims of the documentation that the code does not keep                 *)

(* warned_high_watermark: "Whether the 80%-full warning has already been   *)
(* logged for the current fill episode".  stop() and unsubscribe() end an  *)
(* episode and leave the flag set.                                         *)
WarnedOfThisFill ==
    \A s \in Subs : warned[s] /\ Len(queue[s]) >= WarnThreshold => report[s] = "made"

(* stop() drops the queued messages: a stopped bus holds none. *)
StoppedBusIsEmpty ==
    ~running /\ stopping = {} => \A s \in Subs : queue[s] = <<>>

(* Delivery order within a subscription is publish order, of all senders. *)
PublishOrder ==
    \A s \in Subs : \A i, j \in DOMAIN Line(s) :
        i < j => Line(s)[i].id < Line(s)[j].id

=============================================================================
