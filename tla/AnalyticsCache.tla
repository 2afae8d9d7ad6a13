--------------------------- MODULE AnalyticsCache ---------------------------
(***************************************************************************)
(* How a change of the data reaches the per-user summary cache of          *)
(* AnalyticsService: services commit and publish (the portfolio commits    *)
(* first, bonds publish first), one dispatcher per subscribed topic        *)
(* recalculates, and a reader that misses fills the cache on its own.      *)
(*                                                                         *)
(* Data are version counters: how many committed changes the transactions  *)
(* of a user have seen, and how many the one bond all users trade.  A user *)
(* with transactions when the process starts is at 1.                      *)
(*                                                                         *)
(* As main() composes the program, the callers of services run on the      *)
(* server thread's loop and the dispatchers and stop() on the main one: a  *)
(* publisher can be overtaken by stop() after it has found the bus         *)
(* running, put() at a full queue raises RuntimeError instead of waiting,  *)
(* and no fairness of the dispatchers is assumed: a put from another loop  *)
(* wakes nobody (see Server).  On one loop put() would wait, which here is *)
(* a step that is not taken yet.                                           *)
(***************************************************************************)
EXTENDS Naturals, Sequences, FiniteSets, SequencesExt

CONSTANTS
    Users, Writers, Readers,
    QueueCap,       \* EventBusConfig.max_queue_size
    SingleWriter,   \* TRUE: SQLite, one write transaction at a time
    Failures,       \* whether a recalculation may fail
    Stoppable,      \* whether the bus may be stopped
    MaxChanges      \* bound: calls that write

Nobody == "nobody"

ASSUME AnalyticsCacheAssumption ==
    /\ IsFiniteSet(Users)
    /\ Nobody \notin Users \cup Writers
    /\ QueueCap \in Nat \ {0}
    /\ {SingleWriter, Failures, Stoppable} \subseteq BOOLEAN
    /\ MaxChanges \in Nat

VARIABLES
    running,   \* the bus is running
    ledger,    \* user -> committed changes of the user's transactions
    bond,      \* committed changes of the bond
    lock,      \* the writer whose open transaction has changed the bond
    writer,    \* writer -> the call it is executing
    queue,     \* topic -> events the analytics subscription has queued
    recalc,    \* topic -> what its dispatcher's handler is doing
    reader,    \* reader -> the get_portfolio_summary() it is executing
    cache,     \* user -> _summary_cache entry
    changes,   \* number of writing calls so far
    (* For the properties, user -> the newest of the user's changes that    *)
    announced, \*   an event on a queue has told of
    refreshed, \*   a recalculation has put into the cache
    forgone    \*   was lost with its event to a failing handler or to stop()

history == <<announced, refreshed, forgone>>
vars == <<running, ledger, bond, lock, writer, queue, recalc, reader, cache, changes, history>>

(* _CHANGE_TOPICS.  bond.deleted is left out: a bond is deleted only while *)
(* it has no holders, and then nothing is published.                       *)
ChangeTopics == {"bond.updated", "transaction.created", "position.updated"}

Version == 0 .. MaxChanges + 1
Summary == [ledger : Version, bond : Version]
NoSummary == [ledger |-> 0, bond |-> 0, missing |-> TRUE]

(* An event names the user and, for the properties, the change it tells of. *)
Event == [topic : ChangeTopics, user : Users, change : Version]

Ops == {"add", "amend", "bond"}
Writer == [op : Ops \cup {"none"}, user : Users \cup {Nobody},
           todo : Seq(Event),      \* events to publish
           inside : BOOLEAN]       \* publish() of the first one has found the bus running
Writing(op, user, todo) == [op |-> op, user |-> user, todo |-> todo, inside |-> FALSE]
IdleWriter == Writing("none", Nobody, <<>>)

(* _compute_summary: transactions are read first, the bonds after them.    *)
Work == [pc : {"started", "half", "computed"}, user : Users, change : Version, seen : Summary]
NoWork == [pc |-> "idle"]
Started(user, change) == [pc |-> "started", user |-> user, change |-> change,
                          seen |-> [ledger |-> 0, bond |-> 0]]

CacheTypeOK ==
    /\ running \in BOOLEAN
    /\ ledger \in [Users -> Version]
    /\ bond \in Version
    /\ lock \in Writers \cup {Nobody}
    /\ writer \in [Writers -> Writer]
    /\ queue \in [ChangeTopics -> Seq(Event)]
    /\ \A t \in ChangeTopics : Len(queue[t]) <= QueueCap
    /\ recalc \in [ChangeTopics -> Work \cup {NoWork}]
    /\ reader \in [Readers -> Work \cup {NoWork}]
    /\ cache \in [Users -> Summary \cup {NoSummary}]
    /\ changes \in 0 .. MaxChanges

HistoryTypeOK == {announced, refreshed, forgone} \subseteq [Users -> Version]

Init ==
    /\ running = TRUE
    /\ ledger \in [Users -> {0, 1}]
    /\ bond = 0
    /\ lock = Nobody
    /\ writer = [w \in Writers |-> IdleWriter]
    /\ queue = [t \in ChangeTopics |-> <<>>]
    /\ recalc = [t \in ChangeTopics |-> NoWork]
    /\ reader = [r \in Readers |-> NoWork]
    /\ cache = [u \in Users |-> NoSummary]
    /\ changes = 0
    /\ announced = [u \in Users |-> 0]
    /\ refreshed = [u \in Users |-> 0]
    /\ forgone = [u \in Users |-> 0]

-----------------------------------------------------------------------------
(* Writers                                                                 *)

Tell(topic, user, change) == [topic |-> topic, user |-> user, change |-> change]

LockFree == lock = Nobody

CommitsLast(op) == FALSE              \* fault: publish, then commit, everywhere
CommitsFirst(op) == op # "bond"

(* BondService.update up to its first publish: the change is flushed, not  *)
(* committed, and there will be one event per holder.                      *)
BeginBond(w) ==
    /\ writer[w].op = "none" /\ changes < MaxChanges
    /\ LockFree
    /\ lock' = w
    /\ \E told \in SetToSeqs({u \in Users : ledger[u] > 0}) :
          writer' = [writer EXCEPT ![w] = Writing("bond", Nobody,
             [i \in DOMAIN told |-> Tell("bond.updated", told[i], bond + 1)])]
    /\ changes' = changes + 1
    /\ UNCHANGED <<running, ledger, bond, queue, recalc, reader, cache, history>>

Announced(op, u) ==
    LET change == ledger[u] + 1 IN
    IF op = "add"
    THEN <<Tell("transaction.created", u, change), Tell("position.updated", u, change)>>
    ELSE <<Tell("position.updated", u, change)>>

(* PortfolioService: the committed insert ("add"), update or delete        *)
(* ("amend") of one of u's transactions; the events follow.  A user keeps  *)
(* at least one transaction.                                               *)
WriteTransaction(w, op, u) ==
    /\ op \in {"add", "amend"}
    /\ writer[w].op = "none" /\ changes < MaxChanges
    /\ SingleWriter => LockFree
    /\ op = "amend" => ledger[u] > 0
    /\ ledger' = [ledger EXCEPT ![u] = IF CommitsFirst(op) THEN @ + 1 ELSE @]
    /\ writer' = [writer EXCEPT ![w] = Writing(op, u, Announced(op, u))]
    /\ changes' = changes + 1
    /\ UNCHANGED <<running, bond, lock, queue, recalc, reader, cache, history>>

HasRoom(event) == Len(queue[event.topic]) < QueueCap

TransactionTopics == {"transaction.created", "position.updated"}

Newer(n, m) == IF n > m THEN n ELSE m

(* publish() finds the bus running. *)
Enter(w) ==
    /\ running /\ ~writer[w].inside
    /\ writer[w].todo # <<>>
    /\ writer' = [writer EXCEPT ![w].inside = TRUE]
    /\ UNCHANGED <<running, ledger, bond, lock, queue, recalc, reader, cache, changes, history>>

(* The event gets onto its queue. *)
Publish(w) ==
    /\ writer[w].inside /\ writer[w].todo # <<>>
    /\ LET event == Head(writer[w].todo) IN
        /\ HasRoom(event)
        /\ queue' = [queue EXCEPT ![event.topic] = Append(@, event)]
        /\ announced' = [announced EXCEPT ![event.user] =
                            IF event.topic \in TransactionTopics
                            THEN Newer(event.change, @) ELSE @]
    /\ writer' = [writer EXCEPT ![w].todo = Tail(@), ![w].inside = FALSE]
    /\ UNCHANGED <<running, ledger, bond, lock, recalc, reader, cache, changes,
                   refreshed, forgone>>

ReleasedBy(w) == IF lock = w THEN Nobody ELSE lock

(* publish() raises on a stopped bus, and put() at a full queue that waits *)
(* on another loop.                                                        *)
Refused(call) == IF call.inside THEN ~HasRoom(Head(call.todo)) ELSE ~running

(* get_position() before the first event of a transaction. *)
ReadsPosition(call) ==
    \/ call.op = "add" /\ Len(call.todo) = 2 /\ ~call.inside
    \/ call.op = "amend" /\ Len(call.todo) = 1 /\ ~call.inside

(* A call fails at its publish(), at the read before it or at the commit   *)
(* of a bond: the bond's change is rolled back, also when its events are   *)
(* out; a transaction's stays and the rest of its events is lost.          *)
CallFails(w) ==
    /\ writer[w].op # "none"
    /\ IF writer[w].todo = <<>> THEN writer[w].op = "bond"
       ELSE Refused(writer[w]) \/ ReadsPosition(writer[w])
    /\ lock' = ReleasedBy(w)
    /\ writer' = [writer EXCEPT ![w] = IdleWriter]
    /\ UNCHANGED <<running, ledger, bond, queue, recalc, reader, cache, changes, history>>

(* The events are out; what is not committed yet now is, and the call      *)
(* returns.                                                                *)
Finish(w) ==
    LET call == writer[w] IN
    /\ call.op # "none"
    /\ call.todo = <<>>
    /\ bond' = IF call.op = "bond" THEN bond + 1 ELSE bond
    /\ ledger' = [u \in Users |-> IF u = call.user /\ ~CommitsFirst(call.op)
                                  THEN ledger[u] + 1 ELSE ledger[u]]
    /\ lock' = ReleasedBy(w)
    /\ writer' = [writer EXCEPT ![w] = IdleWriter]
    /\ UNCHANGED <<running, queue, recalc, reader, cache, changes, history>>

-----------------------------------------------------------------------------
(* Computing a summary, in a session of its own that sees committed data   *)
(* only and waits for no writer                                            *)

HalfRead(work) == [work EXCEPT !.pc = "half", !.seen.ledger = ledger[work.user]]
AllRead(work) == [work EXCEPT !.pc = "computed", !.seen.bond = bond]

(* The dispatcher of topic t hands the oldest event to handle(). *)
Take(t) ==
    /\ running
    /\ recalc[t] = NoWork
    /\ queue[t] # <<>>
    /\ recalc' = [recalc EXCEPT ![t] = Started(Head(queue[t]).user, Head(queue[t]).change)]
    /\ queue' = [queue EXCEPT ![t] = Tail(@)]
    /\ UNCHANGED <<running, ledger, bond, lock, writer, reader, cache, changes, history>>

Recalculate(t) ==
    /\ \/ recalc[t].pc = "started" /\ recalc' = [recalc EXCEPT ![t] = HalfRead(@)]
       \/ recalc[t].pc = "half" /\ recalc' = [recalc EXCEPT ![t] = AllRead(@)]
    /\ UNCHANGED <<running, ledger, bond, lock, writer, queue, reader, cache, changes, history>>

(* Fault: setdefault() for an assignment. *)
StoreIfMissing(t) ==
    /\ recalc[t].pc = "computed"
    /\ cache' = [cache EXCEPT ![recalc[t].user] =
                   IF @ = NoSummary THEN recalc[t].seen ELSE @]
    /\ recalc' = [recalc EXCEPT ![t] = NoWork]
    /\ refreshed' = [refreshed EXCEPT ![recalc[t].user] =
                        Newer(cache'[recalc[t].user].ledger, @)]
    /\ UNCHANGED <<running, ledger, bond, lock, writer, queue, reader, changes,
                   announced, forgone>>

(* recalculate() stores what it computed.  The portfolio.recalculated      *)
(* event that follows has no subscriber.                                   *)
Store(t) ==
    /\ recalc[t].pc = "computed"
    /\ cache' = [cache EXCEPT ![recalc[t].user] = recalc[t].seen]
    /\ recalc' = [recalc EXCEPT ![t] = NoWork]
    /\ refreshed' = [refreshed EXCEPT ![recalc[t].user] =
                        Newer(cache'[recalc[t].user].ledger, @)]
    /\ UNCHANGED <<running, ledger, bond, lock, writer, queue, reader, changes,
                   announced, forgone>>

(* handle() swallows every error: the event is used up, the cache is not   *)
(* refreshed.                                                              *)
RecalculationFails(t) ==
    /\ Failures
    /\ recalc[t].pc \in {"started", "half"}
    /\ recalc' = [recalc EXCEPT ![t] = NoWork]
    /\ forgone' = [forgone EXCEPT ![recalc[t].user] =
                      IF t \in TransactionTopics THEN Newer(recalc[t].change, @) ELSE @]
    /\ UNCHANGED <<running, ledger, bond, lock, writer, queue, reader, cache, changes,
                   announced, refreshed>>

(* get_portfolio_summary() finds no entry: it computes one outside the     *)
(* cache lock and stores it, whatever was stored in the meantime.          *)
Miss(r, u) ==
    /\ reader[r] = NoWork
    /\ cache[u] = NoSummary
    /\ reader' = [reader EXCEPT ![r] = Started(u, 0)]
    /\ UNCHANGED <<running, ledger, bond, lock, writer, queue, recalc, cache, changes, history>>

Compute(r) ==
    /\ \/ reader[r].pc = "started" /\ reader' = [reader EXCEPT ![r] = HalfRead(@)]
       \/ reader[r].pc = "half" /\ reader' = [reader EXCEPT ![r] = AllRead(@)]
    /\ UNCHANGED <<running, ledger, bond, lock, writer, queue, recalc, cache, changes, history>>

Fill(r) ==
    /\ reader[r].pc = "computed"
    /\ cache' = [cache EXCEPT ![reader[r].user] = reader[r].seen]
    /\ reader' = [reader EXCEPT ![r] = NoWork]
    /\ UNCHANGED <<running, ledger, bond, lock, writer, queue, recalc, changes, history>>

(* stop(): dispatchers are cancelled and the queues dropped. *)
Stop ==
    /\ Stoppable /\ running
    /\ running' = FALSE
    /\ queue' = [t \in ChangeTopics |-> <<>>]
    /\ recalc' = [t \in ChangeTopics |-> NoWork]
    /\ forgone' = announced
    /\ UNCHANGED <<ledger, bond, lock, writer, reader, cache, changes,
                   announced, refreshed>>

-----------------------------------------------------------------------------
WriterEnds(w) == Enter(w) \/ Publish(w) \/ CallFails(w) \/ Finish(w)
DispatcherStep(t) == Take(t) \/ Recalculate(t) \/ Store(t) \/ RecalculationFails(t)
ReaderEnds(r) == Compute(r) \/ Fill(r)

Next ==
    \/ \E w \in Writers :
        \/ BeginBond(w)
        \/ \E op \in Ops, u \in Users : WriteTransaction(w, op, u)
        \/ WriterEnds(w)
    \/ \E t \in ChangeTopics : DispatcherStep(t)
    \/ \E r \in Readers : ReaderEnds(r) \/ \E u \in Users : Miss(r, u)
    \/ Stop

Spec == Init /\ [][Next]_vars

-----------------------------------------------------------------------------
(* What a recalculation computes includes the transaction change it was    *)
(* told of, since that is committed before it is published: no order of    *)
(* writers, full queues and dispatchers lets an event overtake its data.   *)
(* (Of a bond change this is not true: its events go out before the        *)
(* commit.)                                                                *)
RecalculationIsRecent ==
    \A t \in TransactionTopics :
        recalc[t].pc \in {"half", "computed"} => recalc[t].seen.ledger >= recalc[t].change

(* An event about u's change n, or a newer one, that is yet to be acted on. *)
Owed(u, n) ==
    \E t \in TransactionTopics :
        \/ \E i \in DOMAIN queue[t] : queue[t][i].user = u /\ queue[t][i].change >= n
        \/ recalc[t] # NoWork /\ recalc[t].user = u /\ recalc[t].change >= n

(* No change that the bus took an event about is forgotten: a              *)
(* recalculation has put it into the cache, or an event that will is on    *)
(* its way, unless a handler failed or the bus stopped in between; however *)
(* the topics, the writers and the readers that fill the cache interleave. *)
(* (A slower computation may put an older summary over it later.)          *)
NoChangeForgotten ==
    \A u \in Users :
        \/ announced[u] <= refreshed[u]
        \/ announced[u] <= forgone[u]
        \/ Owed(u, announced[u])

(* Documented: a cached summary is fresh up to the last processed event.   *)
(* So once every event has been processed it holds each transaction change *)
(* an event has told of.                                                   *)
Quiet ==
    /\ \A w \in Writers : writer[w] = IdleWriter
    /\ \A t \in ChangeTopics : queue[t] = <<>> /\ recalc[t] = NoWork
    /\ \A r \in Readers : reader[r] = NoWork
FreshWhenQuiet ==
    Quiet => \A u \in Users : cache[u] # NoSummary => cache[u].ledger >= announced[u]
=============================================================================
