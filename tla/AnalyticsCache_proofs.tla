----------------------- MODULE AnalyticsCache_proofs ------------------------
(***************************************************************************)
(* Proofs about AnalyticsCache for every number of users, writers and      *)
(* readers, every queue size and every bound on the number of changes.     *)
(***************************************************************************)
EXTENDS AnalyticsCache, FiniteSetTheorems, SequenceTheorems, TLAPS

(* What CacheTypeOK lacks to be inductive: versions are bounded by the     *)
(* number of calls; the call that changes the bond holds the lock, has     *)
(* been counted and not yet changed it, and is about no user.              *)
Counted ==
    /\ \A u \in Users : ledger[u] <= changes + 1
    /\ bond <= changes
    /\ lock # Nobody => bond < changes
    /\ \A w \in Writers : writer[w].op = "bond" <=> lock = w
    /\ \A w \in Writers : writer[w].op = "bond" => writer[w].user = Nobody

TypeInv == CacheTypeOK /\ Counted

(* The holders of a bond are told in some order. *)
LEMMA OrderOfHolders ==
  ASSUME AnalyticsCacheAssumption, NEW S \in SUBSET Users, NEW told \in SetToSeqs(S)
  PROVE  told \in Seq(Users)
<1>1. IsFiniteSet(S) /\ Cardinality(S) \in Nat
  BY FS_Subset, FS_CardinalityType DEF AnalyticsCacheAssumption
<1>2. told \in [1 .. Cardinality(S) -> S]
  BY DEF SetToSeqs
<1>. QED
  BY <1>1, <1>2

(* Work in progress is no NoWork. *)
LEMMA WorkGoesOn ==
  ASSUME TypeInv, NEW work \in Work \cup {NoWork}, work.pc # "idle"
  PROVE  work \in Work
  BY DEF NoWork

(* A begun computation is work, for the user and change it is begun for. *)
LEMMA StartedIsWork ==
  ASSUME AnalyticsCacheAssumption, NEW u \in Users, NEW change \in Version
  PROVE  /\ Started(u, change) \in Work
         /\ Started(u, change).pc = "started"
         /\ Started(u, change).user = u /\ Started(u, change).change = change
  BY DEF Started, Work, Summary, Version, AnalyticsCacheAssumption

(* The first read of a computation is the user's committed transactions. *)
LEMMA HalfReadIsWork ==
  ASSUME TypeInv, NEW work \in Work
  PROVE  /\ HalfRead(work) \in Work /\ HalfRead(work).pc = "half"
         /\ HalfRead(work).user = work.user /\ HalfRead(work).change = work.change
         /\ HalfRead(work).seen.ledger = ledger[work.user]
  BY DEF HalfRead, Work, Summary, TypeInv, CacheTypeOK

(* The second read keeps what the first one has read. *)
LEMMA AllReadIsWork ==
  ASSUME TypeInv, NEW work \in Work
  PROVE  /\ AllRead(work) \in Work /\ AllRead(work).pc = "computed"
         /\ AllRead(work).user = work.user /\ AllRead(work).change = work.change
         /\ AllRead(work).seen.ledger = work.seen.ledger
  BY DEF AllRead, Work, Summary, TypeInv, CacheTypeOK

(* What a call announces are events about its user's change. *)
LEMMA AnnouncedEvents ==
  ASSUME NEW u \in Users, NEW op, ledger[u] + 1 \in Version
  PROVE  /\ Announced(op, u) \in Seq(Event)
         /\ \A i \in DOMAIN Announced(op, u) :
               /\ Announced(op, u)[i].topic # "bond.updated"
               /\ Announced(op, u)[i].user = u
               /\ Announced(op, u)[i].change = ledger[u] + 1
<1>. DEFINE created == Tell("transaction.created", u, ledger[u] + 1)
            updated == Tell("position.updated", u, ledger[u] + 1)
            both == <<created, updated>>
            one == <<updated>>
<1>1. /\ created \in Event /\ updated \in Event
      /\ created.topic # "bond.updated" /\ updated.topic # "bond.updated"
      /\ created.user = u /\ created.change = ledger[u] + 1
      /\ updated.user = u /\ updated.change = ledger[u] + 1
  BY DEF Tell, Event, ChangeTopics
<1>2. Announced(op, u) = IF op = "add" THEN both ELSE one
  BY DEF Announced
<1>. HIDE DEF created, updated
<1>3. /\ both \in Seq(Event) /\ one \in Seq(Event)
      /\ \A i \in DOMAIN both : both[i] \in {created, updated}
      /\ \A i \in DOMAIN one : one[i] \in {created, updated}
  BY <1>1
<1>. HIDE DEF both, one
<1>4. CASE op = "add"
  BY <1>1, <1>2, <1>3, <1>4
<1>5. CASE op # "add"
  BY <1>1, <1>2, <1>3, <1>5
<1>. QED
  BY <1>4, <1>5

-----------------------------------------------------------------------------
(* Every step preserves the types; one lemma for each group of actions.    *)

(* The bond service flushes its change and has the holders told. *)
LEMMA BeginBondTypes ==
  ASSUME AnalyticsCacheAssumption, TypeInv, NEW w \in Writers, BeginBond(w)
  PROVE  TypeInv'
<1>1. PICK told \in SetToSeqs({u \in Users : ledger[u] > 0}) :
          writer' = [writer EXCEPT ![w] = Writing("bond", Nobody,
             [i \in DOMAIN told |-> Tell("bond.updated", told[i], bond + 1)])]
  BY DEF BeginBond
<1>. DEFINE todo == [i \in DOMAIN told |-> Tell("bond.updated", told[i], bond + 1)]
            begun == Writing("bond", Nobody, todo)
<1>2. /\ changes < MaxChanges /\ lock = Nobody /\ lock' = w /\ changes' = changes + 1
      /\ changes \in Nat /\ bond \in Nat /\ bond <= changes /\ MaxChanges \in Nat
      /\ UNCHANGED <<running, ledger, bond, queue, recalc, reader, cache>>
  BY DEF BeginBond, LockFree, TypeInv, CacheTypeOK, Counted, Version, AnalyticsCacheAssumption
<1>3. told \in Seq(Users)
  BY OrderOfHolders
<1>4. bond + 1 \in Version
  BY <1>2 DEF Version
<1>5. \A i \in DOMAIN told : told[i] \in Users
  BY <1>3
<1>6. \A i \in DOMAIN told : todo[i] \in Event
  BY <1>4, <1>5 DEF Tell, Event, ChangeTopics
<1>7. todo \in Seq(Event)
  BY <1>3, <1>6
<1>. HIDE DEF todo
<1>8. begun \in Writer /\ begun.op = "bond" /\ begun.user = Nobody
  BY <1>7 DEF Writing, Writer, Ops
<1>9. writer' = [writer EXCEPT ![w] = begun]
  BY <1>1 DEF todo
<1>. HIDE DEF begun
<1>10. writer' \in [Writers -> Writer] /\ writer'[w] = begun
       /\ \A v \in Writers : v # w => writer'[v] = writer[v]
  BY <1>8, <1>9 DEF TypeInv, CacheTypeOK
<1>11. CacheTypeOK'
  <2>1. running' \in BOOLEAN
    BY <1>2 DEF TypeInv, CacheTypeOK
  <2>. QED
    BY <1>2, <1>10, <2>1 DEF TypeInv, CacheTypeOK
<1>12. Counted'
  <2>1. \A u \in Users : ledger'[u] <= changes' + 1
    BY <1>2 DEF TypeInv, CacheTypeOK, Counted, Version
  <2>2. bond' <= changes' /\ (lock' # Nobody => bond' < changes')
    BY <1>2
  <2>3. \A v \in Writers : writer'[v].op = "bond" <=> lock' = v
    BY <1>2, <1>8, <1>10 DEF TypeInv, Counted, AnalyticsCacheAssumption
  <2>4. \A v \in Writers : writer'[v].op = "bond" => writer'[v].user = Nobody
    BY <1>8, <1>10 DEF TypeInv, Counted
  <2>. QED
    BY <2>1, <2>2, <2>3, <2>4 DEF Counted
<1>. QED
  BY <1>11, <1>12 DEF TypeInv

(* The portfolio service commits a transaction. *)
LEMMA WriteTransactionTypes ==
  ASSUME AnalyticsCacheAssumption, TypeInv, NEW w \in Writers, NEW op \in Ops,
         NEW u \in Users, WriteTransaction(w, op, u)
  PROVE  TypeInv'
<1>. DEFINE begun == Writing(op, u, Announced(op, u))
<1>1. /\ op \in {"add", "amend"} /\ changes < MaxChanges /\ changes' = changes + 1
      /\ changes \in Nat /\ MaxChanges \in Nat
      /\ ledger[u] \in Nat /\ ledger[u] <= changes + 1
      /\ ledger' = [ledger EXCEPT ![u] = @ + 1]
      /\ writer' = [writer EXCEPT ![w] = begun]
      /\ writer[w].op = "none"
      /\ UNCHANGED <<running, bond, lock, queue, recalc, reader, cache>>
  <2>1. /\ op \in {"add", "amend"} /\ changes < MaxChanges /\ changes' = changes + 1
        /\ ledger' = [ledger EXCEPT ![u] = IF CommitsFirst(op) THEN @ + 1 ELSE @]
        /\ writer' = [writer EXCEPT ![w] = begun]
        /\ writer[w].op = "none"
        /\ UNCHANGED <<running, bond, lock, queue, recalc, reader, cache>>
    BY DEF WriteTransaction
  <2>2. CommitsFirst(op)
    BY <2>1 DEF CommitsFirst
  <2>3. ledger' = [ledger EXCEPT ![u] = @ + 1]
    BY <2>1, <2>2
  <2>4. /\ changes \in Nat /\ MaxChanges \in Nat
        /\ ledger[u] \in Nat /\ ledger[u] <= changes + 1
    BY DEF TypeInv, CacheTypeOK, Counted, Version, AnalyticsCacheAssumption
  <2>. QED
    BY <2>1, <2>3, <2>4
<1>2. ledger[u] + 1 \in Version
  BY <1>1 DEF Version
<1>3. begun \in Writer /\ begun.op = op
  BY <1>2, AnnouncedEvents DEF Writing, Writer
<1>. HIDE DEF begun
<1>4. /\ writer' \in [Writers -> Writer]
      /\ writer'[w] = begun /\ \A v \in Writers : v # w => writer'[v] = writer[v]
  BY <1>1, <1>3 DEF TypeInv, CacheTypeOK
<1>5. CacheTypeOK'
  <2>1. running' \in BOOLEAN
    BY <1>1 DEF TypeInv, CacheTypeOK
  <2>2. ledger' \in [Users -> Version]
    BY <1>1, <1>2 DEF TypeInv, CacheTypeOK
  <2>. QED
    BY <1>1, <1>4, <2>1, <2>2 DEF TypeInv, CacheTypeOK
<1>6. \A v \in Users : ledger'[v] <= changes' + 1
  BY <1>1 DEF TypeInv, CacheTypeOK, Counted, Version, AnalyticsCacheAssumption
<1>7. Counted'
  BY <1>1, <1>3, <1>4, <1>6 DEF TypeInv, CacheTypeOK, Counted, Ops, Version, AnalyticsCacheAssumption
<1>. QED
  BY <1>5, <1>7 DEF TypeInv

(* An event gets onto its queue, which had room for it. *)
LEMMA PublishTypes ==
  ASSUME AnalyticsCacheAssumption, TypeInv, NEW w \in Writers, Publish(w)
  PROVE  TypeInv'
<1>. DEFINE event == Head(writer[w].todo)
            after == [writer[w] EXCEPT !.todo = Tail(@), !.inside = FALSE]
<1>1. /\ writer[w] \in Writer /\ writer[w].todo \in Seq(Event) /\ writer[w].todo # <<>>
      /\ QueueCap \in Nat
  BY DEF Publish, TypeInv, CacheTypeOK, Writer, AnalyticsCacheAssumption
<1>2. event \in Event /\ event.topic \in ChangeTopics /\ Tail(writer[w].todo) \in Seq(Event)
  <2>1. event \in Event /\ Tail(writer[w].todo) \in Seq(Event)
    BY <1>1, HeadTailProperties
  <2>. QED
    BY <2>1 DEF Event
<1>3. /\ after \in Writer /\ after.op = writer[w].op /\ after.user = writer[w].user
  BY <1>1, <1>2 DEF Writer
<1>4. /\ writer' = [writer EXCEPT ![w] = after]
      /\ Len(queue[event.topic]) < QueueCap
      /\ queue' = [queue EXCEPT ![event.topic] = Append(@, event)]
      /\ UNCHANGED <<running, ledger, bond, lock, recalc, reader, cache, changes>>
  BY DEF Publish, HasRoom
<1>. HIDE DEF event, after
<1>5. /\ queue' \in [ChangeTopics -> Seq(Event)]
      /\ \A t \in ChangeTopics : Len(queue'[t]) <= QueueCap
  BY <1>1, <1>2, <1>4 DEF TypeInv, CacheTypeOK
<1>6. /\ writer' \in [Writers -> Writer]
      /\ \A v \in Writers : writer'[v].op = writer[v].op /\ writer'[v].user = writer[v].user
  BY <1>3, <1>4 DEF TypeInv, CacheTypeOK
<1>7. running' \in BOOLEAN
  BY <1>4 DEF TypeInv, CacheTypeOK
<1>8. CacheTypeOK'
  BY <1>4, <1>5, <1>6, <1>7 DEF TypeInv, CacheTypeOK
<1>9. Counted'
  BY <1>4, <1>6 DEF TypeInv, Counted
<1>. QED
  BY <1>8, <1>9 DEF TypeInv

(* publish() finds the bus running. *)
LEMMA EnterTypes ==
  ASSUME AnalyticsCacheAssumption, TypeInv, NEW w \in Writers, Enter(w)
  PROVE  TypeInv'
<1>1. /\ writer' = [writer EXCEPT ![w].inside = TRUE]
      /\ UNCHANGED <<running, ledger, bond, lock, queue, recalc, reader, cache, changes>>
  BY DEF Enter
<1>2. /\ writer' \in [Writers -> Writer]
      /\ \A v \in Writers : writer'[v].op = writer[v].op /\ writer'[v].user = writer[v].user
  <2>. DEFINE after == [writer[w] EXCEPT !.inside = TRUE]
  <2>1. writer[w] \in Writer /\ writer \in [Writers -> Writer]
    BY DEF TypeInv, CacheTypeOK
  <2>2. after \in Writer /\ after.op = writer[w].op /\ after.user = writer[w].user
    BY <2>1 DEF Writer
  <2>3. writer' = [writer EXCEPT ![w] = after]
    BY <1>1
  <2>. HIDE DEF after
  <2>. QED
    BY <2>1, <2>2, <2>3
<1>3. running' \in BOOLEAN
  BY <1>1 DEF TypeInv, CacheTypeOK
<1>4. CacheTypeOK'
  BY <1>1, <1>2, <1>3 DEF TypeInv, CacheTypeOK
<1>5. Counted'
  BY <1>1, <1>2 DEF TypeInv, Counted
<1>. QED
  BY <1>4, <1>5 DEF TypeInv

(* A writer that is done is idle, and holds the lock no more. *)
LEMMA WriterDone ==
  ASSUME AnalyticsCacheAssumption, TypeInv, NEW w \in Writers,
         lock' = ReleasedBy(w), writer' = [writer EXCEPT ![w] = IdleWriter]
  PROVE  /\ lock' \in Writers \cup {Nobody}
         /\ lock' # Nobody => lock' = lock /\ writer[w].op # "bond"
         /\ writer' \in [Writers -> Writer]
         /\ \A v \in Writers : writer'[v] = writer[v] \/ writer'[v] = IdleWriter
         /\ \A v \in Writers : writer'[v].op = "bond" <=> lock' = v
         /\ \A v \in Writers : writer'[v].op = "bond" => writer'[v].user = Nobody
<1>1. IdleWriter \in Writer /\ IdleWriter.op = "none"
  BY DEF IdleWriter, Writing, Writer
<1>2. /\ writer' \in [Writers -> Writer]
      /\ writer'[w] = IdleWriter /\ \A v \in Writers : v # w => writer'[v] = writer[v]
  BY <1>1 DEF TypeInv, CacheTypeOK
<1>3. lock \in Writers \cup {Nobody}
  BY DEF TypeInv, CacheTypeOK
<1>4. /\ lock' = IF lock = w THEN Nobody ELSE lock
      /\ \A v \in Writers : writer[v].op = "bond" <=> lock = v
      /\ \A v \in Writers : writer[v].op = "bond" => writer[v].user = Nobody
  BY DEF ReleasedBy, TypeInv, Counted
<1>5. Nobody \notin Writers
  BY DEF AnalyticsCacheAssumption
<1>. QED
  BY <1>1, <1>2, <1>3, <1>4, <1>5

(* A call fails. *)
LEMMA CallFailsTypes ==
  ASSUME AnalyticsCacheAssumption, TypeInv, NEW w \in Writers, CallFails(w)
  PROVE  TypeInv'
<1>1. /\ lock' = ReleasedBy(w) /\ writer' = [writer EXCEPT ![w] = IdleWriter]
      /\ UNCHANGED <<running, ledger, bond, queue, recalc, reader, cache, changes>>
  BY DEF CallFails
<1>2. running' \in BOOLEAN
  BY <1>1 DEF TypeInv, CacheTypeOK
<1>3. CacheTypeOK'
  BY <1>1, <1>2, WriterDone DEF TypeInv, CacheTypeOK
<1>4. Counted'
  BY <1>1, WriterDone DEF TypeInv, Counted
<1>. QED
  BY <1>3, <1>4 DEF TypeInv

(* Only the call that changes the bond commits when it returns. *)
LEMMA FinishCommits ==
  ASSUME AnalyticsCacheAssumption, TypeInv, NEW w \in Writers, Finish(w)
  PROVE  /\ ledger' = ledger
         /\ bond' = IF writer[w].op = "bond" THEN bond + 1 ELSE bond
<1>1. /\ bond' = IF writer[w].op = "bond" THEN bond + 1 ELSE bond
      /\ ledger' = [u \in Users |-> IF u = writer[w].user /\ ~CommitsFirst(writer[w].op)
                                    THEN ledger[u] + 1 ELSE ledger[u]]
  BY DEF Finish
<1>2. \A u \in Users : ~(u = writer[w].user /\ ~CommitsFirst(writer[w].op))
  BY DEF CommitsFirst, TypeInv, Counted, AnalyticsCacheAssumption
<1>3. ledger \in [Users -> Version]
  BY DEF TypeInv, CacheTypeOK
<1>. QED
  BY <1>1, <1>2, <1>3

(* The call returns. *)
LEMMA FinishTypes ==
  ASSUME AnalyticsCacheAssumption, TypeInv, NEW w \in Writers, Finish(w)
  PROVE  TypeInv'
<1>1. /\ lock' = ReleasedBy(w) /\ writer' = [writer EXCEPT ![w] = IdleWriter]
      /\ UNCHANGED <<running, queue, recalc, reader, cache, changes>>
  BY DEF Finish
<1>2. /\ bond \in Nat /\ changes \in Nat /\ changes <= MaxChanges /\ MaxChanges \in Nat
      /\ bond <= changes
      /\ lock # Nobody => bond < changes
      /\ writer[w].op = "bond" => lock = w /\ lock # Nobody
  BY DEF TypeInv, CacheTypeOK, Counted, Version, AnalyticsCacheAssumption
<1>3. /\ bond' \in Version /\ bond' <= changes'
      /\ lock' # Nobody => bond' < changes'
  <2>1. CASE writer[w].op = "bond"
    <3>1. bond' = bond + 1 /\ changes' = changes /\ lock' = Nobody /\ bond < changes
      BY <1>1, <1>2, <2>1, FinishCommits, WriterDone
    <3>. QED
      BY <1>2, <3>1 DEF Version
  <2>2. CASE writer[w].op # "bond"
    <3>1. bond' = bond /\ changes' = changes /\ (lock' # Nobody => lock' = lock)
      BY <1>1, <2>2, FinishCommits, WriterDone
    <3>. QED
      BY <1>2, <3>1 DEF Version
  <2>. QED
    BY <2>1, <2>2
<1>4. running' \in BOOLEAN
  BY <1>1 DEF TypeInv, CacheTypeOK
<1>5. CacheTypeOK'
  BY <1>1, <1>3, <1>4, FinishCommits, WriterDone DEF TypeInv, CacheTypeOK
<1>6. Counted'
  BY <1>1, <1>3, FinishCommits, WriterDone DEF TypeInv, Counted
<1>. QED
  BY <1>5, <1>6 DEF TypeInv

(* An action of a dispatcher, a reader or stop() leaves the writers alone. *)
LEMMA CountedKept ==
  ASSUME TypeInv, UNCHANGED <<ledger, bond, lock, writer, changes>>
  PROVE  Counted'
BY DEF TypeInv, Counted

(* A dispatcher takes an event off its queue and begins. *)
LEMMA TakeTypes ==
  ASSUME AnalyticsCacheAssumption, TypeInv, NEW t \in ChangeTopics, Take(t)
  PROVE  TypeInv'
<1>. DEFINE event == Head(queue[t])
            begun == Started(event.user, event.change)
<1>1. /\ queue[t] \in Seq(Event) /\ queue[t] # <<>> /\ Len(queue[t]) <= QueueCap
      /\ QueueCap \in Nat
      /\ recalc' = [recalc EXCEPT ![t] = begun]
      /\ queue' = [queue EXCEPT ![t] = Tail(@)]
      /\ UNCHANGED <<running, ledger, bond, lock, writer, reader, cache, changes>>
  BY DEF Take, TypeInv, CacheTypeOK, AnalyticsCacheAssumption
<1>2. event \in Event /\ Tail(queue[t]) \in Seq(Event)
  BY <1>1, HeadTailProperties
<1>3. event.user \in Users /\ event.change \in Version
  BY <1>2 DEF Event
<1>4. begun \in Work
  BY <1>3, StartedIsWork
<1>. HIDE DEF event, begun
<1>5. Len(Tail(queue[t])) <= QueueCap
  BY <1>1, HeadTailProperties
<1>6. running' \in BOOLEAN
  BY <1>1 DEF TypeInv, CacheTypeOK
<1>7. CacheTypeOK'
  BY <1>1, <1>2, <1>4, <1>5, <1>6 DEF TypeInv, CacheTypeOK
<1>. QED
  BY <1>1, <1>7, CountedKept DEF TypeInv

(* A recalculation reads. *)
LEMMA RecalculateTypes ==
  ASSUME AnalyticsCacheAssumption, TypeInv, NEW t \in ChangeTopics, Recalculate(t)
  PROVE  TypeInv'
<1>1. UNCHANGED <<running, ledger, bond, lock, writer, queue, reader, cache, changes>>
  BY DEF Recalculate
<1>2. recalc[t] \in Work /\ recalc \in [ChangeTopics -> Work \cup {NoWork}]
  BY WorkGoesOn DEF Recalculate, TypeInv, CacheTypeOK
<1>3. recalc' \in [ChangeTopics -> Work \cup {NoWork}]
  BY <1>2, HalfReadIsWork, AllReadIsWork DEF Recalculate
<1>4. running' \in BOOLEAN
  BY <1>1 DEF TypeInv, CacheTypeOK
<1>5. CacheTypeOK'
  BY <1>1, <1>3, <1>4 DEF TypeInv, CacheTypeOK
<1>. QED
  BY <1>1, <1>5, CountedKept DEF TypeInv

(* A recalculation ends, with its summary stored or without. *)
LEMMA StoreTypes ==
  ASSUME AnalyticsCacheAssumption, TypeInv, NEW t \in ChangeTopics,
         Store(t) \/ RecalculationFails(t)
  PROVE  TypeInv'
<1>1. /\ recalc' = [recalc EXCEPT ![t] = NoWork]
      /\ UNCHANGED <<running, ledger, bond, lock, writer, queue, reader, changes>>
  BY DEF Store, RecalculationFails
<1>2. recalc[t] \in Work
  BY WorkGoesOn DEF Store, RecalculationFails, TypeInv, CacheTypeOK
<1>3. cache' \in [Users -> Summary \cup {NoSummary}]
  BY <1>2 DEF Store, RecalculationFails, TypeInv, CacheTypeOK, Work
<1>4. running' \in BOOLEAN
  BY <1>1 DEF TypeInv, CacheTypeOK
<1>5. CacheTypeOK'
  BY <1>1, <1>3, <1>4 DEF TypeInv, CacheTypeOK
<1>. QED
  BY <1>1, <1>5, CountedKept DEF TypeInv

(* A reader misses and computes a summary of its own. *)
LEMMA ReadTypes ==
  ASSUME AnalyticsCacheAssumption, TypeInv, NEW r \in Readers,
         Compute(r) \/ \E u \in Users : Miss(r, u)
  PROVE  TypeInv'
<1>1. UNCHANGED <<running, ledger, bond, lock, writer, queue, recalc, cache, changes>>
  BY DEF Compute, Miss
<1>2. reader' \in [Readers -> Work \cup {NoWork}]
  <2>1. CASE Compute(r)
    <3>1. reader[r] \in Work /\ reader \in [Readers -> Work \cup {NoWork}]
      BY <2>1, WorkGoesOn DEF Compute, TypeInv, CacheTypeOK
    <3>. QED
      BY <2>1, <3>1, HalfReadIsWork, AllReadIsWork DEF Compute
  <2>2. ASSUME NEW u \in Users, Miss(r, u)
        PROVE  reader' \in [Readers -> Work \cup {NoWork}]
    <3>1. 0 \in Version
      BY DEF Version, AnalyticsCacheAssumption
    <3>2. Started(u, 0) \in Work
      BY <3>1, StartedIsWork
    <3>. QED
      BY <2>2, <3>2 DEF Miss, TypeInv, CacheTypeOK
  <2>. QED
    BY <2>1, <2>2
<1>3. running' \in BOOLEAN
  BY <1>1 DEF TypeInv, CacheTypeOK
<1>4. CacheTypeOK'
  BY <1>1, <1>2, <1>3 DEF TypeInv, CacheTypeOK
<1>. QED
  BY <1>1, <1>4, CountedKept DEF TypeInv

(* A reader stores what it computed. *)
LEMMA FillTypes ==
  ASSUME AnalyticsCacheAssumption, TypeInv, NEW r \in Readers, Fill(r)
  PROVE  TypeInv'
<1>1. /\ reader' = [reader EXCEPT ![r] = NoWork]
      /\ cache' = [cache EXCEPT ![reader[r].user] = reader[r].seen]
      /\ UNCHANGED <<running, ledger, bond, lock, writer, queue, recalc, changes>>
  BY DEF Fill
<1>2. reader[r] \in Work
  BY WorkGoesOn DEF Fill, TypeInv, CacheTypeOK
<1>3. cache' \in [Users -> Summary \cup {NoSummary}]
  BY <1>1, <1>2 DEF TypeInv, CacheTypeOK, Work
<1>4. running' \in BOOLEAN
  BY <1>1 DEF TypeInv, CacheTypeOK
<1>5. CacheTypeOK'
  BY <1>1, <1>3, <1>4 DEF TypeInv, CacheTypeOK
<1>. QED
  BY <1>1, <1>5, CountedKept DEF TypeInv

(* The bus is stopped. *)
LEMMA StopTypes ==
  ASSUME AnalyticsCacheAssumption, TypeInv, Stop
  PROVE  TypeInv'
<1>1. /\ running' \in BOOLEAN
      /\ queue' = [t \in ChangeTopics |-> <<>>] /\ recalc' = [t \in ChangeTopics |-> NoWork]
      /\ UNCHANGED <<ledger, bond, lock, writer, reader, cache, changes>>
  BY DEF Stop
<1>2. /\ queue' \in [ChangeTopics -> Seq(Event)]
      /\ \A t \in ChangeTopics : Len(queue'[t]) <= QueueCap
  BY <1>1 DEF AnalyticsCacheAssumption
<1>3. CacheTypeOK'
  BY <1>1, <1>2 DEF TypeInv, CacheTypeOK
<1>. QED
  BY <1>1, <1>3, CountedKept DEF TypeInv

(* The types hold when the process starts. *)
LEMMA InitTypes ==
  ASSUME AnalyticsCacheAssumption, Init
  PROVE  TypeInv
<1>1. IdleWriter \in Writer /\ IdleWriter.op = "none"
  BY DEF IdleWriter, Writing, Writer
<1>2. {0, 1} \subseteq Version
  BY DEF Version, AnalyticsCacheAssumption
<1>3. running \in BOOLEAN
  BY DEF Init
<1>4. CacheTypeOK
  BY <1>1, <1>2, <1>3 DEF Init, CacheTypeOK, AnalyticsCacheAssumption
<1>5. Counted
  BY <1>1 DEF Init, Counted, AnalyticsCacheAssumption
<1>. QED
  BY <1>4, <1>5 DEF TypeInv

(* Each step of the program preserves the types. *)
LEMMA StepTypes ==
  ASSUME AnalyticsCacheAssumption, TypeInv, [Next]_vars
  PROVE  TypeInv'
<1>1. CASE UNCHANGED vars
  BY <1>1 DEF vars, TypeInv, CacheTypeOK, Counted
<1>2. ASSUME NEW w \in Writers, WriterEnds(w)
      PROVE  TypeInv'
  BY <1>2, PublishTypes, EnterTypes, CallFailsTypes, FinishTypes DEF WriterEnds
<1>3. ASSUME NEW t \in ChangeTopics, DispatcherStep(t)
      PROVE  TypeInv'
  BY <1>3, TakeTypes, RecalculateTypes, StoreTypes DEF DispatcherStep
<1>4. ASSUME NEW r \in Readers, ReaderEnds(r) \/ \E u \in Users : Miss(r, u)
      PROVE  TypeInv'
  BY <1>4, ReadTypes, FillTypes DEF ReaderEnds
<1>. QED
  BY <1>1, <1>2, <1>3, <1>4, BeginBondTypes, WriteTransactionTypes, StopTypes DEF Next

(* The inductive invariant of the types. *)
THEOREM TypeInvHolds == Spec => []TypeInv
<1>1. Init => TypeInv
  BY AnalyticsCacheAssumption, InitTypes
<1>2. TypeInv /\ [Next]_vars => TypeInv'
  BY AnalyticsCacheAssumption, StepTypes
<1>. QED
  BY <1>1, <1>2, PTL DEF Spec

(* Every queue holds events of known users and versions and no more than   *)
(* its limit, although publishers add to it whenever there is room.        *)
THEOREM TypeCorrect == Spec => []CacheTypeOK
<1>1. TypeInv => CacheTypeOK
  BY DEF TypeInv
<1>. QED
  BY <1>1, TypeInvHolds, PTL

-----------------------------------------------------------------------------
(* A recalculation sees the transaction change it was told of, because an  *)
(* event that is on its way, whatever its topic but bond.updated, tells of *)
(* a change that is committed, and the ledger only grows.                  *)

(* The change an event tells of is committed. *)
Vouched(event) == event.topic # "bond.updated" => event.change <= ledger[event.user]

(* A recalculation for a transaction's change: it can be seen, or has been. *)
Recent(work) ==
    work.pc # "idle" => /\ work.change <= ledger[work.user]
                        /\ work.pc \in {"half", "computed"} => work.change <= work.seen.ledger

TodoVouched == \A w \in Writers : \A i \in DOMAIN writer[w].todo : Vouched(writer[w].todo[i])
QueueVouched ==
    \A t \in ChangeTopics : \A i \in DOMAIN queue[t] :
        queue[t][i].topic = t /\ Vouched(queue[t][i])
WorkRecent == \A t \in ChangeTopics \ {"bond.updated"} : Recent(recalc[t])

RecentInv == TodoVouched /\ QueueVouched /\ WorkRecent

(* No step takes a committed change back. *)
LEMMA LedgerGrows ==
  ASSUME AnalyticsCacheAssumption, TypeInv, [Next]_vars
  PROVE  \A u \in Users : ledger[u] \in Nat /\ ledger'[u] \in Nat /\ ledger[u] <= ledger'[u]
<1>1. \A u \in Users : ledger[u] \in Nat
  BY DEF TypeInv, CacheTypeOK, Version
<1>2. TypeInv'
  BY StepTypes
<1>3. \A u \in Users : ledger'[u] \in Nat
  BY <1>2 DEF TypeInv, CacheTypeOK, Version
<1>4. ASSUME NEW w \in Writers, NEW op \in Ops, NEW v \in Users, WriteTransaction(w, op, v)
      PROVE  \A u \in Users : ledger[u] <= ledger'[u]
  BY <1>1, <1>4 DEF WriteTransaction, TypeInv, CacheTypeOK
<1>5. ASSUME NEW w \in Writers, Finish(w)
      PROVE  ledger' = ledger
  BY <1>5, FinishCommits
<1>6. \/ ledger' = ledger
      \/ \E w \in Writers, op \in Ops, v \in Users : WriteTransaction(w, op, v)
  BY <1>5 DEF Next, vars, WriterEnds, DispatcherStep, ReaderEnds, BeginBond, Publish, Enter,
              CallFails, Take, Recalculate, Store, RecalculationFails, Miss, Compute, Fill, Stop
<1>. QED
  BY <1>1, <1>3, <1>4, <1>6

(* So an event stays true while it waits. *)
LEMMA StillVouched ==
  ASSUME AnalyticsCacheAssumption, TypeInv, [Next]_vars
  PROVE  \A event \in Event : Vouched(event) => Vouched(event)'
BY LedgerGrows DEF Vouched, Event, Version

(* What a writer has yet to publish it either had before, or the events    *)
(* are new: a bond's, or those of a change that is committed with them.    *)
LEMMA TodoStep ==
  ASSUME AnalyticsCacheAssumption, TypeInv, TodoVouched, [Next]_vars
  PROVE  TodoVouched'
<1>1. \A w \in Writers : writer[w] \in Writer /\ writer[w].todo \in Seq(Event)
  BY DEF TypeInv, CacheTypeOK, Writer
<1>2. \A event \in Event : Vouched(event) => Vouched(event)'
  BY StillVouched
<1>. SUFFICES ASSUME NEW v \in Writers, NEW i \in DOMAIN writer'[v].todo
     PROVE  \E event \in Event : event = writer'[v].todo[i] /\ Vouched(event)'
  BY DEF TodoVouched, Vouched
<1>. DEFINE Had == \E j \in DOMAIN writer[v].todo : writer'[v].todo[i] = writer[v].todo[j]
            Goal == \E event \in Event : event = writer'[v].todo[i] /\ Vouched(event)'
<1>3. CASE Had
  <2>1. PICK j \in DOMAIN writer[v].todo : writer'[v].todo[i] = writer[v].todo[j]
    BY <1>3
  <2>2. writer[v].todo[j] \in Event /\ Vouched(writer[v].todo[j])
    BY <1>1 DEF TodoVouched
  <2>. QED
    BY <1>2, <2>1, <2>2
<1>4. ASSUME NEW w \in Writers, BeginBond(w)
      PROVE  Had \/ Goal
  <2>1. PICK told \in SetToSeqs({u \in Users : ledger[u] > 0}) :
          writer' = [writer EXCEPT ![w] = Writing("bond", Nobody,
             [k \in DOMAIN told |-> Tell("bond.updated", told[k], bond + 1)])]
    BY <1>4 DEF BeginBond
  <2>2. told \in Seq(Users) /\ bond + 1 \in Version
    <3>1. told \in Seq(Users)
      BY OrderOfHolders
    <3>2. bond + 1 \in Version
      BY <1>4 DEF BeginBond, TypeInv, CacheTypeOK, Counted, Version, AnalyticsCacheAssumption
    <3>. QED
      BY <3>1, <3>2
  <2>3. CASE v # w
    BY <2>1, <2>3 DEF TypeInv, CacheTypeOK
  <2>4. CASE v = w
    <3>1. writer'[v].todo = [k \in DOMAIN told |-> Tell("bond.updated", told[k], bond + 1)]
      BY <2>1, <2>4 DEF Writing, TypeInv, CacheTypeOK
    <3>2. writer'[v].todo[i] = Tell("bond.updated", told[i], bond + 1) /\ told[i] \in Users
      BY <2>2, <3>1
    <3>. QED
      BY <2>2, <3>2 DEF Tell, Event, ChangeTopics, Vouched
  <2>. QED
    BY <2>3, <2>4
<1>5. ASSUME NEW w \in Writers, NEW op \in Ops, NEW u \in Users, WriteTransaction(w, op, u)
      PROVE  Had \/ Goal
  <2>1. /\ writer' = [writer EXCEPT ![w] = Writing(op, u, Announced(op, u))]
        /\ ledger' = [ledger EXCEPT ![u] = @ + 1]
    BY <1>5 DEF WriteTransaction, CommitsFirst
  <2>2. ledger[u] + 1 \in Version /\ ledger'[u] = ledger[u] + 1
    BY <1>5, <2>1 DEF WriteTransaction, TypeInv, CacheTypeOK, Counted, Version,
                      AnalyticsCacheAssumption
  <2>3. CASE v # w
    BY <2>1, <2>3 DEF TypeInv, CacheTypeOK
  <2>4. CASE v = w
    <3>1. writer'[v].todo = Announced(op, u)
      BY <2>1, <2>4 DEF Writing, TypeInv, CacheTypeOK
    <3>2. /\ writer'[v].todo[i] \in Event
          /\ writer'[v].todo[i].user = u /\ writer'[v].todo[i].change = ledger[u] + 1
      BY <2>2, <3>1, AnnouncedEvents
    <3>3. ledger[u] + 1 \in Nat
      BY <2>2 DEF Version
    <3>. QED
      BY <2>2, <3>2, <3>3 DEF Vouched
  <2>. QED
    BY <2>3, <2>4
<1>6. ASSUME NEW w \in Writers, Publish(w)
      PROVE  Had
  <2>1. /\ writer[w].todo # <<>>
        /\ writer' = [writer EXCEPT ![w].todo = Tail(@), ![w].inside = FALSE]
    BY <1>6 DEF Publish
  <2>2. CASE v # w
    BY <2>1, <2>2 DEF TypeInv, CacheTypeOK
  <2>3. CASE v = w
    <3>1. writer'[v].todo = Tail(writer[v].todo)
      BY <1>1, <2>1, <2>3 DEF TypeInv, CacheTypeOK, Writer
    <3>2. i + 1 \in DOMAIN writer[v].todo /\ Tail(writer[v].todo)[i] = writer[v].todo[i + 1]
      <4>1. /\ writer[v].todo \in Seq(Event) /\ writer[v].todo # <<>>
            /\ i \in DOMAIN Tail(writer[v].todo)
        BY <1>1, <2>1, <2>3, <3>1
      <4>. QED
        BY <4>1, HeadTailProperties
    <3>. QED
      BY <3>1, <3>2
  <2>. QED
    BY <2>2, <2>3
<1>7. ASSUME NEW w \in Writers, Enter(w)
      PROVE  Had
  <2>1. writer'[v].todo = writer[v].todo
    BY <1>1, <1>7 DEF Enter, TypeInv, CacheTypeOK, Writer
  <2>. QED
    BY <2>1
<1>8. ASSUME NEW w \in Writers, CallFails(w) \/ Finish(w)
      PROVE  Had
  <2>1. writer' = [writer EXCEPT ![w] = IdleWriter]
    BY <1>8 DEF CallFails, Finish
  <2>2. CASE v # w
    BY <2>1, <2>2 DEF TypeInv, CacheTypeOK
  <2>3. CASE v = w
    <3>1. writer'[v].todo = <<>>
      BY <2>1, <2>3 DEF TypeInv, CacheTypeOK, IdleWriter, Writing
    <3>. QED
      BY <3>1
  <2>. QED
    BY <2>2, <2>3
<1>9. ASSUME writer' = writer
      PROVE  Had
  BY <1>9
<1>10. \/ writer' = writer
       \/ \E w \in Writers : \/ BeginBond(w) \/ Publish(w) \/ Enter(w) \/ CallFails(w) \/ Finish(w)
                             \/ \E op \in Ops, u \in Users : WriteTransaction(w, op, u)
  BY DEF Next, vars, WriterEnds, DispatcherStep, ReaderEnds, Take, Recalculate, Store,
         RecalculationFails, Miss, Compute, Fill, Stop
<1>. QED
  BY <1>3, <1>4, <1>5, <1>6, <1>7, <1>8, <1>9, <1>10

(* What a topic's queue holds it either held before, or a writer had it to *)
(* publish.                                                                *)
LEMMA QueueStep ==
  ASSUME AnalyticsCacheAssumption, TypeInv, TodoVouched, QueueVouched, [Next]_vars
  PROVE  QueueVouched'
<1>1. \A w \in Writers : writer[w].todo \in Seq(Event)
  BY DEF TypeInv, CacheTypeOK, Writer
<1>2. \A t \in ChangeTopics : queue[t] \in Seq(Event)
  BY DEF TypeInv, CacheTypeOK
<1>3. \A event \in Event : Vouched(event) => Vouched(event)'
  BY StillVouched
<1>. SUFFICES ASSUME NEW s \in ChangeTopics, NEW i \in DOMAIN queue'[s]
     PROVE  \E event \in Event : event = queue'[s][i] /\ event.topic = s /\ Vouched(event)'
  BY DEF QueueVouched, Vouched
<1>. DEFINE Had == \E j \in DOMAIN queue[s] : queue'[s][i] = queue[s][j]
            Goal == \E event \in Event : event = queue'[s][i] /\ event.topic = s /\ Vouched(event)'
<1>4. CASE Had
  <2>1. PICK j \in DOMAIN queue[s] : queue'[s][i] = queue[s][j]
    BY <1>4
  <2>2. queue[s][j] \in Event /\ queue[s][j].topic = s /\ Vouched(queue[s][j])
    BY <1>2 DEF QueueVouched
  <2>. QED
    BY <1>3, <2>1, <2>2
<1>5. ASSUME NEW w \in Writers, Publish(w)
      PROVE  Had \/ Goal
  <2>. DEFINE event == Head(writer[w].todo)
  <2>1. /\ writer[w].todo # <<>>
        /\ queue' = [queue EXCEPT ![event.topic] = Append(@, event)]
    BY <1>5 DEF Publish
  <2>2. event \in Event /\ Vouched(event)
    <3>1. event \in Event /\ event = writer[w].todo[1] /\ 1 \in DOMAIN writer[w].todo
      BY <1>1, <2>1, HeadTailProperties
    <3>. QED
      BY <3>1 DEF TodoVouched
  <2>. HIDE DEF event
  <2>3. CASE s # event.topic
    BY <2>1, <2>3 DEF TypeInv, CacheTypeOK
  <2>4. CASE s = event.topic
    <3>1. queue'[s] = Append(queue[s], event)
      BY <2>1, <2>4 DEF TypeInv, CacheTypeOK
    <3>2. (i \in DOMAIN queue[s] /\ queue'[s][i] = queue[s][i]) \/ queue'[s][i] = event
      BY <1>2, <2>2, <3>1, AppendProperties
    <3>. QED
      BY <1>3, <2>2, <2>4, <3>2
  <2>. QED
    BY <2>3, <2>4
<1>6. ASSUME NEW t \in ChangeTopics, Take(t)
      PROVE  Had
  <2>1. queue[t] # <<>> /\ queue' = [queue EXCEPT ![t] = Tail(@)]
    BY <1>6 DEF Take
  <2>2. CASE s # t
    BY <2>1, <2>2 DEF TypeInv, CacheTypeOK
  <2>3. CASE s = t
    <3>1. queue[s] \in Seq(Event) /\ queue[s] # <<>> /\ queue'[s] = Tail(queue[s])
      BY <1>2, <2>1, <2>3 DEF TypeInv, CacheTypeOK
    <3>2. i + 1 \in DOMAIN queue[s] /\ Tail(queue[s])[i] = queue[s][i + 1]
      BY <3>1, HeadTailProperties
    <3>. QED
      BY <3>1, <3>2
  <2>. QED
    BY <2>2, <2>3
<1>7. ASSUME Stop
      PROVE  Had
  <2>1. queue'[s] = <<>>
    BY <1>7 DEF Stop
  <2>. QED
    BY <2>1
<1>8. ASSUME queue' = queue
      PROVE  Had
  BY <1>8
<1>9. \/ queue' = queue \/ Stop
      \/ \E w \in Writers : Publish(w)
      \/ \E t \in ChangeTopics : Take(t)
  BY DEF Next, vars, WriterEnds, DispatcherStep, ReaderEnds, BeginBond, WriteTransaction, Enter,
         CallFails, Finish, Recalculate, Store, RecalculationFails, Miss, Compute, Fill
<1>. QED
  BY <1>4, <1>5, <1>6, <1>7, <1>8, <1>9

(* A dispatcher begins with a change that is committed, so its first read  *)
(* finds it.                                                               *)
LEMMA WorkStep ==
  ASSUME AnalyticsCacheAssumption, TypeInv, QueueVouched, WorkRecent, [Next]_vars
  PROVE  WorkRecent'
<1>. SUFFICES ASSUME NEW s \in ChangeTopics, s # "bond.updated"
     PROVE  Recent(recalc[s])'
  BY DEF WorkRecent
<1>1. /\ recalc \in [ChangeTopics -> Work \cup {NoWork}] /\ Recent(recalc[s])
      /\ NoWork.pc = "idle"
  BY DEF TypeInv, CacheTypeOK, WorkRecent, NoWork
<1>2. \A u \in Users : ledger[u] \in Nat /\ ledger'[u] \in Nat /\ ledger[u] <= ledger'[u]
  BY LedgerGrows
<1>3. ASSUME recalc'[s] = recalc[s]
      PROVE  Recent(recalc[s])'
  <2>1. CASE recalc[s].pc = "idle"
    BY <1>3, <2>1 DEF Recent
  <2>2. CASE recalc[s].pc # "idle"
    <3>1. recalc[s] \in Work
      BY <1>1, <2>2
    <3>2. recalc[s].user \in Users /\ recalc[s].change \in Nat
      BY <3>1 DEF Work, Version
    <3>. QED
      BY <1>1, <1>2, <1>3, <2>2, <3>2 DEF Recent
  <2>. QED
    BY <2>1, <2>2
<1>4. ASSUME recalc'[s] = NoWork
      PROVE  Recent(recalc[s])'
  BY <1>1, <1>4 DEF Recent
<1>5. ASSUME Take(s)
      PROVE  Recent(recalc[s])'
  <2>. DEFINE event == Head(queue[s])
  <2>1. /\ queue[s] \in Seq(Event) /\ queue[s] # <<>>
        /\ recalc' = [recalc EXCEPT ![s] = Started(event.user, event.change)]
        /\ ledger' = ledger
    BY <1>5 DEF Take, TypeInv, CacheTypeOK
  <2>2. event \in Event /\ event.topic = s /\ Vouched(event)
    <3>1. event \in Event /\ event = queue[s][1] /\ 1 \in DOMAIN queue[s]
      BY <2>1, HeadTailProperties
    <3>. QED
      BY <3>1 DEF QueueVouched
  <2>. HIDE DEF event
  <2>3. event.change <= ledger[event.user] /\ event.user \in Users /\ event.change \in Version
    BY <2>2 DEF Vouched, Event
  <2>4. recalc'[s] = Started(event.user, event.change)
    BY <1>1, <2>1
  <2>. QED
    BY <2>1, <2>3, <2>4, StartedIsWork DEF Recent
<1>6. ASSUME Recalculate(s)
      PROVE  Recent(recalc[s])'
  <2>1. recalc[s].pc \in {"started", "half"} /\ ledger' = ledger
    BY <1>6 DEF Recalculate
  <2>2. recalc[s] \in Work /\ recalc[s].change <= ledger[recalc[s].user]
    BY <1>1, <2>1 DEF Recent
  <2>3. CASE recalc[s].pc = "started"
    <3>1. recalc'[s] = HalfRead(recalc[s])
      BY <1>1, <1>6, <2>3 DEF Recalculate
    <3>. QED
      BY <2>1, <2>2, <3>1, HalfReadIsWork DEF Recent
  <2>4. CASE recalc[s].pc = "half"
    <3>1. recalc'[s] = AllRead(recalc[s])
      BY <1>1, <1>6, <2>4 DEF Recalculate
    <3>2. recalc[s].change <= recalc[s].seen.ledger
      BY <1>1, <2>4 DEF Recent
    <3>. QED
      BY <2>1, <2>2, <3>1, <3>2, AllReadIsWork DEF Recent
  <2>. QED
    BY <2>1, <2>3, <2>4
<1>7. ASSUME NEW t \in ChangeTopics, Take(t) \/ Recalculate(t), t # s
      PROVE  recalc'[s] = recalc[s]
  BY <1>1, <1>7 DEF Take, Recalculate
<1>8. ASSUME NEW t \in ChangeTopics, Store(t) \/ RecalculationFails(t)
      PROVE  recalc'[s] = recalc[s] \/ recalc'[s] = NoWork
  BY <1>1, <1>8 DEF Store, RecalculationFails
<1>9. ASSUME Stop
      PROVE  recalc'[s] = NoWork
  BY <1>9 DEF Stop
<1>10. \/ recalc' = recalc \/ Stop
       \/ \E t \in ChangeTopics : DispatcherStep(t)
  BY DEF Next, vars, WriterEnds, ReaderEnds, BeginBond, WriteTransaction, Publish, Enter,
         CallFails, Finish, Miss, Compute, Fill
<1>. QED
  BY <1>3, <1>4, <1>5, <1>6, <1>7, <1>8, <1>9, <1>10 DEF DispatcherStep

(* Events and recalculations tell of committed changes only.               *)
THEOREM EventsVouched == Spec => []RecentInv
<1>1. Init => RecentInv
  BY DEF Init, RecentInv, TodoVouched, QueueVouched, WorkRecent, Recent, NoWork, IdleWriter, Writing
<1>2. TypeInv /\ RecentInv /\ [Next]_vars => RecentInv'
  BY AnalyticsCacheAssumption, TodoStep, QueueStep, WorkStep DEF RecentInv
<1>. QED
  BY <1>1, <1>2, TypeInvHolds, PTL DEF Spec

(* Whatever the number of writers and the size of the queues, a            *)
(* recalculation for a transaction's change reads that change or a later   *)
(* one: recalculate() never puts into the cache what it was woken for to   *)
(* replace.                                                                *)
THEOREM RecalculationsSeeTheChange == Spec => []RecalculationIsRecent
<1>1. TypeInv /\ RecentInv => RecalculationIsRecent
  <2>. SUFFICES ASSUME TypeInv, RecentInv,
                       NEW t \in {"transaction.created", "position.updated"},
                       recalc[t].pc \in {"half", "computed"}
       PROVE  recalc[t].seen.ledger >= recalc[t].change
    BY DEF RecalculationIsRecent, TransactionTopics
  <2>1. t \in ChangeTopics \ {"bond.updated"}
    BY DEF ChangeTopics
  <2>2. recalc[t].change <= recalc[t].seen.ledger
    BY <2>1 DEF RecentInv, WorkRecent, Recent
  <2>3. recalc[t] \in Work
    BY <2>1, WorkGoesOn DEF TypeInv, CacheTypeOK
  <2>. QED
    BY <2>2, <2>3 DEF Work, Summary, Version
<1>. QED
  BY <1>1, EventsVouched, TypeInvHolds, PTL

-----------------------------------------------------------------------------
(* No change is forgotten.  The two lemmas say what a step keeps of the    *)
(* events that are owed: it hands one from a queue to a dispatcher, or     *)
(* leaves them where they are.                                             *)
LEMMA QueuedStays ==
  ASSUME AnalyticsCacheAssumption, TypeInv, NEW u \in Users, NEW n \in Nat,
         NEW t \in TransactionTopics, NEW i \in DOMAIN queue[t],
         queue[t][i].user = u, queue[t][i].change >= n,
         \A s \in ChangeTopics : recalc[s] # NoWork => recalc'[s] = recalc[s],
         \/ queue' = queue
         \/ \E w \in Writers : Publish(w)
         \/ \E s \in ChangeTopics : Take(s)
  PROVE  Owed(u, n)'
<1>1. t \in ChangeTopics /\ queue[t] \in Seq(Event)
  BY DEF TransactionTopics, ChangeTopics, TypeInv, CacheTypeOK
<1>2. SUFFICES \/ \E j \in DOMAIN queue'[t] : queue'[t][j] = queue[t][i]
               \/ /\ recalc'[t] # NoWork /\ recalc'[t].user = u
                  /\ recalc'[t].change >= n
  BY DEF Owed
<1>3. CASE queue' = queue
  BY <1>3
<1>4. ASSUME NEW w \in Writers, Publish(w)
      PROVE  \E j \in DOMAIN queue'[t] : queue'[t][j] = queue[t][i]
  <2>. DEFINE event == Head(writer[w].todo)
  <2>1. /\ writer[w].todo \in Seq(Event) /\ writer[w].todo # <<>>
        /\ queue' = [queue EXCEPT ![event.topic] = Append(@, event)]
    BY <1>4 DEF Publish, TypeInv, CacheTypeOK, Writer
  <2>2. event \in Event
    BY <2>1, HeadTailProperties
  <2>. HIDE DEF event
  <2>3. CASE event.topic # t
    BY <1>1, <2>1, <2>3 DEF TypeInv, CacheTypeOK
  <2>4. CASE event.topic = t
    <3>1. queue'[t] = Append(queue[t], event)
      BY <1>1, <2>1, <2>4 DEF TypeInv, CacheTypeOK
    <3>2. i \in DOMAIN queue'[t] /\ queue'[t][i] = queue[t][i]
      BY <1>1, <2>2, <3>1, AppendProperties
    <3>. QED
      BY <3>2
  <2>. QED
    BY <2>3, <2>4
<1>5. ASSUME NEW s \in ChangeTopics, Take(s)
      PROVE  \/ \E j \in DOMAIN queue'[t] : queue'[t][j] = queue[t][i]
             \/ /\ recalc'[t] # NoWork /\ recalc'[t].user = u
                /\ recalc'[t].change >= n
  <2>1. /\ queue[s] # <<>> /\ queue' = [queue EXCEPT ![s] = Tail(@)]
        /\ recalc' = [recalc EXCEPT ![s] = Started(Head(queue[s]).user, Head(queue[s]).change)]
    BY <1>5 DEF Take
  <2>2. CASE s # t
    BY <1>1, <2>1, <2>2 DEF TypeInv, CacheTypeOK
  <2>3. CASE s = t
    <3>. DEFINE event == Head(queue[t])
    <3>1. queue[t] # <<>> /\ queue'[t] = Tail(queue[t])
      BY <1>1, <2>1, <2>3 DEF TypeInv, CacheTypeOK
    <3>2. event \in Event /\ event = queue[t][1]
      BY <1>1, <3>1, HeadTailProperties
    <3>3. recalc'[t] = Started(event.user, event.change)
      BY <1>1, <2>1, <2>3 DEF TypeInv, CacheTypeOK
    <3>. HIDE DEF event
    <3>4. CASE i = 1
      <4>1. event.user = u /\ event.change >= n /\ event.change \in Version
        BY <3>2, <3>4 DEF Event
      <4>2. /\ recalc'[t].pc = "started"
            /\ recalc'[t].user = u /\ recalc'[t].change = event.change
        BY <3>3, <4>1, StartedIsWork
      <4>. QED
        BY <4>1, <4>2 DEF NoWork
    <3>5. CASE i # 1
      <4>1. i \in 2 .. Len(queue[t])
        BY <1>1, <3>5
      <4>2. i - 1 \in DOMAIN Tail(queue[t]) /\ Tail(queue[t])[i - 1] = queue[t][i]
        BY <1>1, <3>1, <4>1, HeadTailProperties
      <4>. QED
        BY <3>1, <4>2
    <3>. QED
      BY <3>4, <3>5
  <2>. QED
    BY <2>2, <2>3
<1>. QED
  BY <1>3, <1>4, <1>5

(* A recalculation goes on for the user and change it is begun for. *)
LEMMA WorkStays ==
  ASSUME AnalyticsCacheAssumption, TypeInv, NEW u \in Users, NEW n \in Nat,
         NEW t \in TransactionTopics, recalc[t] # NoWork,
         recalc[t].user = u, recalc[t].change >= n,
         \/ recalc'[t] = recalc[t]
         \/ Recalculate(t)
  PROVE  Owed(u, n)'
<1>1. t \in ChangeTopics /\ recalc[t] \in Work
  BY DEF TransactionTopics, ChangeTopics, TypeInv, CacheTypeOK
<1>2. CASE recalc'[t] = recalc[t]
  BY <1>2 DEF Owed
<1>3. CASE Recalculate(t)
  <2>1. recalc'[t] = HalfRead(recalc[t]) \/ recalc'[t] = AllRead(recalc[t])
    BY <1>1, <1>3 DEF Recalculate, TypeInv, CacheTypeOK
  <2>2. /\ recalc'[t].pc \in {"half", "computed"}
        /\ recalc'[t].user = u /\ recalc'[t].change = recalc[t].change
    BY <1>1, <2>1, HalfReadIsWork, AllReadIsWork
  <2>. QED
    BY <2>2 DEF Owed, NoWork
<1>. QED
  BY <1>2, <1>3

(* What is owed of a user stays owed, or is refreshed or lost.             *)
LEMMA OwedStep ==
  ASSUME AnalyticsCacheAssumption, TypeInv, RecentInv, HistoryTypeOK, [Next]_vars,
         NEW u \in Users, NEW n \in Nat, n <= announced[u], Owed(u, n)
  PROVE  Owed(u, n)' \/ n <= refreshed'[u] \/ n <= forgone'[u]
<1>1. PICK t \in TransactionTopics :
        \/ \E i \in DOMAIN queue[t] : queue[t][i].user = u /\ queue[t][i].change >= n
        \/ recalc[t] # NoWork /\ recalc[t].user = u /\ recalc[t].change >= n
  BY DEF Owed
<1>2. t \in ChangeTopics /\ t # "bond.updated"
  BY DEF TransactionTopics, ChangeTopics
<1>. DEFINE Queued == \E i \in DOMAIN queue[t] : queue[t][i].user = u /\ queue[t][i].change >= n
            InWork == recalc[t] # NoWork /\ recalc[t].user = u /\ recalc[t].change >= n
<1>3. CASE recalc' = recalc /\ (queue' = queue \/ \E w \in Writers : Publish(w))
  <2>1. CASE Queued
    BY <1>3, <2>1, QueuedStays
  <2>2. CASE InWork
    BY <1>3, <2>2, WorkStays
  <2>. QED
    BY <1>1, <2>1, <2>2
<1>4. ASSUME NEW s \in ChangeTopics, Take(s)
      PROVE  Owed(u, n)'
  <2>1. /\ recalc[s] = NoWork
        /\ recalc' = [recalc EXCEPT ![s] = Started(Head(queue[s]).user, Head(queue[s]).change)]
    BY <1>4 DEF Take
  <2>2. \A r \in ChangeTopics : recalc[r] # NoWork => recalc'[r] = recalc[r]
    BY <2>1 DEF TypeInv, CacheTypeOK
  <2>3. CASE Queued
    BY <1>4, <2>2, <2>3, QueuedStays
  <2>4. CASE InWork
    BY <1>2, <2>2, <2>4, WorkStays
  <2>. QED
    BY <1>1, <2>3, <2>4
<1>5. ASSUME NEW s \in ChangeTopics, Recalculate(s)
      PROVE  Owed(u, n)'
  <2>1. queue' = queue /\ \A r \in ChangeTopics : r # s => recalc'[r] = recalc[r]
    BY <1>5 DEF Recalculate, TypeInv, CacheTypeOK
  <2>2. CASE Queued
    BY <2>1, <2>2 DEF Owed
  <2>3. CASE InWork
    <3>1. recalc'[t] = recalc[t] \/ Recalculate(t)
      BY <1>2, <1>5, <2>1
    <3>. QED
      BY <2>3, <3>1, WorkStays
  <2>. QED
    BY <1>1, <2>2, <2>3
<1>6. ASSUME NEW s \in ChangeTopics, Store(s) \/ RecalculationFails(s)
      PROVE  Owed(u, n)' \/ n <= refreshed'[u] \/ n <= forgone'[u]
  <2>1. /\ queue' = queue /\ \A r \in ChangeTopics : r # s => recalc'[r] = recalc[r]
        /\ recalc[s].pc \in {"started", "half", "computed"}
    BY <1>6 DEF Store, RecalculationFails, TypeInv, CacheTypeOK
  <2>2. CASE Queued
    BY <2>1, <2>2 DEF Owed
  <2>3. CASE InWork /\ s # t
    BY <1>2, <2>1, <2>3, WorkStays
  <2>4. CASE InWork /\ s = t
    <3>1. recalc[t] \in Work /\ recalc[t].user = u /\ recalc[t].change \in Nat
          /\ n <= recalc[t].change /\ recalc[t].seen.ledger \in Nat
          /\ recalc[t].seen \in Summary
      BY <1>2, <2>4 DEF TypeInv, CacheTypeOK, Work, Version, Summary
    <3>2. refreshed \in [Users -> Version] /\ forgone \in [Users -> Version]
          /\ refreshed[u] \in Nat /\ forgone[u] \in Nat
      BY DEF HistoryTypeOK, Version
    <3>3. CASE Store(t)
      <4>1. /\ recalc[t].pc = "computed"
            /\ cache' = [cache EXCEPT ![u] = recalc[t].seen]
            /\ refreshed' = [refreshed EXCEPT ![u] = Newer(cache'[u].ledger, @)]
        BY <3>1, <3>3 DEF Store
      <4>2. recalc[t].change <= recalc[t].seen.ledger
        BY <1>2, <4>1 DEF RecentInv, WorkRecent, Recent
      <4>3. cache'[u].ledger = recalc[t].seen.ledger
        BY <4>1 DEF TypeInv, CacheTypeOK
      <4>4. refreshed'[u] = Newer(recalc[t].seen.ledger, refreshed[u])
        BY <3>2, <4>1, <4>3
      <4>. QED
        BY <3>1, <3>2, <4>2, <4>4 DEF Newer
    <3>4. CASE RecalculationFails(t)
      <4>1. forgone' = [forgone EXCEPT ![u] = IF t \in TransactionTopics
                                            THEN Newer(recalc[t].change, @) ELSE @]
        BY <3>1, <3>4 DEF RecalculationFails
      <4>2. forgone'[u] = Newer(recalc[t].change, forgone[u])
        BY <3>2, <4>1
      <4>. QED
        BY <3>1, <3>2, <4>2 DEF Newer
    <3>. QED
      BY <1>6, <2>4, <3>3, <3>4
  <2>. QED
    BY <1>1, <2>2, <2>3, <2>4
<1>7. CASE Stop
  BY <1>7 DEF Stop
<1>8. \/ recalc' = recalc /\ queue' = queue
      \/ \E w \in Writers : Publish(w)
      \/ Stop
      \/ \E s \in ChangeTopics : DispatcherStep(s)
  BY DEF Next, vars, WriterEnds, ReaderEnds, BeginBond, WriteTransaction, Enter,
         CallFails, Finish, Miss, Compute, Fill
<1>9. ASSUME NEW w \in Writers, Publish(w)
      PROVE  recalc' = recalc
  BY <1>9 DEF Publish
<1>. QED
  BY <1>3, <1>4, <1>5, <1>6, <1>7, <1>8, <1>9 DEF DispatcherStep

(* What is recorded of a user's changes only grows; only an event that     *)
(* gets onto a queue announces one.                                        *)
LEMMA HistoryStep ==
  ASSUME AnalyticsCacheAssumption, TypeInv, HistoryTypeOK, [Next]_vars
  PROVE  /\ HistoryTypeOK'
         /\ \A u \in Users : refreshed[u] <= refreshed'[u]
         /\ \A u \in Users : forgone[u] <= forgone'[u] \/ forgone'[u] = announced[u]
         /\ announced' = announced \/ \E w \in Writers : Publish(w)
<1>1. \A n, m \in Version : Newer(n, m) \in Version /\ Newer(n, m) >= m
  BY DEF Newer, Version
<1>2. /\ announced \in [Users -> Version] /\ refreshed \in [Users -> Version]
      /\ forgone \in [Users -> Version]
      /\ \A n \in Version : n <= n
  BY DEF HistoryTypeOK, Version
<1>. DEFINE Goal == /\ HistoryTypeOK'
                    /\ \A u \in Users : refreshed[u] <= refreshed'[u]
                    /\ \A u \in Users : forgone[u] <= forgone'[u] \/ forgone'[u] = announced[u]
<1>3. ASSUME NEW w \in Writers, Publish(w)
      PROVE  Goal
  <2>. DEFINE event == Head(writer[w].todo)
              newest == IF event.topic \in TransactionTopics
                        THEN Newer(event.change, announced[event.user])
                        ELSE announced[event.user]
  <2>1. /\ writer[w].todo \in Seq(Event) /\ writer[w].todo # <<>>
        /\ announced' = [announced EXCEPT ![event.user] = newest]
        /\ refreshed' = refreshed /\ forgone' = forgone
    BY <1>3 DEF Publish, TypeInv, CacheTypeOK, Writer
  <2>2. event \in Event
    BY <2>1, HeadTailProperties
  <2>3. newest \in Version
    BY <1>1, <1>2, <2>2 DEF Event
  <2>. HIDE DEF event, newest
  <2>4. announced' \in [Users -> Version]
    BY <1>2, <2>1, <2>3
  <2>. QED
    BY <1>2, <2>1, <2>4 DEF HistoryTypeOK
<1>4. ASSUME NEW t \in ChangeTopics, Store(t)
      PROVE  Goal
  <2>. DEFINE newest == Newer(recalc[t].seen.ledger, refreshed[recalc[t].user])
  <2>1. /\ recalc[t] \in Work /\ recalc[t].user \in Users /\ recalc[t].seen \in Summary
        /\ recalc[t].seen.ledger \in Version
    <3>1. recalc[t] \in Work
      BY <1>4, WorkGoesOn DEF Store, TypeInv, CacheTypeOK
    <3>. QED
      BY <3>1 DEF Work, Summary
  <2>2. cache'[recalc[t].user].ledger = recalc[t].seen.ledger
    BY <1>4, <2>1 DEF Store, TypeInv, CacheTypeOK
  <2>3. /\ refreshed' = [refreshed EXCEPT ![recalc[t].user] = newest]
        /\ announced' = announced /\ forgone' = forgone
    BY <1>4, <2>2 DEF Store
  <2>4. newest \in Version /\ newest >= refreshed[recalc[t].user]
    BY <1>1, <1>2, <2>1
  <2>. HIDE DEF newest
  <2>5. refreshed' \in [Users -> Version] /\ \A u \in Users : refreshed[u] <= refreshed'[u]
    BY <1>2, <2>1, <2>3, <2>4 DEF Version
  <2>. QED
    BY <1>2, <2>3, <2>5 DEF HistoryTypeOK
<1>5. ASSUME NEW t \in ChangeTopics, RecalculationFails(t)
      PROVE  Goal
  <2>. DEFINE newest == IF t \in TransactionTopics
                        THEN Newer(recalc[t].change, forgone[recalc[t].user])
                        ELSE forgone[recalc[t].user]
  <2>1. /\ recalc[t].user \in Users /\ recalc[t].change \in Version
    <3>1. recalc[t] \in Work
      BY <1>5, WorkGoesOn DEF RecalculationFails, TypeInv, CacheTypeOK
    <3>. QED
      BY <3>1 DEF Work
  <2>2. /\ forgone' = [forgone EXCEPT ![recalc[t].user] = newest]
        /\ announced' = announced /\ refreshed' = refreshed
    BY <1>5 DEF RecalculationFails
  <2>3. newest \in Version /\ newest >= forgone[recalc[t].user]
    BY <1>1, <1>2, <2>1 DEF Version
  <2>. HIDE DEF newest
  <2>4. forgone' \in [Users -> Version] /\ \A u \in Users : forgone[u] <= forgone'[u]
    BY <1>2, <2>1, <2>2, <2>3 DEF Version
  <2>. QED
    BY <1>2, <2>2, <2>4 DEF HistoryTypeOK
<1>6. ASSUME Stop
      PROVE  Goal
  BY <1>2, <1>6 DEF Stop, HistoryTypeOK
<1>7. ASSUME UNCHANGED history
      PROVE  Goal
  BY <1>2, <1>7 DEF history, HistoryTypeOK
<1>8. \/ UNCHANGED history \/ Stop
      \/ \E w \in Writers : Publish(w)
      \/ \E t \in ChangeTopics : Store(t) \/ RecalculationFails(t)
  BY DEF Next, vars, WriterEnds, DispatcherStep, ReaderEnds, BeginBond, WriteTransaction, Enter,
         CallFails, Finish, Take, Recalculate, Miss, Compute, Fill
<1>9. announced' = announced \/ \E w \in Writers : Publish(w)
  BY <1>8 DEF history, Stop, Store, RecalculationFails
<1>. QED
  BY <1>3, <1>4, <1>5, <1>6, <1>7, <1>8, <1>9

(* A change that an event announces is owed.                               *)
LEMMA PublishOwes ==
  ASSUME AnalyticsCacheAssumption, TypeInv, HistoryTypeOK, NEW w \in Writers, Publish(w),
         NEW u \in Users
  PROVE  announced'[u] = announced[u] \/ Owed(u, announced[u])'
<1>. DEFINE event == Head(writer[w].todo)
            newest == IF event.topic \in TransactionTopics
                      THEN Newer(event.change, announced[event.user])
                      ELSE announced[event.user]
<1>1. /\ writer[w].todo \in Seq(Event) /\ writer[w].todo # <<>>
      /\ announced' = [announced EXCEPT ![event.user] = newest]
      /\ queue' = [queue EXCEPT ![event.topic] = Append(@, event)]
      /\ announced \in [Users -> Version]
  BY DEF Publish, TypeInv, CacheTypeOK, Writer, HistoryTypeOK
<1>2. event \in Event
  BY <1>1, HeadTailProperties
<1>. HIDE DEF event
<1>3. CASE event.user = u /\ event.topic \in TransactionTopics /\ event.change > announced[u]
  <2>1. announced'[u] = event.change
    BY <1>1, <1>3 DEF Newer
  <2>2. /\ event.topic \in ChangeTopics /\ queue[event.topic] \in Seq(Event)
        /\ queue'[event.topic] = Append(queue[event.topic], event)
    BY <1>1, <1>2 DEF Event, TypeInv, CacheTypeOK
  <2>3. \E i \in DOMAIN queue'[event.topic] : queue'[event.topic][i] = event
    BY <1>2, <2>2, AppendProperties
  <2>4. event.change >= announced'[u]
    BY <1>2, <2>1 DEF Event, Version
  <2>. QED
    BY <1>3, <2>3, <2>4 DEF Owed
<1>4. CASE ~(event.user = u /\ event.topic \in TransactionTopics /\ event.change > announced[u])
  BY <1>1, <1>4 DEF Newer
<1>. QED
  BY <1>3, <1>4

(* Whatever the number of writers, readers and users, the size of the      *)
(* queues and the order of stop() and of failing handlers: a change the    *)
(* bus took an event about is in the cache or on its way there, or was     *)
(* lost by one of these two ways and by no other.                          *)
THEOREM ChangesAreKept == Spec => []NoChangeForgotten
<1>1. Init => HistoryTypeOK /\ NoChangeForgotten
  <2>1. Init => HistoryTypeOK
    BY AnalyticsCacheAssumption DEF Init, HistoryTypeOK, Version, AnalyticsCacheAssumption
  <2>2. Init => NoChangeForgotten
    BY DEF Init, NoChangeForgotten
  <2>. QED
    BY <2>1, <2>2
<1>2. TypeInv /\ RecentInv /\ HistoryTypeOK /\ NoChangeForgotten /\ [Next]_vars
        => HistoryTypeOK' /\ NoChangeForgotten'
  <2>. SUFFICES ASSUME TypeInv, RecentInv, HistoryTypeOK, NoChangeForgotten, [Next]_vars
       PROVE  HistoryTypeOK' /\ NoChangeForgotten'
    OBVIOUS
  <2>1. /\ HistoryTypeOK'
        /\ \A u \in Users : refreshed[u] <= refreshed'[u]
        /\ \A u \in Users : forgone[u] <= forgone'[u] \/ forgone'[u] = announced[u]
        /\ announced' = announced \/ \E w \in Writers : Publish(w)
    BY AnalyticsCacheAssumption, HistoryStep
  <2>2. ASSUME NEW u \in Users
        PROVE  \/ announced'[u] <= refreshed'[u]
               \/ announced'[u] <= forgone'[u]
               \/ Owed(u, announced[u])'
    <3>1. /\ announced[u] \in Nat /\ refreshed[u] \in Nat /\ forgone[u] \in Nat
          /\ refreshed'[u] \in Nat /\ forgone'[u] \in Nat
      BY <2>1 DEF HistoryTypeOK, Version
    <3>2. announced'[u] = announced[u] \/ Owed(u, announced[u])'
      BY <2>1, AnalyticsCacheAssumption, PublishOwes
    <3>3. CASE announced'[u] = announced[u]
      <4>1. CASE announced[u] <= refreshed[u]
        BY <2>1, <3>1, <3>3, <4>1
      <4>2. CASE announced[u] <= forgone[u]
        BY <2>1, <3>1, <3>3, <4>2
      <4>3. CASE Owed(u, announced[u])
        <5>. DEFINE n == announced[u]
        <5>1. n \in Nat /\ n <= announced[u] /\ Owed(u, n)
          BY <3>1, <4>3
        <5>. HIDE DEF n
        <5>2. PICK m \in Nat : m = n
          BY <5>1
        <5>3. Owed(u, m)' \/ m <= refreshed'[u] \/ m <= forgone'[u]
          BY <5>1, <5>2, AnalyticsCacheAssumption, OwedStep
        <5>. QED
          BY <3>3, <5>2, <5>3 DEF n, Owed
      <4>. QED
        BY <4>1, <4>2, <4>3 DEF NoChangeForgotten
    <3>. QED
      BY <3>2, <3>3
  <2>. QED
    BY <2>1, <2>2 DEF NoChangeForgotten
<1>. QED
  BY <1>1, <1>2, TypeInvHolds, EventsVouched, PTL DEF Spec

=============================================================================
