-------------------------- MODULE Portfolio_proofs --------------------------
(***************************************************************************)
(* Proofs about Portfolio for every number of calls, users, accounts,      *)
(* bonds and rows.                                                         *)
(***************************************************************************)
EXTENDS Portfolio, Ledger_proofs, TLAPS

(* The types, with what is known of a call that is under way. *)
CallInv ==
    \A k \in Tasks :
        /\ task[k].pc # "idle" => task[k].user \in Users
        /\ task[k].pc = "writing" =>
              /\ task[k].op \in {"add", "update"} => task[k].target \in Row
              /\ task[k].op \in {"update", "delete"} => task[k].loaded \in Row
TypeInv == PortfolioTypeOK /\ CallInv

(* A call that has ended is a call. *)
LEMMA RestIsTask == \A outcome \in Outcomes : Rest(outcome) \in Task /\ Rest(outcome).pc = "idle"
  BY DEF Rest, Task, Ops, NoRow

(* The way out of a call, with or without having written. *)
LEMMA EndTypes ==
  ASSUME TypeInv, NEW k \in Tasks, NEW outcome \in Outcomes, Release(k),
         task' = [task EXCEPT ![k] = Rest(outcome)]
  PROVE  /\ lock' \in [Users -> Tasks \cup {Nobody}]
         /\ task' \in [Tasks -> Task]
         /\ CallInv'
<1>1. lock' \in [Users -> Tasks \cup {Nobody}]
  BY DEF TypeInv, PortfolioTypeOK, Release
<1>2. task' \in [Tasks -> Task] /\ CallInv'
  BY RestIsTask DEF TypeInv, PortfolioTypeOK, CallInv
<1>. QED
  BY <1>1, <1>2

(* A refusal keeps the types. *)
LEMMA RefuseTypes ==
  ASSUME TypeInv, NEW k \in Tasks, NEW loaded \in Row \cup {NoRow},
         NEW target \in Row \cup {NoRow}, Refuse(k, loaded, target)
  PROVE  TypeInv'
<1>. DEFINE end == [Rest("insufficient") EXCEPT
                      !.op = task[k].op, !.loaded = loaded, !.target = target]
<1>1. end \in Task /\ end.pc = "idle"
  BY DEF Rest, Task, Outcomes, TypeInv, PortfolioTypeOK, NoRow
<1>2. task' = [task EXCEPT ![k] = end] /\ Release(k) /\ UNCHANGED transactions
  BY DEF Refuse
<1>. HIDE DEF end
<1>3. lock' \in [Users -> Tasks \cup {Nobody}]
  BY <1>2 DEF TypeInv, PortfolioTypeOK, Release
<1>4. task' \in [Tasks -> Task] /\ CallInv'
  BY <1>1, <1>2 DEF TypeInv, PortfolioTypeOK, CallInv
<1>. QED
  BY <1>2, <1>3, <1>4 DEF TypeInv, PortfolioTypeOK

(* A rollback keeps the types. *)
LEMMA RollBackTypes ==
  ASSUME TypeInv, NEW k \in Tasks, NEW outcome \in Outcomes, RollBack(k, outcome)
  PROVE  TypeInv'
  BY EndTypes DEF RollBack, TypeInv, PortfolioTypeOK

(* A check that passes keeps the types. *)
LEMMA ProceedTypes ==
  ASSUME TypeInv, NEW k \in Tasks, NEW loaded \in Row \cup {NoRow},
         NEW target \in Row \cup {NoRow}, task[k].pc = "checking",
         task[k].op \in {"add", "update"} => target \in Row,
         task[k].op \in {"update", "delete"} => loaded \in Row,
         Proceed(k, loaded, target)
  PROVE  TypeInv'
<1>1. task' = [task EXCEPT ![k] = [task[k] EXCEPT
                  !.pc = "writing", !.loaded = loaded, !.target = target]]
      /\ UNCHANGED <<transactions, lock>>
  BY DEF Proceed, TypeInv, PortfolioTypeOK, Task
<1>. DEFINE ahead == [task[k] EXCEPT !.pc = "writing", !.loaded = loaded, !.target = target]
<1>2. ahead \in Task
  BY DEF TypeInv, PortfolioTypeOK, Task
<1>3. /\ ahead.op = task[k].op /\ ahead.user = task[k].user
      /\ ahead.loaded = loaded /\ ahead.target = target
  BY DEF TypeInv, PortfolioTypeOK, Task
<1>. HIDE DEF ahead
<1>4. task' = [task EXCEPT ![k] = ahead]
  BY <1>1 DEF ahead
<1>5. task' \in [Tasks -> Task] /\ CallInv'
  BY <1>2, <1>3, <1>4 DEF TypeInv, PortfolioTypeOK, CallInv
<1>. QED
  BY <1>1, <1>5 DEF TypeInv, PortfolioTypeOK

(* A merge onto the row it was computed from gives the row asked for. *)
LEMMA MergeOntoLoaded ==
  ASSUME NEW loaded \in Row, NEW target \in Row
  PROVE  Merge(loaded, loaded, target) = target
  BY DEF Merge, Row

(* A merge onto any row gives a row. *)
LEMMA MergeIsRow ==
  ASSUME NEW current \in Row, NEW loaded \in Row, NEW target \in Row
  PROVE  Merge(current, loaded, target) \in Row
<1>1. DOMAIN current = {"id", "bond", "account", "type", "quantity"}
  BY DEF Row
<1>. DEFINE field(f) == IF target[f] # loaded[f] THEN target[f] ELSE current[f]
<1>2. /\ field("id") \in Ids /\ field("bond") \in Bonds /\ field("account") \in Accounts
      /\ field("type") \in Types /\ field("quantity") \in Quantities
  BY DEF Row
<1>3. Merge(current, loaded, target) =
        [id |-> field("id"), bond |-> field("bond"), account |-> field("account"),
         type |-> field("type"), quantity |-> field("quantity")]
  BY <1>1 DEF Merge
<1>. QED
  BY <1>2, <1>3 DEF Row

(* Every step preserves the types. *)
LEMMA StepTypes ==
  ASSUME PortfolioAssumption, TypeInv, [Next]_vars
  PROVE  TypeInv'
<1>1. ASSUME NEW k \in Tasks, NEW op \in Ops, NEW user \in Users, Begin(k, op, user)
      PROVE  TypeInv'
  <2>. DEFINE call == [Rest("none") EXCEPT !.pc = "locking", !.op = op, !.user = user]
  <2>1. call \in Task /\ call.pc = "locking" /\ call.user = user
    BY DEF Rest, Task, Ops, Outcomes
  <2>2. task' = [task EXCEPT ![k] = call] /\ UNCHANGED <<transactions, lock>>
    BY <1>1 DEF Begin
  <2>. HIDE DEF call
  <2>. QED
    BY <2>1, <2>2 DEF TypeInv, PortfolioTypeOK, CallInv
<1>2. ASSUME NEW k \in Tasks, AcquireLock(k) PROVE TypeInv'
  <2>. DEFINE call == [task[k] EXCEPT !.pc = "checking"]
  <2>1. call \in Task /\ call.pc = "checking" /\ call.user = task[k].user
    BY DEF Task, TypeInv, PortfolioTypeOK
  <2>2. task' = [task EXCEPT ![k] = call] /\ UNCHANGED transactions /\ task[k].pc = "locking"
    BY <1>2 DEF AcquireLock
  <2>3. task[k].user \in Users /\ lock' \in [Users -> Tasks \cup {Nobody}]
    BY <1>2 DEF AcquireLock, TypeInv, PortfolioTypeOK, CallInv
  <2>. HIDE DEF call
  <2>. QED
    BY <2>1, <2>2, <2>3 DEF TypeInv, PortfolioTypeOK, CallInv
<1>3. ASSUME NEW k \in Tasks, CheckAdd(k) PROVE TypeInv'
  <2>1. PICK target \in Row : Proceed(k, NoRow, target) \/ Refuse(k, NoRow, target)
    BY <1>3 DEF CheckAdd
  <2>. QED
    BY <1>3, <2>1, ProceedTypes, RefuseTypes DEF CheckAdd
<1>4. ASSUME NEW k \in Tasks, CheckUpdate(k) PROVE TypeInv'
  <2>1. CASE RollBack(k, "refused")
    BY <2>1, RollBackTypes DEF Outcomes
  <2>2. CASE \E old \in transactions, new \in Row :
                Proceed(k, old, new) \/ Refuse(k, old, new)
    <3>1. PICK old \in Row, new \in Row : Proceed(k, old, new) \/ Refuse(k, old, new)
      BY <2>2 DEF TypeInv, PortfolioTypeOK
    <3>. QED
      BY <1>4, <3>1, ProceedTypes, RefuseTypes DEF CheckUpdate
  <2>. QED
    BY <1>4, <2>1, <2>2 DEF CheckUpdate
<1>5. ASSUME NEW k \in Tasks, CheckDelete(k) PROVE TypeInv'
  <2>1. CASE RollBack(k, "refused")
    BY <2>1, RollBackTypes DEF Outcomes
  <2>2. CASE \E old \in transactions : Proceed(k, old, NoRow) \/ Refuse(k, old, NoRow)
    <3>1. PICK old \in Row : Proceed(k, old, NoRow) \/ Refuse(k, old, NoRow)
      BY <2>2 DEF TypeInv, PortfolioTypeOK
    <3>. QED
      BY <1>5, <3>1, ProceedTypes, RefuseTypes DEF CheckDelete
  <2>. QED
    BY <1>5, <2>1, <2>2 DEF CheckDelete
<1>6. ASSUME NEW k \in Tasks, NEW rows \in SUBSET Row, NEW outcome \in Outcomes,
             Commit(k, rows, outcome)
      PROVE  TypeInv'
  BY <1>6, EndTypes DEF Commit, TypeInv, PortfolioTypeOK
<1>7. ASSUME NEW k \in Tasks, WriteAdd(k) PROVE TypeInv'
  <2>1. transactions \cup {task[k].target} \in SUBSET Row
    BY <1>7 DEF WriteAdd, TypeInv, PortfolioTypeOK, CallInv
  <2>. QED
    BY <1>6, <1>7, <2>1 DEF WriteAdd, Outcomes
<1>8. ASSUME NEW k \in Tasks, WriteUpdate(k) PROVE TypeInv'
  <2>1. task[k].loaded \in Row /\ task[k].target \in Row
    BY <1>8 DEF WriteUpdate, TypeInv, CallInv
  <2>2. {IF r.id = task[k].loaded.id THEN Merge(r, task[k].loaded, task[k].target) ELSE r :
           r \in transactions} \in SUBSET Row
    BY <2>1, MergeIsRow DEF TypeInv, PortfolioTypeOK
  <2>. QED
    BY <1>6, <1>8, <2>2 DEF WriteUpdate, Outcomes, TypeInv, PortfolioTypeOK
<1>9. ASSUME NEW k \in Tasks, WriteDelete(k) PROVE TypeInv'
  <2>1. {r \in transactions : r.id # task[k].loaded.id} \in SUBSET Row
    BY DEF TypeInv, PortfolioTypeOK
  <2>. QED
    BY <1>6, <1>9, <2>1 DEF WriteDelete, Outcomes
<1>10. CASE UNCHANGED vars
  BY <1>10 DEF vars, TypeInv, PortfolioTypeOK, CallInv
<1>11. ASSUME NEW k \in Tasks, Reject(k) PROVE TypeInv'
  BY <1>11, RollBackTypes DEF Reject, Outcomes
<1>. QED
  BY <1>1, <1>2, <1>3, <1>4, <1>5, <1>7, <1>8, <1>9, <1>10, <1>11 DEF Next, Check, Write

(* The types, strengthened to be inductive. *)
THEOREM TypeInvHolds == Spec => []TypeInv
<1>1. Init => TypeInv
  BY RestIsTask DEF Init, LedgerInit, TypeInv, PortfolioTypeOK, CallInv, Outcomes
<1>2. TypeInv /\ [Next]_vars => TypeInv'
  BY StepTypes, PortfolioAssumption
<1>. QED
  BY <1>1, <1>2, PTL DEF Spec

(* The table holds rows, locks are held by calls, calls are well-formed. *)
THEOREM TypeCorrect == Spec => []PortfolioTypeOK
<1>1. TypeInv => PortfolioTypeOK
  BY DEF TypeInv
<1>. QED
  BY <1>1, TypeInvHolds, PTL

-----------------------------------------------------------------------------
(* What the row lock buys.  From its check to its write a call holds the   *)
(* lock of its user, and what it is about to take out of the table or put  *)
(* there belongs to that user; two calls that are both past their check    *)
(* therefore work on different users' rows.                                *)
Holding ==
    \A k \in Tasks : task[k].pc \in {"checking", "writing"} => lock[task[k].user] = k
OneRowPerId == \A r, s \in transactions : r.id = s.id => r = s

AddClaim(k) ==
    LET target == task[k].target IN
    /\ Owned(target.account, task[k].user)
    /\ \A r \in transactions : r.id # target.id
    /\ target.type = "BUY" \/ EnoughFor(target)
UpdateClaim(k) ==
    LET loaded == task[k].loaded  target == task[k].target IN
    /\ Owned(loaded.account, task[k].user)
    /\ Owned(target.account, task[k].user)
    /\ loaded \in transactions
    /\ target.id = loaded.id
    /\ ShiftAllowed(loaded, target)
DeleteClaim(k) ==
    LET loaded == task[k].loaded IN
    /\ Owned(loaded.account, task[k].user)
    /\ loaded \in transactions
    /\ RemovalAllowed(loaded)
Claim(k) ==
    /\ task[k].op = "add" => AddClaim(k)
    /\ task[k].op = "update" => UpdateClaim(k)
    /\ task[k].op = "delete" => DeleteClaim(k)
Claims == \A k \in Tasks : task[k].pc = "writing" => Claim(k)

(* No two unfinished inserts are after one key. *)
TargetsApart ==
    \A j, k \in Tasks :
        /\ j # k /\ task[j].pc = "writing" /\ task[k].pc = "writing"
        /\ task[j].op = "add" /\ task[k].op = "add"
        => task[j].target.id # task[k].target.id

LockInv == TypeInv /\ Holding /\ OneRowPerId /\ Claims /\ TargetsApart

(* The rows of the users other than user are the same after the step. *)
OthersKept(user) ==
    \A r \in Row : ~Owned(r.account, user) => (r \in transactions' <=> r \in transactions)

(* What a call relies on does not change when another user's rows do: the  *)
(* rows it loaded and summed up are those of its own user's accounts.      *)
LEMMA ClaimKept ==
  ASSUME NEW k \in Tasks, NEW user \in Users, TypeInv, TypeInv',
         task[k].pc = "writing", task'[k] = task[k], task[k].user # user,
         OthersKept(user), Claim(k),
         task[k].op = "add" => \A r \in transactions' : r.id # task[k].target.id
  PROVE  Claim(k)'
<1>1. ASSUME NEW bond, NEW account, Owned(account, task[k].user)
      PROVE  Pair(transactions', bond, account) = Pair(transactions, bond, account)
  <2>1. transactions \subseteq Row /\ transactions' \subseteq Row
    BY DEF TypeInv, PortfolioTypeOK
  <2>2. \A r : r.account = account => ~Owned(r.account, user)
    BY <1>1 DEF Owned
  <2>. QED
    BY <2>1, <2>2 DEF Pair, OthersKept
<1>2. CASE task[k].op = "add"
  <2>1. EnoughFor(task[k].target)' <=> EnoughFor(task[k].target)
    BY <1>1, <1>2 DEF EnoughFor, Claim, AddClaim
  <2>. QED
    BY <1>2, <2>1 DEF Claim, AddClaim, Owned
<1>3. CASE task[k].op = "update"
  <2>. DEFINE loaded == task[k].loaded  target == task[k].target
  <2>1. UpdateClaim(k)
    BY <1>3 DEF Claim
  <2>2. /\ Others(loaded, loaded.bond, loaded.account)'
             = Others(loaded, loaded.bond, loaded.account)
        /\ Others(loaded, target.bond, target.account)'
             = Others(loaded, target.bond, target.account)
    BY <1>1, <2>1 DEF Others, UpdateClaim
  <2>3. ShiftAllowed(loaded, target)' <=> ShiftAllowed(loaded, target)
    BY <2>2 DEF ShiftAllowed
  <2>4. loaded \in transactions'
    BY <2>1 DEF UpdateClaim, OthersKept, Owned, TypeInv, PortfolioTypeOK
  <2>. QED
    BY <1>3, <2>1, <2>3, <2>4 DEF Claim, UpdateClaim, Owned
<1>4. CASE task[k].op = "delete"
  <2>. DEFINE loaded == task[k].loaded
  <2>1. DeleteClaim(k)
    BY <1>4 DEF Claim
  <2>2. Others(loaded, loaded.bond, loaded.account)'
          = Others(loaded, loaded.bond, loaded.account)
    BY <1>1, <2>1 DEF Others, DeleteClaim
  <2>3. RemovalAllowed(loaded)' <=> RemovalAllowed(loaded)
    BY <2>2 DEF RemovalAllowed
  <2>4. loaded \in transactions'
    BY <2>1 DEF DeleteClaim, OthersKept, Owned, TypeInv, PortfolioTypeOK
  <2>. QED
    BY <1>4, <2>1, <2>3, <2>4 DEF Claim, DeleteClaim, Owned
<1>. QED
  BY <1>2, <1>3, <1>4 DEF TypeInv, PortfolioTypeOK, Task, Ops

(* A claim is about the table and the call alone. *)
LEMMA ClaimSame ==
  ASSUME NEW k \in Tasks, task'[k] = task[k], transactions' = transactions, Claim(k)
  PROVE  Claim(k)'
<1>1. \A r, b, a : Others(r, b, a)' = Others(r, b, a)
  BY DEF Others, Pair
<1>2. AddClaim(k) => AddClaim(k)'
  BY DEF AddClaim, EnoughFor, Pair
<1>3. UpdateClaim(k) => UpdateClaim(k)'
  BY <1>1 DEF UpdateClaim, ShiftAllowed
<1>4. DeleteClaim(k) => DeleteClaim(k)'
  BY <1>1 DEF DeleteClaim, RemovalAllowed
<1>. QED
  BY <1>2, <1>3, <1>4 DEF Claim

(* An add puts its row into the table, its check being still true. *)
LEMMA AddTable ==
  ASSUME LockInv, NEW k \in Tasks, WriteAdd(k)
  PROVE  /\ transactions' = transactions \cup {task[k].target}
         /\ task[k].target \in Row
         /\ AddClaim(k)
  BY DEF LockInv, TypeInv, CallInv, Claims, Claim, WriteAdd, Commit

(* An update replaces the row it has loaded by its target. *)
LEMMA UpdateTable ==
  ASSUME LockInv, NEW k \in Tasks, WriteUpdate(k)
  PROVE  /\ transactions' = (transactions \ {task[k].loaded}) \cup {task[k].target}
         /\ task[k].target \in Row
         /\ UpdateClaim(k)
<1>. DEFINE loaded == task[k].loaded  target == task[k].target
<1>1. UpdateClaim(k) /\ loaded \in Row /\ target \in Row
  BY DEF LockInv, TypeInv, CallInv, Claims, Claim, WriteUpdate
<1>2. loaded \in transactions /\ \A r \in transactions : r.id = loaded.id => r = loaded
  BY <1>1 DEF UpdateClaim, LockInv, OneRowPerId
<1>3. transactions' = {IF r.id = loaded.id THEN Merge(r, loaded, target) ELSE r :
                         r \in transactions}
  BY <1>2 DEF WriteUpdate, Commit
<1>4. Merge(loaded, loaded, target) = target
  BY <1>1, MergeOntoLoaded
<1>5. transactions' = (transactions \ {loaded}) \cup {target}
  BY <1>2, <1>3, <1>4
<1>. QED
  BY <1>1, <1>5

(* A delete takes the row it has loaded, and no other. *)
LEMMA DeleteTable ==
  ASSUME LockInv, NEW k \in Tasks, WriteDelete(k)
  PROVE  /\ transactions' = transactions \ {task[k].loaded}
         /\ DeleteClaim(k)
<1>1. DeleteClaim(k)
  BY DEF LockInv, Claims, Claim, WriteDelete
<1>2. \A r \in transactions : r.id = task[k].loaded.id <=> r = task[k].loaded
  BY <1>1 DEF DeleteClaim, LockInv, OneRowPerId
<1>. QED
  BY <1>1, <1>2 DEF WriteDelete, Commit

(* A write ends its call, keeps one row for a key, and touches no row of   *)
(* another user.                                                           *)
LEMMA WriteEffect ==
  ASSUME LockInv, NEW k \in Tasks, Write(k)
  PROVE  /\ OneRowPerId'
         /\ OthersKept(task[k].user)
         /\ task[k].pc = "writing" /\ Release(k)
         /\ \E outcome \in Outcomes : task' = [task EXCEPT ![k] = Rest(outcome)]
         /\ \A j \in Tasks : j # k /\ task[j].pc = "writing" /\ task[j].op = "add" =>
               \A r \in transactions' : r.id # task[j].target.id
<1>. DEFINE Apart == \A j \in Tasks : j # k /\ task[j].pc = "writing" /\ task[j].op = "add" =>
                       \A r \in transactions' : r.id # task[j].target.id
<1>1. task[k].pc = "writing" /\ Release(k)
      /\ \E outcome \in Outcomes : task' = [task EXCEPT ![k] = Rest(outcome)]
  BY DEF Write, WriteAdd, WriteUpdate, WriteDelete, Commit, Outcomes
<1>2. \A j \in Tasks : task[j].pc = "writing" /\ task[j].op = "add" =>
        \A r \in transactions : r.id # task[j].target.id
  BY DEF LockInv, Claims, Claim, AddClaim
<1>3. OneRowPerId
  BY DEF LockInv
<1>4. CASE WriteAdd(k)
  <2>1. OneRowPerId' /\ OthersKept(task[k].user)
    BY <1>3, <1>4, AddTable DEF AddClaim, OneRowPerId, OthersKept
  <2>2. Apart
    BY <1>2, <1>4, AddTable DEF WriteAdd, LockInv, TargetsApart
  <2>. QED
    BY <1>1, <2>1, <2>2
<1>5. CASE WriteUpdate(k)
  <2>1. OneRowPerId' /\ OthersKept(task[k].user)
    BY <1>3, <1>5, UpdateTable DEF UpdateClaim, OneRowPerId, OthersKept
  <2>2. Apart
    BY <1>2, <1>5, UpdateTable DEF UpdateClaim
  <2>. QED
    BY <1>1, <2>1, <2>2
<1>6. CASE WriteDelete(k)
  <2>1. OneRowPerId' /\ OthersKept(task[k].user)
    BY <1>3, <1>6, DeleteTable DEF DeleteClaim, OneRowPerId, OthersKept
  <2>2. Apart
    BY <1>2, <1>6, DeleteTable
  <2>. QED
    BY <1>1, <2>1, <2>2
<1>. QED
  BY <1>4, <1>5, <1>6 DEF Write

(* A call that ends, whatever it did, leaves the others as they were, if   *)
(* what they rely on has not changed.                                      *)
LEMMA EndLocks ==
  ASSUME LockInv, NEW k \in Tasks, NEW end, end.pc = "idle",
         Release(k), task' = [task EXCEPT ![k] = end],
         \A j \in Tasks : j # k /\ task[j].pc = "writing" => Claim(j)'
  PROVE  Holding' /\ Claims' /\ TargetsApart'
<1>1. /\ task'[k] = end
      /\ \A j \in Tasks : j # k => task'[j] = task[j]
  BY DEF LockInv, TypeInv, PortfolioTypeOK
<1>2. Holding'
  <2>1. ASSUME NEW j \in Tasks, j # k, task[j].pc \in {"checking", "writing"}
        PROVE  lock'[task[j].user] = j
    <3>1. lock[task[j].user] = j /\ task[j].user \in Users
      BY <2>1 DEF LockInv, Holding, TypeInv, CallInv
    <3>. QED
      BY <2>1, <3>1 DEF Release
  <2>. QED
    BY <1>1, <2>1 DEF Holding
<1>3. Claims'
  BY <1>1 DEF Claims
<1>4. TargetsApart'
  BY <1>1 DEF TargetsApart, LockInv
<1>. QED
  BY <1>2, <1>3, <1>4

(* A call that is refused or rolled back changes nothing for the others. *)
LEMMA GivingUpLocks ==
  ASSUME LockInv, NEW k \in Tasks,
         \/ \E outcome \in Outcomes : RollBack(k, outcome)
         \/ \E loaded, target : Refuse(k, loaded, target)
  PROVE  Holding' /\ OneRowPerId' /\ Claims' /\ TargetsApart'
<1>1. PICK end : /\ end.pc = "idle" /\ Release(k) /\ transactions' = transactions
                 /\ task' = [task EXCEPT ![k] = end]
  BY RestIsTask DEF RollBack, Refuse, Rest
<1>2. \A j \in Tasks : j # k /\ task[j].pc = "writing" => Claim(j)'
  BY <1>1, ClaimSame DEF LockInv, Claims, TypeInv, PortfolioTypeOK
<1>3. OneRowPerId'
  BY <1>1 DEF LockInv, OneRowPerId
<1>. QED
  BY <1>1, <1>2, <1>3, EndLocks

(* A call whose check passes has what it needs for its claim. *)
LEMMA ProceedLocks ==
  ASSUME LockInv, NEW k \in Tasks, NEW loaded, NEW target,
         task[k].pc = "checking", Proceed(k, loaded, target), Claim(k)',
         task[k].op = "add" => FreshId(target.id)
  PROVE  Holding' /\ OneRowPerId' /\ Claims' /\ TargetsApart'
<1>1. /\ transactions' = transactions /\ lock' = lock
      /\ \A j \in Tasks : j # k => task'[j] = task[j]
      /\ task'[k].user = task[k].user /\ task'[k].op = task[k].op
      /\ task'[k].target = target
  BY DEF Proceed, LockInv, TypeInv, PortfolioTypeOK, Task
<1>2. Holding'
  BY <1>1 DEF LockInv, Holding
<1>3. OneRowPerId'
  BY <1>1 DEF LockInv, OneRowPerId
<1>4. Claims'
  BY <1>1, ClaimSame DEF LockInv, Claims
<1>5. TargetsApart'
  BY <1>1 DEF LockInv, TargetsApart, FreshId
<1>. QED
  BY <1>2, <1>3, <1>4, <1>5

(* With row locks every step preserves the invariant. *)
LEMMA StepLocks ==
  ASSUME PortfolioAssumption, RowLocks, LockInv, [Next]_vars
  PROVE  LockInv'
<1>. DEFINE Kept == Holding' /\ OneRowPerId' /\ Claims' /\ TargetsApart'
<1>0. TypeInv'
  BY StepTypes DEF LockInv
<1>1. ASSUME NEW k \in Tasks, NEW op \in Ops, NEW user \in Users, Begin(k, op, user)
      PROVE  Kept
  <2>1. /\ transactions' = transactions /\ lock' = lock
        /\ \A j \in Tasks : j # k => task'[j] = task[j]
        /\ task'[k].pc = "locking"
    BY <1>1 DEF Begin, LockInv, TypeInv, PortfolioTypeOK, Rest
  <2>2. Claims'
    BY <2>1, ClaimSame DEF LockInv, Claims
  <2>. QED
    BY <2>1, <2>2 DEF LockInv, Holding, OneRowPerId, TargetsApart
<1>2. ASSUME NEW k \in Tasks, AcquireLock(k) PROVE Kept
  <2>1. /\ transactions' = transactions
        /\ task[k].pc = "locking" /\ task[k].user \in Users
        /\ lock[task[k].user] = Nobody /\ lock' = [lock EXCEPT ![task[k].user] = k]
        /\ \A j \in Tasks : j # k => task'[j] = task[j]
        /\ task'[k].pc = "checking" /\ task'[k].user = task[k].user
    BY <1>2 DEF AcquireLock, LockInv, TypeInv, PortfolioTypeOK, CallInv, Task
  <2>2. Claims'
    BY <2>1, ClaimSame DEF LockInv, Claims
  <2>3. Holding'
    BY <2>1 DEF LockInv, Holding, TypeInv, PortfolioTypeOK, CallInv, PortfolioAssumption
  <2>. QED
    BY <2>1, <2>2, <2>3 DEF LockInv, OneRowPerId, TargetsApart
<1>3. ASSUME NEW k \in Tasks, CheckAdd(k) PROVE Kept
  <2>1. PICK target \in Row :
            /\ Owned(target.account, task[k].user) /\ FreshId(target.id)
            /\ \/ (target.type = "BUY" \/ EnoughFor(target)) /\ Proceed(k, NoRow, target)
               \/ Refuse(k, NoRow, target)
    BY <1>3 DEF CheckAdd
  <2>2. CASE (target.type = "BUY" \/ EnoughFor(target)) /\ Proceed(k, NoRow, target)
    <3>1. /\ transactions' = transactions /\ task'[k].op = "add"
          /\ task'[k].user = task[k].user /\ task'[k].target = target
      BY <1>3, <2>2 DEF CheckAdd, Proceed, LockInv, TypeInv, PortfolioTypeOK, Task
    <3>2. AddClaim(k)'
      BY <2>1, <2>2, <3>1 DEF AddClaim, EnoughFor, Pair, FreshId, Owned
    <3>3. Claim(k)'
      BY <3>1, <3>2 DEF Claim
    <3>. QED
      BY <1>3, <2>1, <2>2, <3>3, ProceedLocks DEF CheckAdd
  <2>. QED
    BY <2>1, <2>2, GivingUpLocks
<1>4. ASSUME NEW k \in Tasks, CheckUpdate(k) PROVE Kept
  <2>1. CASE RollBack(k, "refused") \/ \E old, new : Refuse(k, old, new)
    BY <2>1, GivingUpLocks DEF Outcomes
  <2>2. CASE \E old \in transactions, new \in Row :
                /\ new.id = old.id /\ ShiftAllowed(old, new) /\ Proceed(k, old, new)
                /\ Owned(old.account, task[k].user) /\ Owned(new.account, task[k].user)
    <3>1. PICK old \in transactions, new \in Row :
                /\ new.id = old.id /\ ShiftAllowed(old, new) /\ Proceed(k, old, new)
                /\ Owned(old.account, task[k].user) /\ Owned(new.account, task[k].user)
      BY <2>2
    <3>2. /\ transactions' = transactions /\ task'[k].op = "update"
          /\ task'[k].user = task[k].user
          /\ task'[k].loaded = old /\ task'[k].target = new
      BY <1>4, <3>1 DEF CheckUpdate, Proceed, LockInv, TypeInv, PortfolioTypeOK, Task
    <3>3. \A b, a : Others(old, b, a)' = Others(old, b, a)
      BY <3>2 DEF Others, Pair
    <3>4. ShiftAllowed(old, new)'
      BY <3>1, <3>3 DEF ShiftAllowed
    <3>5. Claim(k)'
      BY <3>1, <3>2, <3>4 DEF Claim, UpdateClaim, Owned
    <3>. QED
      BY <1>4, <3>1, <3>5, ProceedLocks DEF CheckUpdate
  <2>. QED
    BY <1>4, <2>1, <2>2 DEF CheckUpdate
<1>5. ASSUME NEW k \in Tasks, CheckDelete(k) PROVE Kept
  <2>1. CASE RollBack(k, "refused") \/ \E old, new : Refuse(k, old, new)
    BY <2>1, GivingUpLocks DEF Outcomes
  <2>2. CASE \E old \in transactions :
                /\ RemovalAllowed(old) /\ Proceed(k, old, NoRow)
                /\ Owned(old.account, task[k].user)
    <3>1. PICK old \in transactions :
                /\ RemovalAllowed(old) /\ Proceed(k, old, NoRow)
                /\ Owned(old.account, task[k].user)
      BY <2>2
    <3>2. /\ transactions' = transactions /\ task'[k].op = "delete"
          /\ task'[k].user = task[k].user /\ task'[k].loaded = old
      BY <1>5, <3>1 DEF CheckDelete, Proceed, LockInv, TypeInv, PortfolioTypeOK, Task
    <3>3. RemovalAllowed(old)'
      BY <3>1, <3>2 DEF RemovalAllowed, Others, Pair
    <3>4. Claim(k)'
      BY <3>1, <3>2, <3>3 DEF Claim, DeleteClaim, Owned
    <3>. QED
      BY <1>5, <3>1, <3>4, ProceedLocks DEF CheckDelete
  <2>. QED
    BY <1>5, <2>1, <2>2 DEF CheckDelete
<1>6. ASSUME NEW k \in Tasks, Write(k) PROVE Kept
  <2>1. /\ OneRowPerId' /\ OthersKept(task[k].user)
        /\ task[k].pc = "writing" /\ Release(k)
    BY <1>6, WriteEffect
  <2>2. PICK outcome \in Outcomes : task' = [task EXCEPT ![k] = Rest(outcome)]
    BY <1>6, WriteEffect
  <2>3. ASSUME NEW j \in Tasks, j # k, task[j].pc = "writing" PROVE Claim(j)'
    <3>1. task[j].user # task[k].user /\ task[k].user \in Users
      BY <2>1, <2>3 DEF LockInv, Holding, TypeInv, CallInv
    <3>2. task'[j] = task[j]
      BY <2>2, <2>3 DEF LockInv, TypeInv, PortfolioTypeOK
    <3>3. task[j].op = "add" => \A r \in transactions' : r.id # task[j].target.id
      BY <1>6, <2>3, WriteEffect
    <3>. QED
      BY <1>0, <2>1, <2>3, <3>1, <3>2, <3>3, ClaimKept DEF LockInv, Claims
  <2>. QED
    BY <2>1, <2>2, <2>3, EndLocks, RestIsTask
<1>7. ASSUME UNCHANGED vars PROVE Kept
  <2>1. Claims'
    BY <1>7, ClaimSame DEF vars, LockInv, Claims
  <2>. QED
    BY <1>7, <2>1 DEF vars, LockInv, Holding, OneRowPerId, TargetsApart
<1>9. ASSUME NEW k \in Tasks, Reject(k) PROVE Kept
  BY <1>9, GivingUpLocks DEF Reject, Outcomes
<1>8. Kept
  BY <1>1, <1>2, <1>3, <1>4, <1>5, <1>6, <1>7, <1>9 DEF Next, Check
<1>. QED
  BY <1>0, <1>8 DEF LockInv

(* With row locks the invariant holds from the start on. *)
THEOREM LocksHold == RowLocks /\ Spec => []LockInv
<1>. SUFFICES ASSUME RowLocks PROVE Spec => []LockInv
  OBVIOUS
<1>1. Init => LockInv
  <2>1. ASSUME Init PROVE TypeInv
    BY <2>1, RestIsTask DEF Init, LedgerInit, TypeInv, PortfolioTypeOK, CallInv, Outcomes
  <2>2. ASSUME Init PROVE \A k \in Tasks : task[k].pc = "idle"
    BY <2>2, RestIsTask DEF Init, Outcomes
  <2>. QED
    BY <2>1, <2>2 DEF LockInv, Init, LedgerInit, Holding, OneRowPerId, Claims, TargetsApart
<1>2. LockInv /\ [Next]_vars => LockInv'
  BY StepLocks, PortfolioAssumption
<1>. QED
  BY <1>1, <1>2, PTL DEF Spec

(* PostgreSQL: whatever the number of calls, users, accounts, bonds and    *)
(* rows, no call acts on a check that has become false.                    *)
THEOREM ChecksStayValid == RowLocks /\ Spec => []CheckStillValid
<1>1. LockInv => CheckStillValid
  BY DEF LockInv, Claims, Claim, AddClaim, UpdateClaim, DeleteClaim, CheckStillValid,
         TypeInv, PortfolioTypeOK, Task, Ops
<1>. QED
  BY <1>1, LocksHold, PTL

(* PostgreSQL: a row is added, changed or removed only by a call of the    *)
(* user whose account it is on, before and after the change.               *)
THEOREM OwnersWrite == RowLocks /\ Spec => OnlyOwnersWrite
<1>. DEFINE Owners == \A r \in (transactions \ transactions') \cup (transactions' \ transactions) :
                        \E k \in Tasks : task[k].pc = "writing" /\ OwnerOf[r.account] = task[k].user
<1>1. LockInv /\ LockInv' /\ [Next]_vars => [Owners]_vars
  <2>. SUFFICES ASSUME LockInv, LockInv', Next
                PROVE  Owners
    OBVIOUS
  <2>1. CASE \E k \in Tasks : Write(k)
    <3>1. PICK k \in Tasks : Write(k)
      BY <2>1
    <3>2. OthersKept(task[k].user) /\ task[k].pc = "writing"
      BY <3>1, WriteEffect
    <3>3. transactions \subseteq Row /\ transactions' \subseteq Row
      BY DEF LockInv, TypeInv, PortfolioTypeOK
    <3>. QED
      BY <3>2, <3>3 DEF OthersKept, Owned
  <2>2. CASE ~\E k \in Tasks : Write(k)
    <3>1. transactions' = transactions
      BY <2>2 DEF Next, Begin, AcquireLock, Check, CheckAdd, CheckUpdate, CheckDelete,
                  Proceed, Refuse, Reject, RollBack
    <3>. QED
      BY <3>1
  <2>. QED
    BY <2>1, <2>2
<1>. QED
  BY <1>1, LocksHold, PTL DEF Spec, OnlyOwnersWrite

-----------------------------------------------------------------------------
(* The sums.  The table is finite, and the claims of the writing calls say *)
(* just what is needed for its positions to stay non-negative.             *)
LedgerInv == LockInv /\ IsFiniteSet(transactions) /\ NonNegative

(* A position, and what is left of it without a row, as the checks ask.    *)
LEMMA PositionsOf ==
  /\ NonNegative <=> \A bond \in Bonds, account \in Accounts :
                        Position(transactions, bond, account) >= 0
  /\ NonNegative' <=> \A bond \in Bonds, account \in Accounts :
                        Position(transactions', bond, account) >= 0
  BY DEF NonNegative, NonNegativeIn, Position

(* The sum without the loaded row is the position of the rest. *)
LEMMA OthersPosition ==
  ASSUME LockInv, NEW old \in transactions, NEW bond, NEW account
  PROVE  QuantityOf(Others(old, bond, account)) = Position(transactions \ {old}, bond, account)
<1>1. \A r \in transactions : r.id = old.id <=> r = old
  BY DEF LockInv, OneRowPerId
<1>2. Others(old, bond, account) = Pair(transactions \ {old}, bond, account)
  BY <1>1 DEF Others, Pair
<1>. QED
  BY <1>2 DEF Position

(* What a row counts, by its type. *)
LEMMA SignedValue ==
  ASSUME NEW r \in Row
  PROVE  /\ r.quantity \in Nat
         /\ Signed(r) = IF r.type = "BUY" THEN r.quantity ELSE -r.quantity
  BY LedgerAssumption DEF Row, Signed

(* An add that has passed its check leaves no position negative. *)
LEMMA AddKeepsPositions ==
  ASSUME LedgerInv, NEW k \in Tasks, WriteAdd(k)
  PROVE  NonNegative'
<1>. DEFINE new == task[k].target
<1>1. transactions' = transactions \cup {new} /\ new \in Row /\ AddClaim(k)
  BY AddTable DEF LedgerInv
<1>2. transactions \in SUBSET Row /\ IsFiniteSet(transactions)
  BY DEF LedgerInv, LockInv, TypeInv, PortfolioTypeOK
<1>3. new \notin transactions
  BY <1>1 DEF AddClaim
<1>4. new.quantity \in Nat /\ Signed(new) = IF new.type = "BUY" THEN new.quantity ELSE -new.quantity
  BY <1>1, SignedValue
<1>5. new.type = "BUY" \/ Position(transactions, new.bond, new.account) >= new.quantity
  BY <1>1 DEF AddClaim, EnoughFor, Position
<1>. HIDE DEF new
<1>6. ASSUME NEW bond \in Bonds, NEW account \in Accounts
      PROVE  Position(transactions', bond, account) >= 0
  <2>1. Position(transactions', bond, account)
          = Part(new, bond, account) + Position(transactions, bond, account)
    BY <1>1, <1>2, <1>3, PositionWith
  <2>2. Position(transactions, bond, account) \in Int /\ Position(transactions, bond, account) >= 0
    BY <1>2, PositionType, PositionsOf DEF LedgerInv
  <2>3. CASE new.bond = bond /\ new.account = account
    BY <1>4, <1>5, <2>1, <2>2, <2>3 DEF Part
  <2>4. CASE ~(new.bond = bond /\ new.account = account)
    BY <2>1, <2>2, <2>4 DEF Part
  <2>. QED
    BY <2>3, <2>4
<1>. QED
  BY <1>6, PositionsOf

(* Nor does a delete. *)
LEMMA DeleteKeepsPositions ==
  ASSUME LedgerInv, NEW k \in Tasks, WriteDelete(k)
  PROVE  NonNegative'
<1>. DEFINE old == task[k].loaded
<1>1. transactions' = transactions \ {old} /\ old \in transactions /\ RemovalAllowed(old)
  BY DeleteTable DEF LedgerInv, DeleteClaim
<1>2. transactions \in SUBSET Row /\ IsFiniteSet(transactions)
  BY DEF LedgerInv, LockInv, TypeInv, PortfolioTypeOK
<1>3. Position(transactions', old.bond, old.account) >= 0
  BY <1>1, OthersPosition DEF RemovalAllowed, LedgerInv
<1>. HIDE DEF old
<1>4. ASSUME NEW bond \in Bonds, NEW account \in Accounts
      PROVE  Position(transactions', bond, account) >= 0
  <2>1. CASE old.bond = bond /\ old.account = account
    BY <1>3, <2>1
  <2>2. CASE ~(old.bond = bond /\ old.account = account)
    <3>1. Position(transactions, bond, account)
            = Part(old, bond, account) + Position(transactions', bond, account)
      BY <1>1, <1>2, PositionWithout
    <3>2. Part(old, bond, account) = 0
      BY <2>2 DEF Part
    <3>3. Position(transactions, bond, account) >= 0
      BY PositionsOf DEF LedgerInv
    <3>4. Position(transactions', bond, account) \in Int
      <4>1. transactions' \in SUBSET transactions
        BY <1>1
      <4>. QED
        BY <1>2, <4>1, FS_Subset, PositionType
    <3>. QED
      BY <3>1, <3>2, <3>3, <3>4
  <2>. QED
    BY <2>1, <2>2
<1>. QED
  BY <1>4, PositionsOf

(* Nor an update, whichever of the two pairs it touches: the one the row   *)
(* leaves is asked for only when the row is a BUY, and needs no asking     *)
(* otherwise.                                                              *)
LEMMA UpdateKeepsPositions ==
  ASSUME LedgerInv, NEW k \in Tasks, WriteUpdate(k)
  PROVE  NonNegative'
<1>. DEFINE old == task[k].loaded  new == task[k].target  rest == transactions \ {old}
<1>1. /\ transactions' = rest \cup {new} /\ new \in Row
      /\ old \in transactions /\ new.id = old.id /\ ShiftAllowed(old, new)
  BY UpdateTable DEF LedgerInv, UpdateClaim
<1>2. transactions \in SUBSET Row /\ IsFiniteSet(transactions)
  BY DEF LedgerInv, LockInv, TypeInv, PortfolioTypeOK
<1>3. rest \in SUBSET Row /\ IsFiniteSet(rest)
  BY <1>2, FS_RemoveElement
<1>4. new \notin rest
  BY <1>1 DEF LedgerInv, LockInv, OneRowPerId
<1>5. Position(rest, new.bond, new.account) + Signed(new) >= 0
  BY <1>1, OthersPosition DEF ShiftAllowed, LedgerInv
<1>6. <<new.bond, new.account>> # <<old.bond, old.account>> /\ old.type = "BUY" =>
        Position(rest, old.bond, old.account) >= old.quantity
  BY <1>1, OthersPosition DEF ShiftAllowed, LedgerInv
<1>7. old.quantity \in Nat /\ Signed(old) = IF old.type = "BUY" THEN old.quantity ELSE -old.quantity
  BY <1>1, <1>2, SignedValue
<1>8. Signed(new) \in Int
  BY <1>1, SignedType
<1>9. ASSUME NEW bond \in Bonds, NEW account \in Accounts
      PROVE  Position(transactions', bond, account) >= 0
  <2>. DEFINE left == Position(rest, bond, account)
  <2>1. left \in Int
    BY <1>3, PositionType
  <2>2. Position(transactions', bond, account) = Part(new, bond, account) + left
    BY <1>1, <1>3, <1>4, PositionWith
  <2>3. Position(transactions, bond, account) = Part(old, bond, account) + left
    BY <1>1, <1>2, PositionWithout
  <2>4. Position(transactions, bond, account) >= 0
    BY PositionsOf DEF LedgerInv
  <2>5. CASE new.bond = bond /\ new.account = account
    <3>1. left + Signed(new) >= 0 /\ Part(new, bond, account) = Signed(new)
      BY <1>5, <2>5 DEF Part
    <3>. HIDE DEF left, new
    <3>. QED
      BY <1>8, <2>1, <2>2, <3>1
  <2>6. CASE ~(new.bond = bond /\ new.account = account)
    <3>1. Part(new, bond, account) = 0
      BY <2>6 DEF Part
    <3>2. CASE old.bond = bond /\ old.account = account
      <4>1. Part(old, bond, account) = Signed(old)
        BY <3>2 DEF Part
      <4>2. old.type = "BUY" => left >= old.quantity
        BY <1>6, <2>6, <3>2
      <4>. HIDE DEF left, new, old
      <4>. QED
        BY <1>7, <2>1, <2>2, <2>3, <2>4, <3>1, <4>1, <4>2
    <3>3. CASE ~(old.bond = bond /\ old.account = account)
      <4>1. Part(old, bond, account) = 0
        BY <3>3 DEF Part
      <4>. HIDE DEF left, new, old
      <4>. QED
        BY <2>1, <2>2, <2>3, <2>4, <3>1, <4>1
    <3>. QED
      BY <3>2, <3>3
  <2>. QED
    BY <2>5, <2>6
<1>. QED
  BY <1>9, PositionsOf

(* Only the write of a call touches the table. *)
LEMMA OnlyWritesChange ==
  ASSUME [Next]_vars, ~\E k \in Tasks : Write(k)
  PROVE  transactions' = transactions
  BY DEF Next, vars, Begin, AcquireLock, Check, CheckAdd, CheckUpdate, CheckDelete,
         Proceed, Refuse, Reject, RollBack

(* A write is a step of the ledger, or leaves the table as it is. *)
LEMMA WriteIsLedgerStep ==
  ASSUME LedgerInv, NEW k \in Tasks, Write(k), NonNegative'
  PROVE  LedgerNext
<1>1. NonNegativeIn(transactions')
  BY DEF NonNegative
<1>2. CASE WriteAdd(k)
  <2>1. Record(task[k].target) /\ task[k].target \in Row
    BY <1>2, AddTable DEF LedgerInv, AddClaim, Record
  <2>. QED
    BY <1>1, <2>1 DEF LedgerNext
<1>3. CASE WriteUpdate(k)
  <2>1. Amend(task[k].loaded, task[k].target) /\ task[k].loaded \in transactions /\ task[k].target \in Row
    BY <1>3, UpdateTable DEF LedgerInv, UpdateClaim, Amend, Owned
  <2>. QED
    BY <1>1, <2>1 DEF LedgerNext
<1>4. CASE WriteDelete(k)
  <2>1. Remove(task[k].loaded) /\ task[k].loaded \in transactions
    BY <1>4, DeleteTable DEF LedgerInv, DeleteClaim, Remove
  <2>. QED
    BY <1>1, <2>1 DEF LedgerNext
<1>. QED
  BY <1>2, <1>3, <1>4 DEF Write

(* With row locks every step preserves the invariant. *)
LEMMA StepLedger ==
  ASSUME PortfolioAssumption, RowLocks, LedgerInv, [Next]_vars
  PROVE  LedgerInv'
<1>1. LockInv'
  BY StepLocks DEF LedgerInv
<1>2. CASE \E k \in Tasks : Write(k)
  <2>1. PICK k \in Tasks : Write(k)
    BY <1>2
  <2>2. NonNegative'
    BY <2>1, AddKeepsPositions, UpdateKeepsPositions, DeleteKeepsPositions DEF Write
  <2>3. IsFiniteSet(transactions')
    <3>1. IsFiniteSet(transactions)
      BY DEF LedgerInv
    <3>2. CASE WriteAdd(k)
      <4>1. transactions' = transactions \cup {task[k].target}
        BY <3>2, AddTable DEF LedgerInv
      <4>2. IsFiniteSet(transactions \cup {task[k].target})
        BY <3>1, FS_AddElement
      <4>. QED
        BY <4>1, <4>2
    <3>3. CASE WriteUpdate(k)
      <4>1. IsFiniteSet(transactions \ {task[k].loaded})
        BY <3>1, FS_RemoveElement
      <4>2. transactions' = (transactions \ {task[k].loaded}) \cup {task[k].target}
        BY <3>3, UpdateTable DEF LedgerInv
      <4>3. IsFiniteSet((transactions \ {task[k].loaded}) \cup {task[k].target})
        BY <4>1, FS_AddElement
      <4>. QED
        BY <4>2, <4>3
    <3>4. CASE WriteDelete(k)
      <4>1. IsFiniteSet(transactions \ {task[k].loaded})
        BY <3>1, FS_RemoveElement
      <4>2. transactions' = transactions \ {task[k].loaded}
        BY <3>4, DeleteTable DEF LedgerInv
      <4>. QED
        BY <4>1, <4>2
    <3>. QED
      BY <2>1, <3>2, <3>3, <3>4 DEF Write
  <2>. QED
    BY <1>1, <2>2, <2>3 DEF LedgerInv
<1>3. CASE ~\E k \in Tasks : Write(k)
  <2>1. transactions' = transactions
    BY <1>3, OnlyWritesChange
  <2>. QED
    BY <1>1, <2>1 DEF LedgerInv, NonNegative
<1>. QED
  BY <1>2, <1>3

(* An empty table has no position. *)
LEMMA InitLedger == Init /\ LockInv => LedgerInv
<1>. SUFFICES ASSUME Init, LockInv PROVE IsFiniteSet(transactions) /\ NonNegative
  BY DEF LedgerInv
<1>1. transactions = {} /\ IsFiniteSet({})
  BY FS_EmptySet DEF Init, LedgerInit
<1>2. \A bond, account : Pair(transactions, bond, account) = {}
  BY <1>1 DEF Pair
<1>3. QuantityOf({}) = 0
  BY <1>1, QuantityStep
<1>. QED
  BY <1>1, <1>2, <1>3 DEF NonNegative, NonNegativeIn

(* With row locks the invariant holds from the start on. *)
THEOREM LedgerHolds == RowLocks /\ Spec => []LedgerInv
<1>. SUFFICES ASSUME RowLocks PROVE Spec => []LedgerInv
  OBVIOUS
<1>1. Spec => []LockInv
  BY LocksHold
<1>2. LedgerInv /\ [Next]_vars => LedgerInv'
  BY StepLedger, PortfolioAssumption
<1>. QED
  BY <1>1, <1>2, InitLedger, PTL DEF Spec

(* PostgreSQL: however the calls interleave, and however many they are, no *)
(* user ends up with less than nothing of a bond on an account.            *)
THEOREM PositionsNonNegative == RowLocks /\ Spec => []NonNegative
<1>1. LedgerInv => NonNegative
  BY DEF LedgerInv
<1>. QED
  BY <1>1, LedgerHolds, PTL

(* PostgreSQL: the calls keep the promise of the ledger.  Each step of the *)
(* service is one transaction recorded, amended in its owner's hands or    *)
(* removed, with every position non-negative after it, or no change.       *)
THEOREM ImplementsLedger == RowLocks /\ Spec => LedgerSpec
<1>1. Init => LedgerInit
  BY DEF Init
<1>2. LedgerInv /\ LedgerInv' /\ [Next]_vars => [LedgerNext]_transactions
  <2>. SUFFICES ASSUME LedgerInv, LedgerInv', [Next]_vars
                PROVE  [LedgerNext]_transactions
    OBVIOUS
  <2>1. NonNegative'
    BY DEF LedgerInv
  <2>. QED
    BY <2>1, WriteIsLedgerStep, OnlyWritesChange
<1>. QED
  BY <1>1, <1>2, LedgerHolds, PTL DEF Spec, LedgerSpec

=============================================================================
