------------------------------ MODULE Portfolio -----------------------------
(***************************************************************************)
(* PortfolioService: concurrent add, update and delete calls, each one     *)
(* database transaction that locks the acting user's row, reads, checks    *)
(* the position and writes.  Positions are not stored: they are summed     *)
(* from the rows of a (bond, account) pair, so the check and the write are *)
(* only as good as the lock between them.  RowLocks says whether SELECT    *)
(* ... FOR UPDATE locks (PostgreSQL) or is dropped by the dialect (SQLite, *)
(* where the driver also opens its transaction only at the first write).   *)
(***************************************************************************)
EXTENDS Ledger

CONSTANTS
    Tasks,      \* concurrent calls
    RowLocks    \* TRUE: PostgreSQL; FALSE: SQLite

Nobody == "nobody"

ASSUME PortfolioAssumption == RowLocks \in BOOLEAN /\ Nobody \notin Tasks \cup Users

VARIABLES
    lock,       \* user -> the task whose database transaction locks its row
    task        \* task -> the call it is executing, or the last one's end

(* Ledger's variable is the table: what is committed. *)
vars == <<transactions, lock, task>>

NoRow == [id |-> "none", bond |-> "none", account |-> "none",
          type |-> "none", quantity |-> 0]

Ops == {"add", "update", "delete"}
Outcomes == {"none", "committed", "insufficient", "refused"}
Task == [pc : {"idle", "locking", "checking", "writing"},
         op : Ops, user : Users \cup {Nobody},
         loaded : Row \cup {NoRow},    \* the row as the check read it
         target : Row \cup {NoRow},    \* the row the call wants there
         outcome : Outcomes]          \* how the last call ended
Rest(outcome) == [pc |-> "idle", op |-> "add", user |-> Nobody, loaded |-> NoRow,
                  target |-> NoRow, outcome |-> outcome]

PortfolioTypeOK ==
    /\ transactions \in SUBSET Row
    /\ lock \in [Users -> Tasks \cup {Nobody}]
    /\ task \in [Tasks -> Task]

Init ==
    /\ LedgerInit
    /\ lock = [u \in Users |-> Nobody]
    /\ task = [k \in Tasks |-> Rest("none")]

-----------------------------------------------------------------------------
Adding == {k \in Tasks : task[k].pc # "idle" /\ task[k].op = "add"}

Owned(account, user) == OwnerOf[account] = user

(* A call arrives.  add_transaction looks for the account before it takes  *)
(* the lock, and a call for somebody else's account ends there.  Ids       *)
(* bounds the table.                                                       *)
Begin(k, op, user) ==
    /\ task[k].pc = "idle"
    /\ op = "add" => \E account \in Accounts : Owned(account, user)
    /\ op = "add" => Cardinality(transactions) + Cardinality(Adding) < Cardinality(Ids)
    /\ task' = [task EXCEPT ![k] =
                  [Rest("none") EXCEPT !.pc = "locking", !.op = op, !.user = user]]
    /\ UNCHANGED <<transactions, lock>>

(* Fault: the lock is taken in another session. *)
AcquireNothing(k) ==
    /\ task[k].pc = "locking"
    /\ task' = [task EXCEPT ![k].pc = "checking"]
    /\ UNCHANGED <<transactions, lock>>

(* SELECT id FROM users ... FOR UPDATE *)
AcquireLock(k) ==
    /\ task[k].pc = "locking"
    /\ IF RowLocks
       THEN /\ lock[task[k].user] = Nobody
            /\ lock' = [lock EXCEPT ![task[k].user] = k]
       ELSE lock' = lock
    /\ task' = [task EXCEPT ![k].pc = "checking"]
    /\ UNCHANGED transactions

(* The end of the database transaction, by commit or by rollback. *)
Release(k) == lock' = [u \in Users |-> IF lock[u] = k THEN Nobody ELSE lock[u]]

(* Fault: the check runs in a database transaction of its own. *)
ProceedUnlocked(k, loaded, target) ==
    /\ Release(k)
    /\ task' = [task EXCEPT ![k].pc = "writing", ![k].loaded = loaded, ![k].target = target]
    /\ UNCHANGED transactions

Proceed(k, loaded, target) ==
    /\ task' = [task EXCEPT ![k].pc = "writing", ![k].loaded = loaded, ![k].target = target]
    /\ UNCHANGED <<transactions, lock>>

(* Fault: a way out that leaves the database transaction open. *)
LeaveOpen(k, outcome) ==
    /\ task' = [task EXCEPT ![k] = Rest(outcome)]
    /\ UNCHANGED <<transactions, lock>>

RollBack(k, outcome) ==
    /\ Release(k)
    /\ task' = [task EXCEPT ![k] = Rest(outcome)]
    /\ UNCHANGED transactions

(* InsufficientPositionError; what was asked for is kept for the record. *)
Refuse(k, loaded, target) ==
    /\ Release(k)
    /\ task' = [task EXCEPT ![k] = [Rest("insufficient") EXCEPT
                    !.op = task[k].op, !.loaded = loaded, !.target = target]]
    /\ UNCHANGED transactions

(* The key the database will give: no row and no unfinished insert has it. *)
FreshId(id) ==
    /\ \A r \in transactions : r.id # id
    /\ \A j \in Tasks : task[j].pc = "writing" => task[j].target.id # id

EnoughFor(r) == QuantityOf(Pair(transactions, r.bond, r.account)) >= r.quantity

(* add_transaction: only a SELL or a MATURE is checked. *)
CheckAdd(k) ==
    /\ task[k].pc = "checking" /\ task[k].op = "add"
    /\ \E target \in Row :
        /\ Owned(target.account, task[k].user)
        /\ FreshId(target.id)
        /\ IF target.type = "BUY" \/ EnoughFor(target)
           THEN Proceed(k, NoRow, target)
           ELSE Refuse(k, NoRow, target)

(* _validate_transaction_shift *)
Others(old, bond, account) == {r \in Pair(transactions, bond, account) : r.id # old.id}

(* Fault: a BUY is taken to be harmless. *)
ShiftAllowedUnlessExit(old, new) ==
    new.type # "BUY" => QuantityOf(Others(old, new.bond, new.account)) >= new.quantity

ShiftAllowed(old, new) ==
    LET moved == <<new.bond, new.account>> # <<old.bond, old.account>> IN
    /\ moved /\ old.type = "BUY" =>
          QuantityOf(Others(old, old.bond, old.account)) >= old.quantity
    /\ QuantityOf(Others(old, new.bond, new.account)) + Signed(new) >= 0

(* update_transaction up to the write: the row may be gone or belong to    *)
(* another user, the new account must be the user's own, the shift must    *)
(* leave both pairs non-negative.  The reads run under the same lock.      *)
CheckUpdate(k) ==
    /\ task[k].pc = "checking" /\ task[k].op = "update"
    /\ \/ RollBack(k, "refused")     \* no row with this id
       \/ \E old \in transactions, new \in Row :
            /\ new.id = old.id
            /\ IF ~Owned(old.account, task[k].user) \/ ~Owned(new.account, task[k].user)
               THEN RollBack(k, "refused")
               ELSE IF ShiftAllowed(old, new)
               THEN Proceed(k, old, new)
               ELSE Refuse(k, old, new)

RemovalAllowed(old) == QuantityOf(Others(old, old.bond, old.account)) >= 0

(* Fault: the owner is not asked for. *)
CheckDeleteOfAnyone(k) ==
    /\ task[k].pc = "checking" /\ task[k].op = "delete"
    /\ \/ RollBack(k, "refused")
       \/ \E old \in transactions :
            IF RemovalAllowed(old) THEN Proceed(k, old, NoRow) ELSE Refuse(k, old, NoRow)

(* delete_transaction up to the write. *)
CheckDelete(k) ==
    /\ task[k].pc = "checking" /\ task[k].op = "delete"
    /\ \/ RollBack(k, "refused")
       \/ \E old \in transactions :
            IF ~Owned(old.account, task[k].user)
            THEN RollBack(k, "refused")
            ELSE IF RemovalAllowed(old)
            THEN Proceed(k, old, NoRow)
            ELSE Refuse(k, old, NoRow)

(* The flush and the commit. *)
Commit(k, rows, outcome) ==
    /\ transactions' = rows
    /\ Release(k)
    /\ task' = [task EXCEPT ![k] = Rest(outcome)]

WriteAdd(k) ==
    /\ task[k].pc = "writing" /\ task[k].op = "add"
    /\ Commit(k, transactions \cup {task[k].target}, "committed")

(* UPDATE sets the columns that differ from the row as it was loaded; when *)
(* the row has vanished meanwhile the flush fails and nothing is written.  *)
Merge(current, loaded, target) ==
    [f \in DOMAIN current |-> IF target[f] # loaded[f] THEN target[f] ELSE current[f]]

WriteUpdate(k) ==
    /\ task[k].pc = "writing" /\ task[k].op = "update"
    /\ IF \E r \in transactions : r.id = task[k].loaded.id
       THEN Commit(k, {IF r.id = task[k].loaded.id
                       THEN Merge(r, task[k].loaded, task[k].target)
                       ELSE r : r \in transactions}, "committed")
       ELSE Commit(k, transactions, "refused")

WriteDelete(k) ==
    /\ task[k].pc = "writing" /\ task[k].op = "delete"
    /\ Commit(k, {r \in transactions : r.id # task[k].loaded.id}, "committed")

(* The database rejects the flush, or the commit fails: IntegrityError     *)
(* becomes InvalidTransactionError, and nothing is written.                *)
Reject(k) ==
    /\ task[k].pc = "writing"
    /\ RollBack(k, "refused")

Check(k) == CheckAdd(k) \/ CheckUpdate(k) \/ CheckDelete(k)
Write(k) == WriteAdd(k) \/ WriteUpdate(k) \/ WriteDelete(k)

Next ==
    \E k \in Tasks :
        \/ \E op \in Ops, user \in Users : Begin(k, op, user)
        \/ AcquireLock(k)
        \/ Check(k)
        \/ Write(k)
        \/ Reject(k)

Spec == Init /\ [][Next]_vars

(* A call that has begun is carried on; the database grants a row lock     *)
(* that is released again and again to each waiter in turn.                *)
Fairness ==
    \A k \in Tasks : SF_vars(AcquireLock(k)) /\ WF_vars(Check(k)) /\ WF_vars(Write(k))

FairSpec == Spec /\ Fairness

-----------------------------------------------------------------------------
(* No interleaving of checked calls leaves a user with a negative quantity *)
(* of a bond on an account.                                                *)
NonNegative == NonNegativeIn(transactions)

(* The table as the write of k would leave it. *)
After(k) ==
    CASE task[k].op = "add" -> transactions \cup {task[k].target}
      [] task[k].op = "delete" -> transactions \ {task[k].loaded}
      [] OTHER -> (transactions \ {task[k].loaded}) \cup {task[k].target}

(* A check is still true when it is acted on: no other call changes, from  *)
(* the check to the write of a call, the row it loaded or the sums it      *)
(* compared, so the decision taken is the one the write would take.        *)
CheckStillValid ==
    \A k \in Tasks : task[k].pc = "writing" =>
        LET loaded == task[k].loaded  target == task[k].target IN
        CASE task[k].op = "add" -> target.type = "BUY" \/ EnoughFor(target)
          [] task[k].op = "update" -> loaded \in transactions /\ ShiftAllowed(loaded, target)
          [] task[k].op = "delete" -> loaded \in transactions /\ RemovalAllowed(loaded)

(* Rows change only at the hands of their owner's own calls. *)
OnlyOwnersWrite ==
    [][\A r \in (transactions \ transactions') \cup (transactions' \ transactions) :
          \E k \in Tasks : task[k].pc = "writing" /\ OwnerOf[r.account] = task[k].user]_vars

(* Every call comes to its end: no lock is leaked by any way out, so no    *)
(* later call of the user waits for ever.                                  *)
CallsEnd == \A k \in Tasks : task[k].pc # "idle" ~> task[k].pc = "idle"

(* Calls are refused for lack of bonds only when granting them would       *)
(* drive a position below zero.                                            *)
RefusalsJustified ==
    [][\A k \in Tasks :
          task[k].outcome # "insufficient" /\ task'[k].outcome = "insufficient"
              => ~NonNegativeIn(After(k)')]_vars
=============================================================================
