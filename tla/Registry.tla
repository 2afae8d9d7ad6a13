------------------------------- MODULE Registry -----------------------------
(***************************************************************************)
(* BrokerService, BondService, AccountOperationService and the background  *)
(* fill of coupon schedules: concurrent calls on tables that refer to each *)
(* other.  A call checks what it has read, writes (flush), publishes its   *)
(* events inside the open database transaction and commits.  Between two   *)
(* of these steps other calls run, and each of them can fail.              *)
(***************************************************************************)
EXTENDS Naturals, FiniteSets

CONSTANTS
    Tasks,      \* concurrent calls
    Users,
    Names,      \* names of brokers
    Isins,
    LastId      \* table -> bound on its primary keys

Nobody == "nobody"
NoKey == "none"
Keys == Names \cup Isins
Ids == Nat \ {0}

ASSUME RegistryAssumption == Nobody \notin Users /\ NoKey \notin Keys

VARIABLES
    database,   \* "postgresql" or "sqlite": settings.database.driver
    rows,       \* the committed rows of all tables
    sequence,   \* table -> the last id its PostgreSQL sequence gave out
    call        \* task -> the call it is executing

vars == <<database, rows, sequence, call>>

Tables == INSTANCE Catalogue WITH
    Users <- Users, Keys <- Keys, Nobody <- Nobody, NoKey <- NoKey, Ids <- Ids, rows <- rows

Kinds == Tables!Kinds
ASSUME BoundAssumption == LastId \in [Kinds -> Nat]

Ref == Tables!Ref
RefOf(r) == Tables!RefOf(r)
RefsOf(S) == Tables!RefsOf(S)

To(kind, id) == [kind |-> kind, id |-> id]
RowOf(kind, owner, key, refs) ==
    [kind |-> kind, id |-> 0, owner |-> owner, key |-> key, refs |-> refs]

(* `gone`: what the call takes out.  `tells`: the users it is to tell, or  *)
(* Nobody for an event that is about no user; `told`: those it has told.   *)
Rest == [pc |-> "idle", op |-> "none", row |-> RowOf("none", Nobody, NoKey, {}),
         gone |-> {}, tells |-> {}, told |-> {}]
Phases == {"idle", "checked", "loaded", "flushed"}
Ops == {"create", "update", "delete"}

Init ==
    /\ database \in {"postgresql", "sqlite"}
    /\ rows = {}
    /\ sequence = [kind \in Kinds |-> 0]
    /\ call = [k \in Tasks |-> Rest]

-----------------------------------------------------------------------------
(* Reading.  A check that fails ends the call without a trace: it is not a *)
(* step.                                                                   *)
Has(kind, id) == \E r \in rows : RefOf(r) = To(kind, id)
KeyFree(kind, key) == ~\E r \in rows : r.kind = kind /\ r.key = key
OwnAccount(id, user) == \E r \in rows : RefOf(r) = To("account", id) /\ r.owner = user

Checked(k, op, row) ==
    /\ call[k].pc = "idle"
    /\ call' = [call EXCEPT ![k] =
                  [Rest EXCEPT !.pc = "checked", !.op = op, !.row = row]]
    /\ UNCHANGED <<database, rows, sequence>>

CreateBroker(k, name) ==
    /\ KeyFree("broker", name)
    /\ Checked(k, "create", RowOf("broker", Nobody, name, {}))

CreateAccount(k, user, broker) ==
    /\ Has("broker", broker)
    /\ Checked(k, "create", RowOf("account", user, NoKey, {To("broker", broker)}))

CreateBond(k, user, isin) ==
    /\ KeyFree("bond", isin)
    /\ Checked(k, "create", RowOf("bond", user, isin, {}))

CreateOperation(k, user, account) ==
    /\ OwnAccount(account, user)
    /\ Checked(k, "create", RowOf("operation", user, NoKey, {To("account", account)}))

(* add_transaction as far as references go: the bond is left to the        *)
(* foreign key.                                                            *)
AddTransaction(k, user, account, bond) ==
    /\ OwnAccount(account, user)
    /\ Checked(k, "create",
            RowOf("transaction", user, NoKey, {To("account", account), To("bond", bond)}))

(* populate_coupons: the bond is read, then the provider is asked. *)
PopulateCoupons(k, bond) ==
    /\ bond.kind = "bond"
    /\ Checked(k, "create", RowOf("coupon", Nobody, bond.key, {RefOf(bond)}))

UpdateBroker(k, broker, name) ==
    /\ broker.kind = "broker"
    /\ KeyFree("broker", name) \/ broker.key = name
    /\ Checked(k, "update", [broker EXCEPT !.key = name])

(* update_account and BondService.update change columns that nothing here  *)
(* depends on; what counts is that the row is written.                     *)
UpdateAccountOrBond(k, user, row) ==
    /\ row.kind \in {"account", "bond"} /\ row.owner = user
    /\ Checked(k, "update", row)

(* Fault: the new account is not looked up. *)
UpdateOperationUnchecked(k, user, operation, account) ==
    /\ operation.kind = "operation" /\ operation.owner = user
    /\ Checked(k, "update", [operation EXCEPT !.refs = {To("account", account)}])

UpdateOperation(k, user, operation, account) ==
    /\ operation.kind = "operation" /\ operation.owner = user
    /\ OwnAccount(account, user)
    /\ Checked(k, "update", [operation EXCEPT !.refs = {To("account", account)}])

(* Rows of `kinds` that refer to one of `refs`. *)
Below(refs, kinds) == {r \in rows : r.kind \in kinds /\ r.refs \cap refs # {}}

(* delete_broker counts accounts; anyone may delete. *)
DeleteBroker(k, broker) ==
    /\ broker.kind = "broker"
    /\ Below({RefOf(broker)}, {"account"}) = {}
    /\ Checked(k, "delete", broker)

(* delete_account counts transactions and operations. *)
DeleteAccount(k, user, account) ==
    /\ account.kind = "account" /\ account.owner = user
    /\ Below({RefOf(account)}, {"transaction", "operation"}) = {}
    /\ Checked(k, "delete", account)

(* BondService.delete counts transactions. *)
DeleteBond(k, user, bond) ==
    /\ bond.kind = "bond" /\ bond.owner = user
    /\ Below({RefOf(bond)}, {"transaction"}) = {}
    /\ Checked(k, "delete", bond)

DeleteLeaf(k, user, row) ==
    /\ row.kind \in {"operation", "transaction"} /\ row.owner = user
    /\ Checked(k, "delete", row)

Begin(k) ==
    \/ \E name \in Names : CreateBroker(k, name)
    \/ \E row \in rows :
          \/ \E name \in Names : UpdateBroker(k, row, name)
          \/ DeleteBroker(k, row) \/ PopulateCoupons(k, row)
    \/ \E user \in Users :
          \/ \E isin \in Isins : CreateBond(k, user, isin)
          \/ \E broker \in 1..LastId["broker"] : CreateAccount(k, user, broker)
          \/ \E account \in 1..LastId["account"] :
                \/ CreateOperation(k, user, account)
                \/ \E bond \in 1..LastId["bond"] : AddTransaction(k, user, account, bond)
    \/ \E user \in Users, row \in rows :
          \/ UpdateAccountOrBond(k, user, row)
          \/ \E account \in 1..LastId["account"] : UpdateOperation(k, user, row, account)
          \/ DeleteAccount(k, user, row) \/ DeleteBond(k, user, row) \/ DeleteLeaf(k, user, row)

-----------------------------------------------------------------------------
(* session.delete() loads what relationship(cascade="all, delete-orphan")  *)
(* takes along: accounts of a broker, transactions and operations of an    *)
(* account, transactions of a bond.  Coupons are left to the database.     *)
Loaded == Kinds \ {"coupon"}

Deleting(row) ==
    LET root == {RefOf(row)}
        below == RefsOf(Below(root, Loaded))
    IN  root \cup below \cup RefsOf(Below(below, Loaded))

(* The stored schedule of the bond that a schedule is for. *)
StoredFor(row) == RefsOf(Below(row.refs, {"coupon"}))

(* populate_coupons sends its DELETE, which goes by the rows committed at  *)
(* this moment.  (Their locks count from the flush on.)                    *)
Replacing(c) == c.op = "create" /\ c.row.kind = "coupon"

Load(k) ==
    /\ call[k].pc = "checked"
    /\ call[k].op = "delete" \/ Replacing(call[k])
    /\ call' = [call EXCEPT ![k].pc = "loaded",
                            ![k].gone = IF call[k].op = "delete" THEN Deleting(call[k].row)
                                        ELSE StoredFor(call[k].row)]
    /\ UNCHANGED <<database, rows, sequence>>

(* What a call that has flushed keeps from the others until it ends: rows  *)
(* it removes, the row it writes, the rows that row refers to, its key.    *)
Written(c) == IF c.op = "delete" THEN c.gone ELSE {RefOf(c.row)} \cup c.gone
Needed(c) == IF c.op = "delete" THEN {} ELSE c.row.refs
Takes(c, d) == c.op # "delete" /\ d.op # "delete" /\ Tables!SameKey(c.row, d.row)

Conflict(c, d) ==
    \/ database = "sqlite"        \* one writer at a time
    \/ Written(c) \cap Written(d) # {}
    \/ Written(c) \cap Needed(d) # {} /\ d.op # "delete" /\ c.op = "delete"
    \/ Written(d) \cap Needed(c) # {} /\ c.op # "delete" /\ d.op = "delete"
    \/ Takes(c, d)

(* Fault: nothing is waited for. *)
AnyTime(k, c) == TRUE
Granted(k, c) == \A j \in Tasks \ {k} : call[j].pc = "flushed" => ~Conflict(c, call[j])

(* SQLite gives the row that is inserted the largest id in use plus one,   *)
(* so the id of a removed last row comes back; a PostgreSQL sequence never *)
(* goes back.                                                              *)
ReusedId(c, id) ==
    LET left == {r.id : r \in {s \in rows : s.kind = c.row.kind /\ RefOf(s) \notin c.gone}}
    IN  (\A i \in left : i < id) /\ (id = 1 \/ id - 1 \in left)
NewId(c, id) ==
    IF database = "sqlite" THEN ReusedId(c, id) ELSE id = sequence[c.row.kind] + 1

(* Foreign keys and unique columns, as the flush finds them. *)
Sound(c) ==
    /\ Needed(c) \subseteq RefsOf(rows)
    /\ c.op # "delete" =>
          ~\E r \in rows : Tables!SameKey(r, c.row) /\ RefOf(r) # RefOf(c.row)
    /\ c.op = "update" => RefOf(c.row) \in RefsOf(rows)
    /\ c.op = "delete" => RefsOf(Below(c.gone, Kinds)) \subseteq c.gone

(* UPDATE sets the changed columns of whatever row has the id by now. *)
Merged(row) ==
    LET now == CHOOSE r \in rows : RefOf(r) = RefOf(row) IN
    CASE row.kind = "broker" -> [now EXCEPT !.key = row.key]
      [] row.kind = "operation" -> [now EXCEPT !.refs = row.refs]
      [] OTHER -> now

(* Fault: the stored schedule is left to be added to. *)
NothingReplaced(c) == {}

(* The rows that the DELETE of populate_coupons finds when it is not kept  *)
(* waiting any longer: on PostgreSQL (READ COMMITTED) those it went by     *)
(* that are still there, on SQLite, where it is what begins the writing    *)
(* transaction, those that are there.                                      *)
Replaced(c) ==
    IF ~Replacing(c) THEN {}
    ELSE IF database = "sqlite" THEN StoredFor(c.row) ELSE c.gone \cap StoredFor(c.row)

(* The call as its flush sends it. *)
Flushing(c, id) ==
    CASE c.op = "create" ->
            [c EXCEPT !.pc = "flushed", !.row = [c.row EXCEPT !.id = id], !.gone = Replaced(c)]
      [] c.op = "delete" ->
            [c EXCEPT !.pc = "flushed", !.gone = c.gone \cup RefsOf(Below(c.gone, {"coupon"}))]
      [] OTHER -> [c EXCEPT !.pc = "flushed",
                      !.row = IF Has(c.row.kind, c.row.id) THEN Merged(c.row) ELSE c.row]

Ready(k) ==
    call[k].pc = IF call[k].op = "delete" \/ Replacing(call[k]) THEN "loaded" ELSE "checked"

Publishing == {"broker", "account", "bond"}

(* The users with transactions on the bond of the call, as it sees them. *)
Holders(c) ==
    {t.owner : t \in {r \in Below({RefOf(c.row)}, {"transaction"}) : RefOf(r) \notin c.gone}}

Changes(c) == c.row.kind = "bond" /\ c.op # "create"

(* Fault: the owner of the bond is told for its holders. *)
OwnerForHolders(c) ==
    IF Changes(c) THEN {c.row.owner} ELSE IF c.row.kind \in Publishing THEN {Nobody} ELSE {}

(* Who will be told: the holders are read after the flush. *)
Audience(c) ==
    IF Changes(c) THEN Holders(c) ELSE IF c.row.kind \in Publishing THEN {Nobody} ELSE {}

End(k) == call' = [call EXCEPT ![k] = Rest]

Flush(k) ==
    /\ call[k].pc # "idle" /\ Ready(k)
    /\ \E id \in 1..LastId[call[k].row.kind] :
        LET creates == call[k].op = "create"  c == Flushing(call[k], id) IN
        /\ IF creates THEN NewId(c, id) ELSE id = 1
        /\ Granted(k, c) /\ Sound(c)
        /\ call' = [call EXCEPT ![k] = [c EXCEPT !.tells = Audience(c)]]
        /\ sequence' = IF creates /\ database = "postgresql"
                       THEN [sequence EXCEPT ![c.row.kind] = id] ELSE sequence
    /\ UNCHANGED <<database, rows>>

(* The database refuses the flush: a broken foreign key, a name or an ISIN *)
(* taken meanwhile, an updated row that is gone.  Rolled back.             *)
Refused(k) ==
    /\ call[k].pc # "idle" /\ Ready(k)
    /\ LET c == Flushing(call[k], 0) IN Granted(k, c) /\ ~Sound(c)
    /\ End(k)
    /\ UNCHANGED <<database, rows, sequence>>

(* The events go out one at a time, inside the open transaction. *)
Tell(k, user) ==
    /\ call[k].pc = "flushed"
    /\ user \in call[k].tells \ call[k].told
    /\ call' = [call EXCEPT ![k].told = @ \cup {user}]
    /\ UNCHANGED <<database, rows, sequence>>

(* A publish or the commit fails, whatever has been published by then, or  *)
(* the provider fails a populate, or its dates are taken: rolled back.     *)
Fails(k) ==
    /\ \/ call[k].pc = "flushed"
       \/ call[k].pc # "idle" /\ call[k].row.kind = "coupon"
    /\ End(k)
    /\ UNCHANGED <<database, rows, sequence>>

After(c) ==
    {r \in rows : RefOf(r) \notin Written(c)} \cup (IF c.op = "delete" THEN {} ELSE {c.row})

AllTold(c) == c.told = c.tells

Commit(k) ==
    /\ call[k].pc = "flushed"
    /\ AllTold(call[k])
    /\ rows' = After(call[k])
    /\ End(k)
    /\ UNCHANGED <<database, sequence>>

Next ==
    \E k \in Tasks :
        \/ Begin(k)
        \/ Load(k)
        \/ Flush(k)
        \/ Refused(k)
        \/ \E user \in Users \cup {Nobody} : Tell(k, user)
        \/ Fails(k)
        \/ Commit(k)

Spec == Init /\ [][Next]_vars

-----------------------------------------------------------------------------
(* list_accounts_for_user, joined with brokers. *)
AccountsOf(user) ==
    {a \in rows : /\ a.kind = "account" /\ a.owner = user
                  /\ \E b \in rows : b.kind = "broker" /\ RefOf(b) \in a.refs}

(* list_for_account, and the transactions of a position. *)
RowsOn(account, kind, user) ==
    {r \in rows : r.kind = kind /\ r.owner = user /\ RefOf(account) \in r.refs}

(* Besides the types: a PostgreSQL sequence is ahead of every id in its   *)
(* table.                                                                  *)
RegistryTypeOK ==
    /\ database \in {"postgresql", "sqlite"}
    /\ \A r \in rows : Tables!IsRow(r)
    /\ sequence \in [Kinds -> Nat]
    /\ database = "postgresql" => \A r \in rows : r.id <= sequence[r.kind]
    /\ \A k \in Tasks : call[k].pc \in Phases /\ call[k].gone \subseteq Ref

(* Interleaved calls add up to changes of the tables one at a time, after  *)
(* each of which every foreign key is satisfied, names and ISINs are       *)
(* unique and rows have kept their owners.                                 *)
CatalogueSpec == Tables!CatalogueSpec

(* The owner of an account is shown it and everything on it: "an operation *)
(* lives on a broker account owned by the same user", and so does a        *)
(* transaction.                                                            *)
Agree ==
    \A a \in rows : a.kind = "account" =>
        /\ a \in AccountsOf(a.owner)
        /\ \A kind \in {"operation", "transaction"} :
              RowsOn(a, kind, a.owner) = Below({RefOf(a)}, {kind})

(* On PostgreSQL the check of an account's owner is still right when the   *)
(* row is written, however long after and whatever happened to the account *)
(* between.                                                                *)
OwnersAgree == database = "postgresql" => Agree

(* Whatever replaces schedules and bonds at the same time: on SQLite a     *)
(* bond has one stored schedule at most, on PostgreSQL each one stored for *)
(* it is that of its ISIN, although the bond was looked up before the      *)
(* provider was asked.  (Neither holds on the other database, see          *)
(* ScheduleOfBond.)                                                        *)
SchedulesKept ==
    \A r, b \in rows :
        r.kind = "coupon" /\ RefOf(b) \in r.refs =>
            IF database = "postgresql" THEN r.key = b.key
            ELSE \A s \in rows : s.kind = "coupon" /\ s.refs = r.refs => s = r

(* Documented: populate_coupons replaces a bond's schedule with the one    *)
(* its ISIN has at the exchange.                                           *)
ScheduleOfBond ==
    \A r, b \in rows : r.kind = "coupon" /\ RefOf(b) \in r.refs => r.key = b.key

(* On SQLite the change of a bond is not committed before every user who   *)
(* has transactions on it then has been told, whatever was written while   *)
(* the call waited or published.                                           *)
HoldersTold ==
    database = "sqlite" =>
        \A k \in Tasks :
            call[k].pc = "flushed" /\ Changes(call[k]) /\ AllTold(call[k])
                => Holders(call[k]) \subseteq call[k].told

(* Deleting a broker, an account or a bond takes no account, transaction   *)
(* or operation with it (it is refused while there are any).               *)
DeletionsAlone ==
    [][\A k \in Tasks : call[k].op = "delete" /\ call[k].pc = "flushed" /\ call'[k].pc = "idle"
          => \A r \in rows \ rows' : RefOf(r) = RefOf(call[k].row) \/ r.kind = "coupon"]_vars
=============================================================================
