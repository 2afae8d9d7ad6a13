--------------------------- MODULE Registry_proofs ---------------------------
(***************************************************************************)
(* Proofs about Registry for every number of calls, users, names, ISINs    *)
(* and rows, on both databases.                                            *)
(***************************************************************************)
EXTENDS Registry, TLAPS

Parents(kind) == Tables!Parents(kind)
SameKey(r, s) == Tables!SameKey(r, s)
TakenAlong(kind) == Tables!TakenAlong(kind)

-----------------------------------------------------------------------------
(* The types.  The row of a call is complete but for the id an insert has  *)
(* not been given yet.                                                     *)
RowSet == [kind : Kinds \cup {"none"}, id : Nat, owner : Users \cup {Nobody},
           key : Keys \cup {NoKey}, refs : SUBSET Ref]
CallSet == [pc : Phases, op : Ops \cup {"none"}, row : RowSet, gone : SUBSET Ref,
            tells : SUBSET (Users \cup {Nobody}), told : SUBSET (Users \cup {Nobody})]

Formed(r) ==
    /\ r.kind \in Kinds
    /\ {p.kind : p \in r.refs} = Parents(r.kind)
    /\ r.kind = "coupon" => \E p \in r.refs : r.refs = {p}

Types ==
    /\ database \in {"postgresql", "sqlite"}
    /\ rows \subseteq RowSet
    /\ \A r \in rows : Formed(r) /\ r.id \in Ids
    /\ sequence \in [Kinds -> Nat]
    /\ call \in [Tasks -> CallSet]

(* What a call is about, whatever the tables hold. *)
Begun(c) ==
    /\ Formed(c.row) /\ c.op \in Ops
    /\ c.op # "create" \/ c.pc = "flushed" => c.row.id \in Ids
    /\ c.pc = "checked" => c.gone = {}
    /\ c.pc = "loaded" => c.op = "delete" \/ Replacing(c)
    /\ c.op = "update" => c.row.kind \in {"broker", "account", "bond", "operation"} /\ c.gone = {}
    /\ c.op = "create" => \A g \in c.gone : g.kind = "coupon" /\ c.row.kind = "coupon"
    /\ c.op = "delete" /\ c.pc # "checked" =>
          /\ \A g \in c.gone : g.kind \in {c.row.kind} \cup TakenAlong(c.row.kind)
          /\ \A g \in c.gone : g.kind = c.row.kind => g = RefOf(c.row)
Calls == \A k \in Tasks : call[k].pc # "idle" => Begun(call[k])

TypeInv == Types /\ Calls

-----------------------------------------------------------------------------
(* The tables as the database keeps them. *)
OneRowPerRef == \A r, s \in rows : RefOf(r) = RefOf(s) => r = s
OneSchedule ==
    \A r, s \in rows : r.kind = "coupon" /\ s.kind = "coupon" /\ r.refs = s.refs => r = s
TablesInv ==
    /\ Tables!ReferencesLive
    /\ Tables!KeysUnique
    /\ OneRowPerRef
    /\ database = "sqlite" => OneSchedule

(* What a flush has found, and the locks it has taken since keep.          *)
Replaces(c, r) == c.row.kind = "coupon" /\ r.kind = "coupon" /\ r.refs = c.row.refs
Founded(c) ==
    /\ Needed(c) \subseteq RefsOf(rows)
    /\ c.op # "delete" => \A r \in rows : SameKey(r, c.row) => RefOf(r) = RefOf(c.row)
    /\ c.op = "create" =>
          /\ \A r \in rows : RefOf(r) = RefOf(c.row) => RefOf(r) \in c.gone
          /\ \A r \in rows : RefOf(r) \in c.gone => Replaces(c, r)
          /\ database = "sqlite" => \A r \in rows : Replaces(c, r) => RefOf(r) \in c.gone
    /\ c.op = "update" =>
          \E r \in rows : /\ RefOf(r) = RefOf(c.row) /\ r.owner = c.row.owner
                          /\ r.kind = "bond" => r.key = c.row.key
    /\ c.op = "delete" => \A r \in rows : r.refs \cap c.gone # {} => RefOf(r) \in c.gone

Founding == \A k \in Tasks : call[k].pc = "flushed" => Founded(call[k])
Apart ==
    \A j, k \in Tasks :
        j # k /\ call[j].pc = "flushed" /\ call[k].pc = "flushed" => ~Conflict(call[j], call[k])

(* A PostgreSQL sequence is ahead of every id it has given. *)
Numbered ==
    database = "postgresql" =>
        /\ \A r \in rows : r.id <= sequence[r.kind]
        /\ \A k \in Tasks : call[k].pc = "flushed" /\ call[k].op # "delete" =>
              call[k].row.id <= sequence[call[k].row.kind]

TableInv == TypeInv /\ TablesInv /\ Founding /\ Apart /\ Numbered

-----------------------------------------------------------------------------
(* PostgreSQL: an id that has been seen is never given to another row, so  *)
(* what was read of the row is true of it for as long as it exists.        *)
Inserting(j) == call[j].pc = "flushed" /\ call[j].op = "create"
Settled(p) ==
    /\ p.id <= sequence[p.kind]
    /\ \A j \in Tasks : Inserting(j) => RefOf(call[j].row) # p

OwnerKnown(p, owner) == Settled(p) /\ \A r \in rows : RefOf(r) = p => r.owner = owner
KeyKnown(p, key) == Settled(p) /\ \A r \in rows : RefOf(r) = p => r.key = key

OnAccount == {"operation", "transaction"}
Remembered(c) ==
    /\ c.op = "update" => OwnerKnown(RefOf(c.row), c.row.owner)
    /\ c.op # "delete" /\ c.row.kind \in OnAccount =>
          \A p \in c.row.refs : p.kind = "account" => OwnerKnown(p, c.row.owner)
    /\ c.row.kind = "coupon" => \A p \in c.row.refs : KeyKnown(p, c.row.key)

Memory == \A k \in Tasks : call[k].pc # "idle" => Remembered(call[k])
OwnersFollow ==
    \A r, a \in rows : r.kind \in OnAccount /\ a.kind = "account" /\ RefOf(a) \in r.refs =>
        r.owner = a.owner
KeysFollow ==
    \A r, b \in rows : r.kind = "coupon" /\ RefOf(b) \in r.refs => r.key = b.key

PostgresInv ==
    database = "postgresql" => Memory /\ OwnersFollow /\ KeysFollow

RegistryInv == TableInv /\ PostgresInv

-----------------------------------------------------------------------------
(* A reference names a table and an id. *)
LEMMA RefIsPair ==
  /\ \A r : RefOf(r).kind = r.kind /\ RefOf(r).id = r.id
  /\ \A r, s : RefOf(r) = RefOf(s) <=> r.kind = s.kind /\ r.id = s.id
  /\ \A r : r.kind \in Kinds /\ r.id \in Ids => RefOf(r) \in Ref
  /\ \A p \in Ref : p.kind \in Kinds /\ p.id \in Ids /\ p = To(p.kind, p.id)
  /\ \A r, kind, id : RefOf(r) = To(kind, id) <=> r.kind = kind /\ r.id = id
  BY DEF RefOf, Tables!RefOf, Ref, Tables!Ref, Kinds, To

(* Which tables refer to which. *)
LEMMA ParentsKnown ==
  /\ Parents("broker") = {} /\ Parents("bond") = {}
  /\ Parents("account") = {"broker"}
  /\ Parents("operation") = {"account"}
  /\ Parents("transaction") = {"account", "bond"}
  /\ Parents("coupon") = {"bond"}
  BY DEF Parents, Tables!Parents

(* Which tables lose rows with a row. *)
LEMMA TakenAlongKnown ==
  /\ TakenAlong("broker") = {"account", "operation", "transaction"}
  /\ TakenAlong("account") = {"operation", "transaction"}
  /\ TakenAlong("bond") = {"transaction", "coupon"}
  /\ TakenAlong("operation") = {} /\ TakenAlong("transaction") = {} /\ TakenAlong("coupon") = {}
  BY DEF TakenAlong, Tables!TakenAlong

(* A call that has just been checked. *)
NewCall(op, row) == [Rest EXCEPT !.pc = "checked", !.op = op, !.row = row]

LEMMA RestIsCall == Rest \in CallSet /\ Rest.pc = "idle"
  BY DEF Rest, CallSet, Phases, RowSet, RowOf

LEMMA NewCallFields ==
  ASSUME NEW op \in Ops, NEW row \in RowSet
  PROVE  /\ NewCall(op, row) \in CallSet
         /\ NewCall(op, row).pc = "checked" /\ NewCall(op, row).op = op
         /\ NewCall(op, row).row = row /\ NewCall(op, row).gone = {}
  BY DEF NewCall, Rest, CallSet, Phases

LEMMA NewCallBegun ==
  ASSUME NEW op \in Ops, NEW row \in RowSet
  PROVE  /\ Formed(row)
         /\ op # "create" => row.id \in Ids
         /\ op = "update" => row.kind \in {"broker", "account", "bond", "operation"}
         => Begun(NewCall(op, row))
<1>. DEFINE c == NewCall(op, row)
<1>1. c.pc = "checked" /\ c.op = op /\ c.row = row /\ c.gone = {}
  BY NewCallFields
<1>. HIDE DEF c
<1>2. /\ Formed(row)
      /\ op # "create" => row.id \in Ids
      /\ op = "update" => row.kind \in {"broker", "account", "bond", "operation"}
      => Begun(c)
  BY <1>1 DEF Begun
<1>. QED
  BY <1>2 DEF c

LEMMA RowOfFields ==
  ASSUME NEW kind \in Kinds, NEW owner \in Users \cup {Nobody}, NEW key \in Keys \cup {NoKey},
         NEW refs \in SUBSET Ref
  PROVE  /\ RowOf(kind, owner, key, refs) \in RowSet
         /\ RowOf(kind, owner, key, refs).kind = kind
         /\ RowOf(kind, owner, key, refs).owner = owner
         /\ RowOf(kind, owner, key, refs).key = key
         /\ RowOf(kind, owner, key, refs).refs = refs
  BY DEF RowOf, RowSet

LEMMA WithKey ==
  ASSUME NEW r \in RowSet, NEW key \in Keys \cup {NoKey}
  PROVE  /\ [r EXCEPT !.key = key] \in RowSet
         /\ [r EXCEPT !.key = key].kind = r.kind /\ [r EXCEPT !.key = key].id = r.id
         /\ [r EXCEPT !.key = key].owner = r.owner /\ [r EXCEPT !.key = key].refs = r.refs
         /\ [r EXCEPT !.key = key].key = key
  BY DEF RowSet

LEMMA WithRefs ==
  ASSUME NEW r \in RowSet, NEW refs \in SUBSET Ref
  PROVE  /\ [r EXCEPT !.refs = refs] \in RowSet
         /\ [r EXCEPT !.refs = refs].kind = r.kind /\ [r EXCEPT !.refs = refs].id = r.id
         /\ [r EXCEPT !.refs = refs].owner = r.owner /\ [r EXCEPT !.refs = refs].key = r.key
         /\ [r EXCEPT !.refs = refs].refs = refs
  BY DEF RowSet

LEMMA WithId ==
  ASSUME NEW r \in RowSet, NEW id \in Nat
  PROVE  /\ [r EXCEPT !.id = id] \in RowSet
         /\ [r EXCEPT !.id = id].kind = r.kind /\ [r EXCEPT !.id = id].id = id
         /\ [r EXCEPT !.id = id].owner = r.owner /\ [r EXCEPT !.id = id].key = r.key
         /\ [r EXCEPT !.id = id].refs = r.refs
  BY DEF RowSet

(* What a check has read of the rows a call is about to depend on. *)
HasRead(op, row) ==
    /\ op = "update" => \E r \in rows : RefOf(r) = RefOf(row) /\ r.owner = row.owner
    /\ op # "delete" /\ row.kind \in OnAccount =>
          \A p \in row.refs : p.kind = "account" =>
              \E a \in rows : RefOf(a) = p /\ a.owner = row.owner
    /\ row.kind = "coupon" => \A p \in row.refs : \E b \in rows : RefOf(b) = p /\ b.key = row.key

Beginning(k, op, row) ==
    /\ op \in Ops /\ row \in RowSet /\ Checked(k, op, row)
    /\ Begun(NewCall(op, row)) /\ HasRead(op, row)

(* The same from fields, for a row that is created. *)
LEMMA CreateBegins ==
  ASSUME NEW k \in Tasks, NEW kind \in Kinds, NEW owner \in Users \cup {Nobody},
         NEW key \in Keys \cup {NoKey}, NEW refs \in SUBSET Ref,
         {p.kind : p \in refs} = Parents(kind),
         kind = "coupon" => \E p \in refs : refs = {p},
         kind \in OnAccount => \A p \in refs : p.kind = "account" =>
             \E a \in rows : RefOf(a) = p /\ a.owner = owner,
         kind = "coupon" => \A p \in refs : \E b \in rows : RefOf(b) = p /\ b.key = key,
         Checked(k, "create", RowOf(kind, owner, key, refs))
  PROVE  \E op, row : Beginning(k, op, row)
<1>. DEFINE row == RowOf(kind, owner, key, refs)
<1>1. /\ row \in RowSet /\ row.kind = kind /\ row.owner = owner
      /\ row.key = key /\ row.refs = refs
  BY RowOfFields
<1>. HIDE DEF row
<1>2. "create" \in Ops
  BY DEF Ops
<1>3. Begun(NewCall("create", row))
  <2>1. Formed(row)
    BY <1>1 DEF Formed
  <2>. QED
    BY <1>1, <1>2, <2>1, NewCallBegun
<1>4. HasRead("create", row)
  BY <1>1 DEF HasRead
<1>5. Checked(k, "create", row)
  BY DEF row
<1>. QED
  BY <1>1, <1>2, <1>3, <1>4, <1>5 DEF Beginning

(* For one that is changed. *)
LEMMA UpdateBegins ==
  ASSUME Types, NEW k \in Tasks, NEW old \in rows, NEW row \in RowSet, Formed(row),
         row.kind = old.kind, row.id = old.id, row.owner = old.owner,
         row.kind \in {"broker", "account", "bond", "operation"},
         row.kind = "operation" => \A p \in row.refs :
             \E a \in rows : RefOf(a) = p /\ a.owner = row.owner,
         Checked(k, "update", row)
  PROVE  \E op, r : Beginning(k, op, r)
<1>1. "update" \in Ops
  BY DEF Ops
<1>2. Begun(NewCall("update", row))
  BY <1>1, NewCallBegun DEF Types
<1>3. HasRead("update", row)
  BY RefIsPair DEF HasRead, OnAccount
<1>. QED
  BY <1>1, <1>2, <1>3 DEF Beginning

(* For one that is deleted. *)
LEMMA DeleteBegins ==
  ASSUME Types, NEW k \in Tasks, NEW row \in rows, row.kind # "coupon",
         Checked(k, "delete", row)
  PROVE  \E op, r : Beginning(k, op, r)
<1>1. "delete" \in Ops /\ row \in RowSet
  BY DEF Ops, Types
<1>2. Begun(NewCall("delete", row))
  BY <1>1, NewCallBegun DEF Types
<1>3. HasRead("delete", row)
  BY DEF HasRead
<1>. QED
  BY <1>1, <1>2, <1>3 DEF Beginning

(* An account that was found is a row to refer to. *)
LEMMA AccountFound ==
  ASSUME Types, NEW account, NEW user, OwnAccount(account, user)
  PROVE  /\ To("account", account) \in Ref
         /\ To("account", account).kind = "account"
         /\ \E a \in rows : RefOf(a) = To("account", account) /\ a.owner = user
<1>1. PICK a \in rows : RefOf(a) = To("account", account) /\ a.owner = user
  BY DEF OwnAccount
<1>2. a.kind \in Kinds /\ a.id \in Ids
  BY DEF Types, Formed
<1>3. To("account", account) \in Ref
  BY <1>1, <1>2, RefIsPair
<1>. QED
  BY <1>1, <1>3 DEF To

(* Every call starts on a row that is well formed, and on what it has read. *)
LEMMA BeginEffect ==
  ASSUME Types, NEW k \in Tasks, Begin(k)
  PROVE  \E op, row : Beginning(k, op, row)
<1>. DEFINE Begins == \E op, row : Beginning(k, op, row)
<1>0. /\ NoKey \in Keys \cup {NoKey} /\ Names \subseteq Keys /\ Isins \subseteq Keys
      /\ Nobody \in Users \cup {Nobody}
  BY DEF Keys
<1>1. ASSUME NEW name \in Names, CreateBroker(k, name) PROVE Begins
  <2>1. {p.kind : p \in {}} = Parents("broker") /\ "broker" \in Kinds /\ name \in Keys \cup {NoKey}
    BY <1>0, ParentsKnown DEF Kinds, Tables!Kinds
  <2>. QED
    BY <1>0, <1>1, <2>1, CreateBegins DEF CreateBroker, OnAccount
<1>2. ASSUME NEW row \in rows, NEW name \in Names, UpdateBroker(k, row, name) PROVE Begins
  <2>. DEFINE new == [row EXCEPT !.key = name]
  <2>1. row \in RowSet /\ Formed(row) /\ name \in Keys \cup {NoKey}
    BY <1>0 DEF Types
  <2>2. /\ new \in RowSet /\ new.kind = row.kind /\ new.id = row.id
        /\ new.owner = row.owner /\ new.refs = row.refs
    BY <2>1, WithKey
  <2>3. Checked(k, "update", new) /\ row.kind = "broker"
    BY <1>2 DEF UpdateBroker
  <2>. HIDE DEF new
  <2>4. Formed(new)
    BY <2>1, <2>2 DEF Formed
  <2>. QED
    BY <2>2, <2>3, <2>4, UpdateBegins
<1>3. ASSUME NEW row \in rows, DeleteBroker(k, row) PROVE Begins
  BY <1>3, DeleteBegins DEF DeleteBroker
<1>4. ASSUME NEW row \in rows, PopulateCoupons(k, row) PROVE Begins
  <2>1. row.kind = "bond" /\ RefOf(row) \in Ref /\ RefOf(row).kind = "bond" /\ row.key \in Keys \cup {NoKey}
    BY <1>4, RefIsPair DEF PopulateCoupons, Types, Formed, RowSet
  <2>2. {p.kind : p \in {RefOf(row)}} = Parents("coupon") /\ "coupon" \in Kinds
    BY <2>1, ParentsKnown DEF Kinds, Tables!Kinds
  <2>3. {RefOf(row)} \in SUBSET Ref /\ Checked(k, "create", RowOf("coupon", Nobody, row.key, {RefOf(row)}))
    BY <1>4, <2>1 DEF PopulateCoupons
  <2>4. "coupon" \notin OnAccount
    BY DEF OnAccount
  <2>. QED
    BY <1>0, <2>1, <2>2, <2>3, <2>4, CreateBegins
<1>5. ASSUME NEW user \in Users, NEW isin \in Isins, CreateBond(k, user, isin) PROVE Begins
  <2>1. {p.kind : p \in {}} = Parents("bond") /\ "bond" \in Kinds /\ isin \in Keys \cup {NoKey}
    BY <1>0, ParentsKnown DEF Kinds, Tables!Kinds
  <2>. QED
    BY <1>5, <2>1, CreateBegins DEF CreateBond, OnAccount
<1>6. ASSUME NEW user \in Users, NEW broker, CreateAccount(k, user, broker) PROVE Begins
  <2>. DEFINE p == To("broker", broker)
  <2>1. PICK b \in rows : RefOf(b) = p
    BY <1>6 DEF CreateAccount, Has
  <2>2. p \in Ref /\ p.kind = "broker"
    BY <2>1, RefIsPair DEF Types, Formed, To
  <2>3. Checked(k, "create", RowOf("account", user, NoKey, {p}))
    BY <1>6 DEF CreateAccount
  <2>. HIDE DEF p
  <2>4. {q.kind : q \in {p}} = Parents("account") /\ "account" \in Kinds
    BY <2>2, ParentsKnown DEF Kinds, Tables!Kinds
  <2>5. "account" \notin OnAccount /\ {p} \in SUBSET Ref
    BY <2>2 DEF OnAccount
  <2>. QED
    BY <1>0, <2>3, <2>4, <2>5, CreateBegins
<1>7. ASSUME NEW user \in Users, NEW account, CreateOperation(k, user, account) PROVE Begins
  <2>. DEFINE p == To("account", account)
  <2>1. p \in Ref /\ p.kind = "account" /\ \E a \in rows : RefOf(a) = p /\ a.owner = user
    BY <1>7, AccountFound DEF CreateOperation
  <2>2. Checked(k, "create", RowOf("operation", user, NoKey, {p}))
    BY <1>7 DEF CreateOperation
  <2>. HIDE DEF p
  <2>3. {q.kind : q \in {p}} = Parents("operation") /\ "operation" \in Kinds
    BY <2>1, ParentsKnown DEF Kinds, Tables!Kinds
  <2>4. {p} \in SUBSET Ref
    BY <2>1
  <2>. QED
    BY <1>0, <2>1, <2>2, <2>3, <2>4, CreateBegins
<1>8. ASSUME NEW user \in Users, NEW account, NEW bond \in 1..LastId["bond"],
             AddTransaction(k, user, account, bond)
      PROVE  Begins
  <2>. DEFINE p == To("account", account)  q == To("bond", bond)
  <2>1. p \in Ref /\ p.kind = "account" /\ \E a \in rows : RefOf(a) = p /\ a.owner = user
    BY <1>8, AccountFound DEF AddTransaction
  <2>2. q \in Ref /\ q.kind = "bond"
    <3>1. bond \in Ids
      BY BoundAssumption DEF Ids, Kinds, Tables!Kinds
    <3>. QED
      BY <3>1 DEF To, Ref, Tables!Ref, Kinds, Tables!Kinds
  <2>3. Checked(k, "create", RowOf("transaction", user, NoKey, {p, q}))
    BY <1>8 DEF AddTransaction
  <2>. HIDE DEF p, q
  <2>4. {r.kind : r \in {p, q}} = Parents("transaction") /\ "transaction" \in Kinds
    BY <2>1, <2>2, ParentsKnown DEF Kinds, Tables!Kinds
  <2>5. {p, q} \in SUBSET Ref
    BY <2>1, <2>2
  <2>6. \A r \in {p, q} : r.kind = "account" => \E a \in rows : RefOf(a) = r /\ a.owner = user
    BY <2>1, <2>2
  <2>. QED
    BY <1>0, <2>3, <2>4, <2>5, <2>6, CreateBegins
<1>9. ASSUME NEW user \in Users, NEW row \in rows, UpdateAccountOrBond(k, user, row) PROVE Begins
  BY <1>9, UpdateBegins DEF UpdateAccountOrBond, Types
<1>10. ASSUME NEW user \in Users, NEW row \in rows, NEW account, UpdateOperation(k, user, row, account)
       PROVE  Begins
  <2>. DEFINE p == To("account", account)  new == [row EXCEPT !.refs = {p}]
  <2>1. p \in Ref /\ p.kind = "account" /\ \E a \in rows : RefOf(a) = p /\ a.owner = user
    BY <1>10, AccountFound DEF UpdateOperation
  <2>2. Checked(k, "update", new) /\ row.kind = "operation" /\ row.owner = user
    BY <1>10 DEF UpdateOperation
  <2>3. row \in RowSet
    BY DEF Types
  <2>. HIDE DEF p
  <2>4. /\ new \in RowSet /\ new.kind = row.kind /\ new.id = row.id
        /\ new.owner = row.owner /\ new.refs = {p}
    BY <2>1, <2>3, WithRefs
  <2>. HIDE DEF new
  <2>5. Formed(new)
    BY <2>1, <2>2, <2>4, ParentsKnown DEF Formed, Kinds, Tables!Kinds
  <2>. QED
    BY <2>1, <2>2, <2>4, <2>5, UpdateBegins
<1>11. ASSUME NEW user \in Users, NEW row \in rows,
              DeleteAccount(k, user, row) \/ DeleteBond(k, user, row) \/ DeleteLeaf(k, user, row)
       PROVE  Begins
  BY <1>11, DeleteBegins DEF DeleteAccount, DeleteBond, DeleteLeaf
<1>. HIDE DEF Begins
<1>12. Begins
  BY <1>1, <1>2, <1>3, <1>4, <1>5, <1>6, <1>7, <1>8, <1>9, <1>10, <1>11 DEF Begin
<1>. QED
  BY <1>12 DEF Begins

-----------------------------------------------------------------------------
(* Two calls conflict with each other, or neither does with the other. *)
LEMMA ConflictSymmetric == \A c, d : Conflict(c, d) <=> Conflict(d, c)
<1>1. \A c, d : Takes(c, d) <=> Takes(d, c)
  BY DEF Takes, Tables!SameKey
<1>2. \A c, d : Written(c) \cap Written(d) = Written(d) \cap Written(c)
  OBVIOUS
<1>. QED
  BY <1>1, <1>2 DEF Conflict

(* What a flush has found depends on the rows alone. *)
LEMMA FoundedSame ==
  ASSUME rows' = rows, database' = database
  PROVE  \A c : Founded(c)' <=> Founded(c)
<1>1. \A c : Needed(c)' = Needed(c) /\ RefsOf(rows)' = RefsOf(rows)
  BY DEF Needed, RefsOf
<1>. QED
  BY <1>1 DEF Founded, Replaces

(* Steps that change one call and no row. *)
LEMMA CallStep ==
  ASSUME TableInv, NEW k \in Tasks, NEW c \in CallSet,
         call' = [call EXCEPT ![k] = c], rows' = rows, database' = database,
         sequence' \in [Kinds -> Nat],
         \A kind \in Kinds : sequence[kind] <= sequence'[kind],
         database = "postgresql" /\ c.pc = "flushed" /\ c.op # "delete" => c.row.id <= sequence'[c.row.kind],
         c.pc # "idle" => Begun(c),
         c.pc = "flushed" => Founded(c),
         c.pc = "flushed" => \A j \in Tasks \ {k} : call[j].pc = "flushed" => ~Conflict(c, call[j])
  PROVE  TableInv'
<1>1. /\ call'[k] = c /\ call' \in [Tasks -> CallSet]
      /\ \A j \in Tasks : j # k => call'[j] = call[j]
  BY DEF TableInv, TypeInv, Types
<1>2. Types'
  BY <1>1 DEF TableInv, TypeInv, Types
<1>3. Calls'
  BY <1>1 DEF TableInv, TypeInv, Calls
<1>4. TablesInv'
  BY DEF TableInv, TablesInv, OneRowPerRef, OneSchedule, Tables!ReferencesLive, Tables!KeysUnique
<1>5. Founding'
  BY <1>1, FoundedSame DEF TableInv, Founding
<1>6. Apart'
  <2>1. ASSUME NEW i \in Tasks, NEW j \in Tasks, i # j, call'[i].pc = "flushed", call'[j].pc = "flushed"
        PROVE  ~Conflict(call'[i], call'[j])
    <3>1. CASE i # k /\ j # k
      BY <1>1, <2>1, <3>1 DEF TableInv, Apart
    <3>2. CASE i = k
      BY <1>1, <2>1, <3>2
    <3>3. CASE j = k
      BY <1>1, <2>1, <3>3, ConflictSymmetric
    <3>. QED
      BY <3>1, <3>2, <3>3
  <2>2. \A x, y : Conflict(x, y)' <=> Conflict(x, y)
    BY DEF Conflict, Takes, Written, Needed
  <2>. QED
    BY <2>1, <2>2 DEF Apart
<1>7. Numbered'
  <2>1. ASSUME database = "postgresql", NEW r \in rows PROVE r.id <= sequence'[r.kind]
    <3>1. r.id <= sequence[r.kind] /\ r.kind \in Kinds /\ r.id \in Nat
      BY <2>1 DEF TableInv, TypeInv, Types, Formed, Numbered, RowSet
    <3>2. sequence[r.kind] \in Nat /\ sequence'[r.kind] \in Nat /\ sequence[r.kind] <= sequence'[r.kind]
      BY <3>1 DEF TableInv, TypeInv, Types
    <3>. QED
      BY <3>1, <3>2
  <2>2. ASSUME database = "postgresql", NEW j \in Tasks, call'[j].pc = "flushed",
               call'[j].op # "delete"
        PROVE  call'[j].row.id <= sequence'[call'[j].row.kind]
    <3>1. CASE j = k
      BY <1>1, <2>2, <3>1
    <3>2. CASE j # k
      <4>. DEFINE row == call[j].row
      <4>1. call'[j] = call[j] /\ call[j].pc = "flushed" /\ call[j] \in CallSet
        BY <1>1, <2>2, <3>2 DEF TableInv, TypeInv, Types
      <4>2. row.kind \in Kinds
        BY <4>1 DEF TableInv, TypeInv, Calls, Begun, Formed
      <4>3. row.id \in Nat /\ row.id <= sequence[row.kind]
        BY <2>2, <4>1 DEF TableInv, Numbered, CallSet, RowSet
      <4>4. sequence[row.kind] \in Nat /\ sequence'[row.kind] \in Nat /\ sequence[row.kind] <= sequence'[row.kind]
        BY <4>2 DEF TableInv, TypeInv, Types
      <4>5. row.id <= sequence'[row.kind]
        BY <4>3, <4>4
      <4>. QED
        BY <4>1, <4>5
    <3>. QED
      BY <3>1, <3>2
  <2>. QED
    BY <2>1, <2>2 DEF Numbered
<1>. QED
  BY <1>2, <1>3, <1>4, <1>5, <1>6, <1>7 DEF TableInv, TypeInv

(* Most steps give no id. *)
LEMMA QuietStep ==
  ASSUME TableInv, NEW k \in Tasks, NEW c \in CallSet,
         call' = [call EXCEPT ![k] = c], rows' = rows, database' = database,
         sequence' = sequence, c.pc # "flushed",
         c.pc # "idle" => Begun(c)
  PROVE  TableInv'
<1>1. sequence' \in [Kinds -> Nat] /\ \A kind \in Kinds : sequence[kind] <= sequence'[kind]
  BY DEF TableInv, TypeInv, Types
<1>. QED
  BY <1>1, CallStep

(* A call that ends without having written. *)
LEMMA EndStep ==
  ASSUME TableInv, NEW k \in Tasks, End(k), UNCHANGED <<database, rows, sequence>>
  PROVE  TableInv'
<1>1. Rest \in CallSet /\ Rest.pc = "idle"
  BY RestIsCall
<1>2. call' = [call EXCEPT ![k] = Rest]
  BY DEF End
<1>. QED
  BY <1>1, <1>2, QuietStep

(* One that begins. *)
LEMMA BeginStep ==
  ASSUME TableInv, NEW k \in Tasks, Begin(k)
  PROVE  TableInv'
<1>1. PICK op, row : Beginning(k, op, row)
  BY BeginEffect DEF TableInv, TypeInv
<1>. DEFINE c == NewCall(op, row)
<1>2. op \in Ops /\ row \in RowSet
  BY <1>1 DEF Beginning
<1>3. c \in CallSet /\ c.pc = "checked"
  BY <1>2, NewCallFields
<1>4. /\ call' = [call EXCEPT ![k] = c]
      /\ rows' = rows /\ database' = database /\ sequence' = sequence
  BY <1>1 DEF Beginning, Checked, NewCall
<1>5. Begun(c)
  BY <1>1 DEF Beginning
<1>. HIDE DEF c
<1>. QED
  BY <1>3, <1>4, <1>5, QuietStep

(* An announced change. *)
LEMMA TellStep ==
  ASSUME TableInv, NEW k \in Tasks, NEW user, Tell(k, user)
  PROVE  TableInv'
<1>. DEFINE c == [call[k] EXCEPT !.told = @ \cup {user}]
<1>1. call[k] \in CallSet /\ call[k].pc = "flushed" /\ user \in call[k].tells
  BY DEF Tell, TableInv, TypeInv, Types
<1>2. /\ c \in CallSet /\ c.pc = call[k].pc /\ c.op = call[k].op
      /\ c.row = call[k].row /\ c.gone = call[k].gone
  BY <1>1 DEF CallSet
<1>3. /\ call' = [call EXCEPT ![k] = c]
      /\ rows' = rows /\ database' = database /\ sequence' \in [Kinds -> Nat]
  BY DEF Tell, TableInv, TypeInv, Types
<1>. HIDE DEF c
<1>4. Begun(c)
  <2>1. Begun(call[k])
    BY <1>1 DEF TableInv, TypeInv, Calls
  <2>. QED
    BY <1>2, <2>1 DEF Begun, Replacing
<1>5. Founded(c)
  <2>1. Founded(call[k])
    BY <1>1 DEF TableInv, Founding
  <2>. QED
    BY <1>2, <2>1 DEF Founded, Needed, Replaces
<1>6. \A j \in Tasks \ {k} : call[j].pc = "flushed" => ~Conflict(c, call[j])
  <2>1. \A d : Conflict(c, d) <=> Conflict(call[k], d)
    BY <1>2 DEF Conflict, Takes, Written, Needed
  <2>. QED
    BY <1>1, <2>1 DEF TableInv, Apart
<1>7. /\ \A kind \in Kinds : sequence[kind] <= sequence'[kind]
      /\ database = "postgresql" /\ c.op # "delete" => c.row.id <= sequence'[c.row.kind]
  BY <1>1, <1>2 DEF Tell, TableInv, TypeInv, Types, Numbered
<1>. QED
  BY <1>1, <1>2, <1>3, <1>4, <1>5, <1>6, <1>7, CallStep

(* The rows that hang from rows are of the tables below theirs. *)
LEMMA BelowKinds ==
  ASSUME Types, NEW refs \in SUBSET Ref, NEW kinds, NEW g \in RefsOf(Below(refs, kinds))
  PROVE  /\ g \in Ref /\ g.kind \in kinds
         /\ \E p \in refs : p.kind \in Parents(g.kind)
         /\ \E r \in rows : RefOf(r) = g
<1>1. PICK r \in Below(refs, kinds) : g = RefOf(r)
  BY DEF RefsOf, Tables!RefsOf, RefOf
<1>2. r \in rows /\ r.kind \in kinds /\ \E p \in refs : p \in r.refs
  BY <1>1 DEF Below
<1>3. Formed(r) /\ r.id \in Ids
  BY <1>2 DEF Types
<1>. QED
  BY <1>1, <1>2, <1>3, RefIsPair DEF Formed

(* What session.delete() loads is of the tables a row may take along. *)
LEMMA DeletingKinds ==
  ASSUME Types, NEW row, row.kind \in Kinds, row.id \in Ids
  PROVE  /\ Deleting(row) \in SUBSET Ref
         /\ \A g \in Deleting(row) : g.kind \in {row.kind} \cup TakenAlong(row.kind)
         /\ \A g \in Deleting(row) : g.kind = row.kind => g = RefOf(row)
<1>. DEFINE root == {RefOf(row)}
            below == RefsOf(Below(root, Loaded))
            under == RefsOf(Below(below, Loaded))
<1>1. root \in SUBSET Ref /\ \A g \in root : g = RefOf(row) /\ g.kind = row.kind
  BY RefIsPair
<1>2. below \in SUBSET Ref /\ \A g \in below : g.kind \in TakenAlong(row.kind) /\ g.kind # row.kind
  <2>1. SUFFICES ASSUME NEW g \in below
                 PROVE  g \in Ref /\ g.kind \in TakenAlong(row.kind) /\ g.kind # row.kind
    OBVIOUS
  <2>. HIDE DEF root
  <2>2. g \in Ref /\ g.kind \in Loaded /\ \E p \in root : p.kind \in Parents(g.kind)
    BY <1>1, <2>1, BelowKinds
  <2>3. row.kind \in Parents(g.kind)
    BY <1>1, <2>2
  <2>. QED
    BY <2>2, <2>3, ParentsKnown, TakenAlongKnown DEF Loaded, Kinds, Tables!Kinds
<1>3. under \in SUBSET Ref /\ \A g \in under : g.kind \in TakenAlong(row.kind) /\ g.kind # row.kind
  <2>1. SUFFICES ASSUME NEW g \in under
                 PROVE  g \in Ref /\ g.kind \in TakenAlong(row.kind) /\ g.kind # row.kind
    OBVIOUS
  <2>. HIDE DEF below
  <2>2. g \in Ref /\ g.kind \in Loaded /\ \E p \in below : p.kind \in Parents(g.kind)
    BY <1>2, <2>1, BelowKinds
  <2>3. \E kind \in TakenAlong(row.kind) : kind \in Parents(g.kind)
    BY <1>2, <2>2
  <2>. QED
    BY <2>2, <2>3, ParentsKnown, TakenAlongKnown DEF Loaded, Kinds, Tables!Kinds
<1>4. Deleting(row) = root \cup below \cup under
  BY DEF Deleting
<1>. HIDE DEF root, below, under
<1>. QED
  BY <1>1, <1>2, <1>3, <1>4

(* A stored schedule is made of coupons. *)
LEMMA StoredForKinds ==
  ASSUME Types, NEW row, row.refs \in SUBSET Ref
  PROVE  StoredFor(row) \in SUBSET Ref /\ \A g \in StoredFor(row) : g.kind = "coupon"
<1>. SUFFICES ASSUME NEW g \in StoredFor(row) PROVE g \in Ref /\ g.kind = "coupon"
  OBVIOUS
<1>. DEFINE kinds == {"coupon"}
<1>1. g \in RefsOf(Below(row.refs, kinds))
  BY DEF StoredFor
<1>2. g \in Ref /\ g.kind \in kinds
  <2>. HIDE DEF kinds
  <2>. QED
    BY <1>1, BelowKinds
<1>. QED
  BY <1>2

(* What is going to be taken out has been looked up. *)
LEMMA LoadStep ==
  ASSUME TableInv, NEW k \in Tasks, Load(k)
  PROVE  TableInv'
<1>. DEFINE row == call[k].row
            gone == IF call[k].op = "delete" THEN Deleting(row) ELSE StoredFor(row)
            c == [call[k] EXCEPT !.pc = "loaded", !.gone = gone]
<1>0. Types
  BY DEF TableInv, TypeInv
<1>1. /\ call[k] \in CallSet /\ call[k].pc = "checked"
      /\ call[k].op = "delete" \/ Replacing(call[k])
  BY DEF Load, TableInv, TypeInv, Types
<1>2. /\ Begun(call[k]) /\ row.kind \in Kinds /\ row.refs \in SUBSET Ref
      /\ call[k].op = "delete" => row.id \in Ids
  BY <1>1 DEF TableInv, TypeInv, Calls, Begun, Formed, CallSet, RowSet
<1>3. /\ gone \in SUBSET Ref
      /\ call[k].op = "delete" =>
            /\ \A g \in gone : g.kind \in {row.kind} \cup TakenAlong(row.kind)
            /\ \A g \in gone : g.kind = row.kind => g = RefOf(row)
      /\ call[k].op # "delete" => \A g \in gone : g.kind = "coupon"
  <2>1. CASE call[k].op = "delete"
    <3>1. gone = Deleting(row)
      BY <2>1
    <3>. HIDE DEF gone, row
    <3>. QED
      BY <1>0, <1>2, <2>1, <3>1, DeletingKinds
  <2>2. CASE call[k].op # "delete"
    <3>1. gone = StoredFor(row)
      BY <2>2
    <3>. HIDE DEF gone, row
    <3>. QED
      BY <1>0, <1>2, <2>2, <3>1, StoredForKinds
  <2>. QED
    BY <2>1, <2>2
<1>4. call' = [call EXCEPT ![k] = c]
  BY <1>1, <1>0 DEF Load, Types, CallSet
<1>5. rows' = rows /\ database' = database /\ sequence' = sequence
  BY DEF Load
<1>. HIDE DEF gone
<1>6. c \in CallSet /\ c.pc = "loaded" /\ c.op = call[k].op /\ c.row = row /\ c.gone = gone
  BY <1>1, <1>3 DEF CallSet, Phases
<1>. HIDE DEF c
<1>7. Begun(c)
  <2>1. /\ c.op = "create" => \A g \in c.gone : g.kind = "coupon" /\ c.row.kind = "coupon"
        /\ c.op = "delete" =>
              /\ \A g \in c.gone : g.kind \in {c.row.kind} \cup TakenAlong(c.row.kind)
              /\ \A g \in c.gone : g.kind = c.row.kind => g = RefOf(c.row)
    BY <1>1, <1>3, <1>6 DEF Replacing
  <2>2. c.pc = "loaded" /\ (c.op = "delete" \/ Replacing(c))
    BY <1>1, <1>6 DEF Replacing
  <2>3. Formed(c.row) /\ c.op \in Ops /\ (c.op # "create" => c.row.id \in Ids) /\ c.op # "update"
    BY <1>1, <1>2, <1>6 DEF Begun, Replacing
  <2>. QED
    BY <2>1, <2>2, <2>3 DEF Begun
<1>. QED
  BY <1>4, <1>5, <1>6, <1>7, QuietStep

-----------------------------------------------------------------------------
(* A schedule hangs from one bond, so the schedules that a new one meets   *)
(* are those of its bond.                                                  *)
LEMMA SameSchedules ==
  ASSUME Types, TablesInv, NEW row \in RowSet, Formed(row), row.kind = "coupon"
  PROVE  \A r \in rows : RefOf(r) \in StoredFor(row) <=> r.kind = "coupon" /\ r.refs = row.refs
<1>. SUFFICES ASSUME NEW r \in rows
              PROVE  RefOf(r) \in StoredFor(row) <=> r.kind = "coupon" /\ r.refs = row.refs
  OBVIOUS
<1>1. PICK p \in row.refs : row.refs = {p}
  BY DEF Formed
<1>2. RefOf(r) \in StoredFor(row) <=> r \in Below(row.refs, {"coupon"})
  BY DEF StoredFor, RefsOf, Tables!RefsOf, RefOf, TablesInv, OneRowPerRef, Below
<1>3. r \in Below(row.refs, {"coupon"}) <=> r.kind = "coupon" /\ p \in r.refs
  BY <1>1 DEF Below
<1>4. r.kind = "coupon" => (p \in r.refs <=> r.refs = {p})
  BY DEF Types, Formed
<1>. QED
  BY <1>1, <1>2, <1>3, <1>4

(* An insert as it is flushed. *)
LEMMA FlushCreate ==
  ASSUME TableInv, NEW k \in Tasks, NEW id \in Ids, call[k].pc # "idle", call[k].op = "create",
         NewId(Flushing(call[k], id), id), Sound(Flushing(call[k], id))
  PROVE  LET c == Flushing(call[k], id) IN
         /\ c \in CallSet /\ c.pc = "flushed"
         /\ Begun(c) /\ Founded(c)
         /\ c.row.id = id /\ c.row.kind = call[k].row.kind /\ c.row.owner = call[k].row.owner
         /\ c.row.key = call[k].row.key /\ c.row.refs = call[k].row.refs
<1>. DEFINE d == call[k]
            row == [d.row EXCEPT !.id = id]
            gone == Replaced(d)
            c == [d EXCEPT !.pc = "flushed", !.row = row, !.gone = gone]
<1>0. Types /\ TablesInv
  BY DEF TableInv, TypeInv
<1>1. d \in CallSet /\ d.row \in RowSet /\ Begun(d) /\ Formed(d.row) /\ id \in Nat
  BY DEF TableInv, TypeInv, Types, Calls, Begun, CallSet, Ids
<1>2. Flushing(d, id) = c
  BY DEF Flushing
<1>10. d.op = "create"
  OBVIOUS
<1>3. /\ row \in RowSet /\ row.kind = d.row.kind /\ row.id = id
      /\ row.owner = d.row.owner /\ row.key = d.row.key /\ row.refs = d.row.refs
  BY <1>1, WithId
<1>4. d.row.refs \in SUBSET Ref
  BY <1>1 DEF RowSet
<1>5. gone \in SUBSET Ref /\ \A g \in gone : g.kind = "coupon" /\ d.row.kind = "coupon"
  <2>1. gone \subseteq StoredFor(d.row) /\ (gone # {} => d.row.kind = "coupon")
    BY DEF Replaced, Replacing
  <2>2. StoredFor(d.row) \in SUBSET Ref /\ \A g \in StoredFor(d.row) : g.kind = "coupon"
    BY <1>0, <1>4, StoredForKinds
  <2>. HIDE DEF gone
  <2>. QED
    BY <2>1, <2>2
<1>. HIDE DEF row, gone
<1>6. /\ c \in CallSet /\ c.pc = "flushed" /\ c.op = "create" /\ c.row = row
      /\ c.gone = gone
  BY <1>1, <1>3, <1>5 DEF CallSet, Phases
<1>. HIDE DEF c
<1>7. Formed(row)
  BY <1>1, <1>3 DEF Formed
<1>8. Begun(c)
  BY <1>3, <1>5, <1>6, <1>7 DEF Begun, Ops
<1>9. Founded(c)
  <2>1. Sound(c) /\ NewId(c, id)
    BY <1>2
  <2>2. Needed(c) \subseteq RefsOf(rows) /\ \A r \in rows : SameKey(r, c.row) => RefOf(r) = RefOf(c.row)
    BY <1>6, <2>1 DEF Sound, SameKey
  <2>3. ASSUME NEW r \in rows, RefOf(r) = RefOf(c.row) PROVE RefOf(r) \in c.gone
    <3>1. r.kind = c.row.kind /\ r.id = id /\ r.id \in Nat
      BY <1>3, <1>6, <2>3, RefIsPair DEF TableInv, TypeInv, Types, RowSet
    <3>2. CASE database = "sqlite"
      BY <2>1, <3>1, <3>2 DEF NewId, ReusedId
    <3>3. CASE database # "sqlite"
      <4>1. database = "postgresql" /\ id = sequence[c.row.kind] + 1
        BY <2>1, <3>3 DEF NewId, TableInv, TypeInv, Types
      <4>2. r.id <= sequence[r.kind] /\ sequence[r.kind] \in Nat
        BY <3>1, <4>1, <1>7, <1>6 DEF TableInv, Numbered, TypeInv, Types, Formed
      <4>. QED
        BY <3>1, <4>1, <4>2
    <3>. QED
      BY <3>2, <3>3
  <2>4. ASSUME NEW r \in rows
        PROVE  /\ RefOf(r) \in c.gone => Replaces(c, r)
               /\ database = "sqlite" /\ Replaces(c, r) => RefOf(r) \in c.gone
    <3>1. CASE d.row.kind = "coupon"
      <4>1. gone \subseteq StoredFor(d.row) /\ (database = "sqlite" => gone = StoredFor(d.row))
        BY <1>10, <3>1 DEF gone, Replaced, Replacing
      <4>2. RefOf(r) \in StoredFor(d.row) <=> r.kind = "coupon" /\ r.refs = d.row.refs
        BY <1>0, <1>1, <3>1, SameSchedules
      <4>. QED
        BY <1>3, <1>6, <3>1, <4>1, <4>2 DEF Replaces
    <3>2. CASE d.row.kind # "coupon"
      BY <1>3, <1>5, <1>6, <3>2 DEF Replaces
    <3>. QED
      BY <3>1, <3>2
  <2>. QED
    BY <1>6, <2>2, <2>3, <2>4 DEF Founded
<1>. QED
  BY <1>2, <1>3, <1>6, <1>8, <1>9

(* A deletion as it is flushed. *)
LEMMA FlushDelete ==
  ASSUME TableInv, NEW k \in Tasks, NEW id, call[k].pc = "loaded", call[k].op = "delete",
         Sound(Flushing(call[k], id))
  PROVE  LET c == Flushing(call[k], id) IN
         /\ c \in CallSet /\ c.pc = "flushed"
         /\ Begun(c) /\ Founded(c)
         /\ c.row = call[k].row
<1>. DEFINE d == call[k]
            also == RefsOf(Below(d.gone, {"coupon"}))
            c == [d EXCEPT !.pc = "flushed", !.gone = d.gone \cup also]
<1>0. Types
  BY DEF TableInv, TypeInv
<1>1. /\ d \in CallSet /\ Begun(d) /\ d.gone \in SUBSET Ref
      /\ Formed(d.row) /\ d.row.id \in Ids /\ d.row.kind \in Kinds
  BY DEF TableInv, TypeInv, Types, Calls, Begun, CallSet, Formed
<1>2. Flushing(d, id) = c
  BY DEF Flushing
<1>3. /\ \A g \in d.gone : g.kind \in {d.row.kind} \cup TakenAlong(d.row.kind)
      /\ \A g \in d.gone : g.kind = d.row.kind => g = RefOf(d.row)
  BY <1>1 DEF Begun
<1>4. also \in SUBSET Ref /\ \A g \in also : g.kind \in TakenAlong(d.row.kind) /\ g.kind # d.row.kind
  <2>. SUFFICES ASSUME NEW g \in also
                PROVE  g \in Ref /\ g.kind \in TakenAlong(d.row.kind) /\ g.kind # d.row.kind
    OBVIOUS
  <2>1. g \in Ref /\ g.kind \in {"coupon"} /\ \E p \in d.gone : p.kind \in Parents(g.kind)
    BY <1>0, <1>1, BelowKinds
  <2>2. \E p \in d.gone : p.kind = "bond"
    BY <2>1, ParentsKnown
  <2>3. d.row.kind = "bond"
    BY <1>1, <1>3, <2>2, TakenAlongKnown DEF Kinds, Tables!Kinds
  <2>. QED
    BY <2>1, <2>3, TakenAlongKnown
<1>. HIDE DEF also
<1>5. /\ c \in CallSet /\ c.pc = "flushed" /\ c.op = "delete" /\ c.row = d.row
      /\ c.gone = d.gone \cup also
  BY <1>1, <1>4 DEF CallSet, Phases
<1>. HIDE DEF c
<1>6. Begun(c)
  BY <1>1, <1>3, <1>4, <1>5 DEF Begun, Ops
<1>7. Founded(c)
  <2>1. Needed(c) = {} /\ RefsOf(Below(c.gone, Kinds)) \subseteq c.gone
    BY <1>2, <1>5 DEF Sound, Needed
  <2>2. ASSUME NEW r \in rows, r.refs \cap c.gone # {} PROVE RefOf(r) \in c.gone
    <3>1. r \in Below(c.gone, Kinds)
      BY <1>0, <2>2 DEF Below, Types, Formed
    <3>. QED
      BY <2>1, <3>1 DEF RefsOf, Tables!RefsOf, RefOf
  <2>. QED
    BY <1>5, <2>1, <2>2 DEF Founded
<1>. QED
  BY <1>2, <1>5, <1>6, <1>7

(* An update as it is flushed: the row that has the id by now, with the    *)
(* columns that were asked for.                                            *)
LEMMA FlushUpdate ==
  ASSUME TableInv, NEW k \in Tasks, NEW id, call[k].pc = "checked", call[k].op = "update",
         Sound(Flushing(call[k], id))
  PROVE  LET c == Flushing(call[k], id) IN
         /\ c \in CallSet /\ c.pc = "flushed"
         /\ Begun(c) /\ Founded(c)
         /\ RefOf(c.row) = RefOf(call[k].row) /\ c.row.id = call[k].row.id
         /\ c.row.kind = "operation" => c.row.refs = call[k].row.refs
         /\ \E r \in rows : RefOf(r) = RefOf(c.row) /\ r.owner = c.row.owner
<1>. DEFINE d == call[k]
            found == Has(d.row.kind, d.row.id)
            now == CHOOSE r \in rows : RefOf(r) = RefOf(d.row)
            row == IF found THEN Merged(d.row) ELSE d.row
            c == [d EXCEPT !.pc = "flushed", !.row = row]
<1>0. Types
  BY DEF TableInv, TypeInv
<1>1. /\ d \in CallSet /\ Begun(d) /\ d.row \in RowSet
      /\ Formed(d.row) /\ d.row.id \in Ids
      /\ d.row.kind \in {"broker", "account", "bond", "operation"} /\ d.gone = {}
  BY DEF TableInv, TypeInv, Types, Calls, Begun, CallSet
<1>2. Flushing(d, id) = c
  BY DEF Flushing
<1>3. found <=> RefOf(d.row) \in RefsOf(rows)
  BY RefIsPair DEF Has, RefsOf, Tables!RefsOf, RefOf, To, Tables!RefOf
<1>4. c.row = row
  BY <1>1 DEF CallSet
<1>5. c.op = "update"
  BY <1>1 DEF CallSet
<1>6. found
  <2>1. RefOf(c.row) \in RefsOf(rows)
    BY <1>2, <1>5 DEF Sound
  <2>. QED
    BY <1>3, <1>4, <2>1
<1>7. now \in rows /\ RefOf(now) = RefOf(d.row) /\ now \in RowSet /\ Formed(now) /\ now.id \in Ids
  <2>1. \E r \in rows : RefOf(r) = RefOf(d.row)
    BY <1>6, RefIsPair DEF Has
  <2>. QED
    BY <1>0, <2>1 DEF Types
<1>8. now.kind = d.row.kind /\ now.id = d.row.id
  BY <1>7, RefIsPair
<1>9. row = Merged(d.row)
  BY <1>6
<1>10. d.row.key \in Keys \cup {NoKey} /\ d.row.refs \in SUBSET Ref
  BY <1>1 DEF RowSet
<1>11. /\ Merged(d.row) \in RowSet /\ Merged(d.row).kind = now.kind /\ Merged(d.row).id = now.id
       /\ Merged(d.row).owner = now.owner
       /\ Merged(d.row).refs = IF d.row.kind = "operation" THEN d.row.refs ELSE now.refs
       /\ d.row.kind = "bond" => Merged(d.row).key = now.key
  <2>. HIDE DEF now
  <2>0. Merged(d.row) = CASE d.row.kind = "broker" -> [now EXCEPT !.key = d.row.key]
                          [] d.row.kind = "operation" -> [now EXCEPT !.refs = d.row.refs]
                          [] OTHER -> now
    BY DEF Merged, now
  <2>1. CASE d.row.kind = "broker"
    <3>1. Merged(d.row) = [now EXCEPT !.key = d.row.key]
      BY <2>0, <2>1
    <3>. QED
      BY <1>7, <1>10, <2>1, <3>1, WithKey
  <2>2. CASE d.row.kind = "operation"
    <3>1. Merged(d.row) = [now EXCEPT !.refs = d.row.refs]
      BY <2>0, <2>2
    <3>. QED
      BY <1>7, <1>10, <2>2, <3>1, WithRefs
  <2>3. CASE d.row.kind \notin {"broker", "operation"}
    BY <1>7, <2>0, <2>3
  <2>. QED
    BY <2>1, <2>2, <2>3
<1>. HIDE DEF now, row, found
<1>12. /\ row \in RowSet /\ row.kind = d.row.kind /\ row.id = d.row.id /\ row.owner = now.owner
       /\ row.refs = IF d.row.kind = "operation" THEN d.row.refs ELSE now.refs
       /\ d.row.kind = "bond" => row.key = now.key
  BY <1>8, <1>9, <1>11
<1>13. Formed(row)
  BY <1>1, <1>7, <1>8, <1>12 DEF Formed
<1>14. c \in CallSet /\ c.pc = "flushed" /\ c.gone = {}
  BY <1>1, <1>12 DEF CallSet, Phases
<1>. HIDE DEF c
<1>15. RefOf(row) = RefOf(d.row)
  BY <1>12, RefIsPair
<1>16. Begun(c)
  BY <1>1, <1>4, <1>5, <1>12, <1>13, <1>14 DEF Begun, Ops
<1>17. Founded(c)
  <2>1. Needed(c) \subseteq RefsOf(rows) /\ \A r \in rows : SameKey(r, c.row) => RefOf(r) = RefOf(c.row)
    BY <1>2, <1>5 DEF Sound, SameKey
  <2>2. \E r \in rows : /\ RefOf(r) = RefOf(c.row) /\ r.owner = c.row.owner
                        /\ r.kind = "bond" => r.key = c.row.key
    BY <1>4, <1>7, <1>8, <1>12, <1>15
  <2>. QED
    BY <1>5, <2>1, <2>2 DEF Founded
<1>18. \E r \in rows : RefOf(r) = RefOf(c.row) /\ r.owner = c.row.owner
  BY <1>4, <1>7, <1>12, <1>15
<1>. QED
  BY <1>2, <1>4, <1>12, <1>14, <1>15, <1>16, <1>17, <1>18

(* A flushed call with those it is to tell. *)
Told(c) == [c EXCEPT !.tells = Audience(c)]

LEMMA ToldFields ==
  ASSUME Types, NEW c \in CallSet
  PROVE  /\ Told(c) \in CallSet
         /\ Told(c).pc = c.pc /\ Told(c).op = c.op /\ Told(c).row = c.row /\ Told(c).gone = c.gone
         /\ Told(c).tells = Audience(c)
<1>1. Audience(c) \in SUBSET (Users \cup {Nobody})
  <2>1. Holders(c) \subseteq Users \cup {Nobody}
    BY DEF Holders, Below, Types, RowSet
  <2>. QED
    BY <2>1 DEF Audience
<1>. QED
  BY <1>1 DEF Told, CallSet

(* What a flush leaves: a call that keeps others away from what it has     *)
(* found.                                                                  *)
LEMMA FlushFound ==
  ASSUME TableInv, NEW k \in Tasks, Flush(k)
  PROVE  \E c \in CallSet :
            /\ call' = [call EXCEPT ![k] = Told(c)]
            /\ c.pc = "flushed" /\ c.op = call[k].op /\ Begun(c) /\ Founded(c)
            /\ Granted(k, c)
            /\ rows' = rows /\ database' = database
            /\ c.op = "create" =>
                  /\ c.row.kind = call[k].row.kind /\ c.row.owner = call[k].row.owner
                  /\ c.row.key = call[k].row.key /\ c.row.refs = call[k].row.refs
                  /\ database = "postgresql" =>
                        /\ c.row.id = sequence[c.row.kind] + 1
                        /\ sequence' = [sequence EXCEPT ![c.row.kind] = c.row.id]
            /\ (c.op = "create" /\ database = "postgresql") \/ sequence' = sequence
            /\ c.op = "update" =>
                  /\ RefOf(c.row) = RefOf(call[k].row) /\ c.row.id = call[k].row.id
                  /\ c.row.kind = "operation" => c.row.refs = call[k].row.refs
                  /\ \E r \in rows : RefOf(r) = RefOf(c.row) /\ r.owner = c.row.owner
            /\ c.op = "delete" => c.row = call[k].row
<1>. DEFINE creates == call[k].op = "create"
<1>1. PICK id \in 1..LastId[call[k].row.kind] :
        /\ IF creates THEN NewId(Flushing(call[k], id), id) ELSE id = 1
        /\ Granted(k, Flushing(call[k], id)) /\ Sound(Flushing(call[k], id))
        /\ call' = [call EXCEPT ![k] = Told(Flushing(call[k], id))]
        /\ sequence' = IF creates /\ database = "postgresql"
                       THEN [sequence EXCEPT ![Flushing(call[k], id).row.kind] = id] ELSE sequence
  BY DEF Flush, Told
<1>2. /\ rows' = rows /\ database' = database /\ call[k].pc # "idle"
      /\ call[k].op = "delete" => call[k].pc = "loaded"
      /\ call[k].op = "update" => call[k].pc = "checked"
  BY DEF Flush, Ready, Replacing
<1>3. call[k].op \in Ops /\ call[k].row.kind \in Kinds
  BY <1>2 DEF TableInv, TypeInv, Calls, Begun, Formed
<1>4. id \in Ids
  BY <1>1, <1>3, BoundAssumption DEF Ids
<1>. DEFINE c == Flushing(call[k], id)
<1>5. CASE call[k].op = "create"
  <2>1. /\ c \in CallSet /\ c.pc = "flushed"
        /\ Begun(c) /\ Founded(c) /\ c.row.id = id
        /\ c.row.kind = call[k].row.kind /\ c.row.owner = call[k].row.owner
        /\ c.row.key = call[k].row.key /\ c.row.refs = call[k].row.refs
    BY <1>1, <1>2, <1>4, <1>5, FlushCreate
  <2>2. c.op = "create"
    BY <1>5 DEF Flushing, CallSet, TableInv, TypeInv, Types
  <2>3. NewId(c, id) /\ Granted(k, c) /\ call' = [call EXCEPT ![k] = Told(c)]
        /\ sequence' = IF database = "postgresql" THEN [sequence EXCEPT ![c.row.kind] = id] ELSE sequence
    BY <1>1, <1>5
  <2>. HIDE DEF c
  <2>4. database = "postgresql" => c.row.id = sequence[c.row.kind] + 1
    BY <2>1, <2>3 DEF NewId
  <2>. QED
    BY <1>2, <1>5, <2>1, <2>2, <2>3, <2>4
<1>6. CASE call[k].op = "delete"
  <2>1. /\ c \in CallSet /\ c.pc = "flushed"
        /\ Begun(c) /\ Founded(c) /\ c.row = call[k].row
    BY <1>1, <1>2, <1>6, FlushDelete
  <2>2. c.op = "delete"
    BY <1>6 DEF Flushing, CallSet, TableInv, TypeInv, Types
  <2>3. Granted(k, c) /\ call' = [call EXCEPT ![k] = Told(c)] /\ sequence' = sequence
    BY <1>1, <1>6
  <2>. HIDE DEF c
  <2>. QED
    BY <1>2, <1>6, <2>1, <2>2, <2>3
<1>7. CASE call[k].op = "update"
  <2>1. /\ c \in CallSet /\ c.pc = "flushed"
        /\ Begun(c) /\ Founded(c)
        /\ RefOf(c.row) = RefOf(call[k].row) /\ c.row.id = call[k].row.id
        /\ c.row.kind = "operation" => c.row.refs = call[k].row.refs
        /\ \E r \in rows : RefOf(r) = RefOf(c.row) /\ r.owner = c.row.owner
    BY <1>1, <1>2, <1>7, FlushUpdate
  <2>2. c.op = "update"
    BY <1>7 DEF Flushing, CallSet, TableInv, TypeInv, Types
  <2>3. Granted(k, c) /\ call' = [call EXCEPT ![k] = Told(c)] /\ sequence' = sequence
    BY <1>1, <1>7
  <2>. HIDE DEF c
  <2>. QED
    BY <1>2, <1>7, <2>1, <2>2, <2>3
<1>. QED
  BY <1>3, <1>5, <1>6, <1>7 DEF Ops

LEMMA FlushEffect ==
  ASSUME TableInv, NEW k \in Tasks, Flush(k)
  PROVE  \E c \in CallSet :
            /\ call' = [call EXCEPT ![k] = c]
            /\ c.pc = "flushed" /\ c.op = call[k].op /\ Begun(c) /\ Founded(c)
            /\ Granted(k, c)
            /\ Changes(c) => c.tells = Holders(c)
            /\ rows' = rows /\ database' = database
            /\ c.op = "create" =>
                  /\ c.row.kind = call[k].row.kind /\ c.row.owner = call[k].row.owner
                  /\ c.row.key = call[k].row.key /\ c.row.refs = call[k].row.refs
                  /\ database = "postgresql" =>
                        /\ c.row.id = sequence[c.row.kind] + 1
                        /\ sequence' = [sequence EXCEPT ![c.row.kind] = c.row.id]
            /\ (c.op = "create" /\ database = "postgresql") \/ sequence' = sequence
            /\ c.op = "update" =>
                  /\ RefOf(c.row) = RefOf(call[k].row) /\ c.row.id = call[k].row.id
                  /\ c.row.kind = "operation" => c.row.refs = call[k].row.refs
                  /\ \E r \in rows : RefOf(r) = RefOf(c.row) /\ r.owner = c.row.owner
            /\ c.op = "delete" => c.row = call[k].row
<1>1. PICK d \in CallSet :
            /\ call' = [call EXCEPT ![k] = Told(d)]
            /\ d.pc = "flushed" /\ d.op = call[k].op /\ Begun(d) /\ Founded(d)
            /\ Granted(k, d)
            /\ rows' = rows /\ database' = database
            /\ d.op = "create" =>
                  /\ d.row.kind = call[k].row.kind /\ d.row.owner = call[k].row.owner
                  /\ d.row.key = call[k].row.key /\ d.row.refs = call[k].row.refs
                  /\ database = "postgresql" =>
                        /\ d.row.id = sequence[d.row.kind] + 1
                        /\ sequence' = [sequence EXCEPT ![d.row.kind] = d.row.id]
            /\ (d.op = "create" /\ database = "postgresql") \/ sequence' = sequence
            /\ d.op = "update" =>
                  /\ RefOf(d.row) = RefOf(call[k].row) /\ d.row.id = call[k].row.id
                  /\ d.row.kind = "operation" => d.row.refs = call[k].row.refs
                  /\ \E r \in rows : RefOf(r) = RefOf(d.row) /\ r.owner = d.row.owner
            /\ d.op = "delete" => d.row = call[k].row
  BY FlushFound
<1>. DEFINE c == Told(d)
<1>2. /\ c \in CallSet /\ c.pc = d.pc /\ c.op = d.op /\ c.row = d.row /\ c.gone = d.gone
      /\ c.tells = Audience(d)
  BY ToldFields DEF TableInv, TypeInv
<1>3. call' = [call EXCEPT ![k] = c]
  BY <1>1
<1>. HIDE DEF c
<1>4. Begun(c) /\ Founded(c)
  BY <1>1, <1>2 DEF Begun, Replacing, Founded, Needed, Replaces
<1>5. Granted(k, c)
  <2>1. \A e : Conflict(c, e) <=> Conflict(d, e)
    BY <1>2 DEF Conflict, Takes, Written, Needed
  <2>. QED
    BY <1>1, <2>1 DEF Granted
<1>6. Changes(c) => c.tells = Holders(c)
  BY <1>2 DEF Changes, Audience, Holders
<1>7. /\ c.pc = "flushed" /\ c.op = call[k].op
      /\ rows' = rows /\ database' = database
      /\ c.op = "create" =>
            /\ c.row.kind = call[k].row.kind /\ c.row.owner = call[k].row.owner
            /\ c.row.key = call[k].row.key /\ c.row.refs = call[k].row.refs
            /\ database = "postgresql" =>
                  /\ c.row.id = sequence[c.row.kind] + 1
                  /\ sequence' = [sequence EXCEPT ![c.row.kind] = c.row.id]
      /\ (c.op = "create" /\ database = "postgresql") \/ sequence' = sequence
  BY <1>1, <1>2
<1>8. /\ c.op = "update" =>
            /\ RefOf(c.row) = RefOf(call[k].row) /\ c.row.id = call[k].row.id
            /\ c.row.kind = "operation" => c.row.refs = call[k].row.refs
            /\ \E r \in rows : RefOf(r) = RefOf(c.row) /\ r.owner = c.row.owner
      /\ c.op = "delete" => c.row = call[k].row
  BY <1>1, <1>2
<1>. QED
  BY <1>2, <1>3, <1>4, <1>5, <1>6, <1>7, <1>8, Zenon

(* A flush preserves the invariant. *)
LEMMA FlushStep ==
  ASSUME TableInv, NEW k \in Tasks, Flush(k)
  PROVE  TableInv'
<1>1. PICK c \in CallSet :
            /\ call' = [call EXCEPT ![k] = c]
            /\ c.pc = "flushed" /\ c.op = call[k].op /\ Begun(c) /\ Founded(c)
            /\ Granted(k, c)
            /\ rows' = rows /\ database' = database
            /\ c.op = "create" =>
                  /\ c.row.kind = call[k].row.kind
                  /\ database = "postgresql" =>
                        /\ c.row.id = sequence[c.row.kind] + 1
                        /\ sequence' = [sequence EXCEPT ![c.row.kind] = c.row.id]
            /\ (c.op = "create" /\ database = "postgresql") \/ sequence' = sequence
            /\ c.op = "update" => \E r \in rows : RefOf(r) = RefOf(c.row)
  BY FlushEffect
<1>2. c.row.kind \in Kinds /\ c.row.id \in Nat /\ sequence[c.row.kind] \in Nat
  BY <1>1 DEF Begun, Formed, CallSet, RowSet, TableInv, TypeInv, Types
<1>3. /\ sequence' \in [Kinds -> Nat]
      /\ \A kind \in Kinds : sequence[kind] <= sequence'[kind]
  BY <1>1, <1>2 DEF TableInv, TypeInv, Types
<1>4. \A j \in Tasks \ {k} : call[j].pc = "flushed" => ~Conflict(c, call[j])
  BY <1>1 DEF Granted
<1>5. database = "postgresql" /\ c.op # "delete" => c.row.id <= sequence'[c.row.kind]
  <2>1. CASE c.op = "create"
    BY <1>1, <1>2, <2>1 DEF TableInv, TypeInv, Types
  <2>2. CASE c.op = "update"
    <3>1. PICK r \in rows : RefOf(r) = RefOf(c.row)
      BY <1>1, <2>2
    <3>2. r.kind = c.row.kind /\ r.id = c.row.id
      BY <3>1, RefIsPair
    <3>. QED
      BY <1>1, <2>2, <3>1, <3>2 DEF TableInv, Numbered
  <2>. QED
    BY <1>1, <2>1, <2>2 DEF Begun, Ops
<1>. QED
  BY <1>1, <1>3, <1>4, <1>5, CallStep

-----------------------------------------------------------------------------
(* The refs of a set of rows. *)
LEMMA RefsOfRows == \A S, p : p \in RefsOf(S) <=> \E r \in S : RefOf(r) = p
  BY DEF RefsOf, Tables!RefsOf, RefOf

(* What a commit does to the tables. *)
LEMMA CommitEffect ==
  ASSUME TableInv, NEW k \in Tasks, Commit(k)
  PROVE  LET c == call[k] IN
         /\ c \in CallSet /\ c.pc = "flushed" /\ Begun(c) /\ Founded(c)
         /\ call' = [call EXCEPT ![k] = Rest] /\ database' = database /\ sequence' = sequence
         /\ c.op = "delete" => rows' = {r \in rows : RefOf(r) \notin c.gone}
         /\ c.op # "delete" => c.row \in RowSet /\ Formed(c.row) /\ c.row.id \in Ids
         /\ c.op = "update" => rows' = {r \in rows : RefOf(r) # RefOf(c.row)} \cup {c.row}
         /\ c.op = "create" =>
               /\ rows' = {r \in rows : RefOf(r) \notin c.gone} \cup {c.row}
               /\ \A r \in rows : RefOf(r) = RefOf(c.row) => RefOf(r) \in c.gone
               /\ \A r \in rows : RefOf(r) \in c.gone => Replaces(c, r)
         /\ \A r : r \in rows' <=> \/ r \in rows /\ RefOf(r) \notin Written(c)
                                   \/ c.op # "delete" /\ r = c.row
<1>. DEFINE c == call[k]
<1>1. /\ c \in CallSet /\ c.pc = "flushed" /\ Begun(c) /\ Founded(c)
      /\ call' = [call EXCEPT ![k] = Rest] /\ database' = database /\ sequence' = sequence
      /\ rows' = After(c)
  BY DEF Commit, End, TableInv, TypeInv, Types, Calls, Founding
<1>. HIDE DEF c
<1>2. \A r : r \in rows' <=> \/ r \in rows /\ RefOf(r) \notin Written(c)
                             \/ c.op # "delete" /\ r = c.row
  BY <1>1 DEF After
<1>3. c.op = "delete" => rows' = {r \in rows : RefOf(r) \notin c.gone}
  BY <1>2 DEF Written
<1>4. c.op # "delete" => c.row \in RowSet /\ Formed(c.row) /\ c.row.id \in Ids
  BY <1>1 DEF CallSet, Begun
<1>5. c.op = "update" => rows' = {r \in rows : RefOf(r) # RefOf(c.row)} \cup {c.row}
  <2>1. c.op = "update" => c.gone = {}
    BY <1>1 DEF Begun
  <2>. QED
    BY <1>2, <2>1 DEF Written
<1>6. c.op = "create" =>
         /\ rows' = {r \in rows : RefOf(r) \notin c.gone} \cup {c.row}
         /\ \A r \in rows : RefOf(r) = RefOf(c.row) => RefOf(r) \in c.gone
         /\ \A r \in rows : RefOf(r) \in c.gone => Replaces(c, r)
  <2>1. c.op = "create" =>
          /\ \A r \in rows : RefOf(r) = RefOf(c.row) => RefOf(r) \in c.gone
          /\ \A r \in rows : RefOf(r) \in c.gone => Replaces(c, r)
    BY <1>1 DEF Founded
  <2>. QED
    BY <1>2, <2>1 DEF Written
<1>7. /\ c.op = "delete" => rows' = {r \in rows : RefOf(r) \notin c.gone}
      /\ c.op # "delete" => c.row \in RowSet /\ Formed(c.row) /\ c.row.id \in Ids
      /\ c.op = "update" => rows' = {r \in rows : RefOf(r) # RefOf(c.row)} \cup {c.row}
      /\ c.op = "create" =>
            /\ rows' = {r \in rows : RefOf(r) \notin c.gone} \cup {c.row}
            /\ \A r \in rows : RefOf(r) = RefOf(c.row) => RefOf(r) \in c.gone
            /\ \A r \in rows : RefOf(r) \in c.gone => Replaces(c, r)
  BY <1>3, <1>4, <1>5, <1>6
<1>. QED
  BY <1>1, <1>2, <1>7 DEF c

(* A commit leaves rows that were there, and the row it wrote. *)
LEMMA CommitMembers ==
  ASSUME NEW k \in Tasks, Commit(k)
  PROVE  \A r \in rows' : r \in rows \/ (call[k].op # "delete" /\ r = call[k].row)
  BY DEF Commit, After

(* No foreign key points to a schedule. *)
LEMMA NoRefToSchedule ==
  ASSUME NEW r, Formed(r), NEW p \in r.refs
  PROVE  p.kind # "coupon"
<1>1. p.kind \in Parents(r.kind)
  BY DEF Formed
<1>. QED
  BY <1>1, ParentsKnown DEF Formed, Kinds, Tables!Kinds

(* A reference that a row or a flushed call relies on outlives a commit    *)
(* that does not take its row.                                             *)
LEMMA RefOutlives ==
  ASSUME TableInv, NEW k \in Tasks, Commit(k), NEW s \in rows,
         call[k].op = "delete" => RefOf(s) \notin call[k].gone,
         s.kind # "coupon"
  PROVE  RefOf(s) \in RefsOf(rows')
<1>. DEFINE c == call[k]
<1>1. /\ c.op = "delete" => rows' = {r \in rows : RefOf(r) \notin c.gone}
      /\ c.op = "update" => rows' = {r \in rows : RefOf(r) # RefOf(c.row)} \cup {c.row}
      /\ c.op = "create" => /\ rows' = {r \in rows : RefOf(r) \notin c.gone} \cup {c.row}
                            /\ \A r \in rows : RefOf(r) \in c.gone => Replaces(c, r)
      /\ c.op \in Ops
  BY CommitEffect DEF Begun
<1>. HIDE DEF c
<1>2. \E r \in rows' : RefOf(r) = RefOf(s)
  <2>1. CASE c.op = "delete"
    BY <1>1, <2>1 DEF c
  <2>2. CASE c.op = "update"
    BY <1>1, <2>2
  <2>3. CASE c.op = "create"
    BY <1>1, <2>3 DEF Replaces
  <2>. QED
    BY <1>1, <2>1, <2>2, <2>3 DEF Ops
<1>. QED
  BY <1>2, RefsOfRows

(* The tables are sound after a commit. *)
LEMMA CommitTables ==
  ASSUME TableInv, NEW k \in Tasks, Commit(k)
  PROVE  TablesInv' /\ rows' \subseteq RowSet /\ \A r \in rows' : Formed(r) /\ r.id \in Ids
<1>. DEFINE c == call[k]
<1>1. /\ Begun(c) /\ Founded(c) /\ c.op \in Ops
      /\ c.op = "delete" => rows' = {r \in rows : RefOf(r) \notin c.gone}
      /\ c.op # "delete" => c.row \in RowSet /\ Formed(c.row) /\ c.row.id \in Ids
      /\ c.op = "update" => rows' = {r \in rows : RefOf(r) # RefOf(c.row)} \cup {c.row}
      /\ c.op = "create" =>
            /\ rows' = {r \in rows : RefOf(r) \notin c.gone} \cup {c.row}
            /\ \A r \in rows : RefOf(r) = RefOf(c.row) => RefOf(r) \in c.gone
            /\ \A r \in rows : RefOf(r) \in c.gone => Replaces(c, r)
  BY CommitEffect DEF Begun
<1>2. rows \subseteq RowSet /\ \A r \in rows : Formed(r) /\ r.id \in Ids
  BY DEF TableInv, TypeInv, Types
<1>3. /\ OneRowPerRef /\ (database = "sqlite" => OneSchedule)
      /\ Tables!ReferencesLive /\ Tables!KeysUnique
  BY DEF TableInv, TablesInv
<1>5. \A r \in rows' : r \in rows \/ (c.op # "delete" /\ r = c.row)
  BY CommitMembers
<1>. HIDE DEF c
<1>4. rows' \subseteq RowSet /\ \A r \in rows' : Formed(r) /\ r.id \in Ids
  BY <1>1, <1>2, <1>5
<1>6. c.op # "delete" => \A r \in rows \cap rows' : RefOf(r) = RefOf(c.row) => r = c.row
  BY <1>1 DEF Ops
<1>7. OneRowPerRef'
  BY <1>3, <1>5, <1>6 DEF OneRowPerRef
<1>8. (database = "sqlite" => OneSchedule)'
  <2>0. database' = database
    BY CommitEffect
  <2>1. ASSUME database = "sqlite",
               NEW r \in rows', NEW s \in rows', r.kind = "coupon", s.kind = "coupon", r.refs = s.refs
        PROVE  r = s
    <3>1. CASE r \in rows /\ s \in rows
      BY <1>3, <2>1, <3>1 DEF OneSchedule
    <3>2. CASE c.op = "create" /\ (r = c.row \/ s = c.row)
      <4>1. ASSUME NEW t \in rows', t.kind = "coupon", t.refs = c.row.refs, c.row.kind = "coupon"
            PROVE  t = c.row
        <5>1. t \in rows => RefOf(t) \in c.gone
          BY <1>1, <2>1, <3>2, <4>1 DEF Founded, Replaces
        <5>. QED
          BY <1>1, <3>2, <4>1, <5>1
      <4>. QED
        BY <2>1, <3>2, <4>1
    <3>3. CASE c.op = "update" /\ (r = c.row \/ s = c.row)
      BY <1>1, <2>1, <3>3 DEF Begun
    <3>. QED
      BY <1>1, <1>5, <2>1, <3>1, <3>2, <3>3 DEF Ops
  <2>. QED
    BY <2>0, <2>1 DEF OneSchedule
<1>9. Tables!ReferencesLive'
  <2>1. ASSUME NEW r \in rows', NEW p \in r.refs PROVE p \in RefsOf(rows')
    <3>1. p \in RefsOf(rows)
      <4>1. CASE r \in rows
        BY <1>3, <2>1, <4>1 DEF Tables!ReferencesLive, RefsOf
      <4>2. CASE c.op # "delete" /\ r = c.row
        BY <1>1, <2>1, <4>2 DEF Founded, Needed
      <4>. QED
        BY <1>5, <4>1, <4>2
    <3>2. PICK s \in rows : RefOf(s) = p
      BY <3>1, RefsOfRows
    <3>3. s.kind # "coupon"
      BY <1>4, <2>1, <3>2, NoRefToSchedule, RefIsPair
    <3>4. c.op = "delete" => p \notin c.gone
      BY <1>1, <2>1 DEF Founded
    <3>. QED
      BY <3>2, <3>3, <3>4, RefOutlives DEF c
  <2>. QED
    BY <2>1 DEF Tables!ReferencesLive, RefsOf
<1>10. Tables!KeysUnique'
  <2>1. ASSUME NEW r \in rows', NEW s \in rows', SameKey(r, s) PROVE r = s
    <3>1. CASE r \in rows /\ s \in rows
      BY <1>3, <2>1, <3>1 DEF Tables!KeysUnique, SameKey
    <3>2. CASE c.op # "delete" /\ r = c.row /\ s \in rows
      <4>1. SameKey(s, c.row)
        BY <2>1, <3>2 DEF SameKey, Tables!SameKey
      <4>. QED
        BY <1>1, <1>6, <2>1, <3>2, <4>1 DEF Founded
    <3>3. CASE c.op # "delete" /\ s = c.row /\ r \in rows
      BY <1>1, <1>6, <2>1, <3>3 DEF Founded
    <3>. QED
      BY <1>5, <2>1, <3>1, <3>2, <3>3
  <2>. QED
    BY <2>1 DEF Tables!KeysUnique, SameKey
<1>. QED
  BY <1>4, <1>7, <1>8, <1>9, <1>10 DEF TablesInv

(* What another call has found at its flush is still so. *)
LEMMA CommitFounded ==
  ASSUME TableInv, NEW k \in Tasks, Commit(k), NEW j \in Tasks, j # k, call[j].pc = "flushed"
  PROVE  Founded(call[j])'
<1>. DEFINE c == call[k]  d == call[j]
<1>1. /\ Begun(c) /\ c.op \in Ops /\ c.pc = "flushed"
      /\ \A r : r \in rows' <=> \/ r \in rows /\ RefOf(r) \notin Written(c)
                                \/ c.op # "delete" /\ r = c.row
  BY CommitEffect DEF Begun
<1>2. Begun(d) /\ Founded(d) /\ d.op \in Ops
  BY DEF TableInv, TypeInv, Calls, Founding, Begun
<1>3. call'[j] = d
  BY CommitEffect DEF TableInv, TypeInv, Types
<1>4. ~Conflict(c, d)
  BY <1>1 DEF TableInv, Apart
<1>5. \A r \in rows : Formed(r)
  BY DEF TableInv, TypeInv, Types
<1>. HIDE DEF c, d
<1>6. Needed(d) \subseteq RefsOf(rows')
  <2>1. ASSUME NEW p \in Needed(d) PROVE p \in RefsOf(rows')
    <3>1. d.op # "delete" /\ p \in d.row.refs /\ Formed(d.row)
      BY <1>2, <2>1 DEF Needed, Begun
    <3>2. PICK s \in rows : RefOf(s) = p
      BY <1>2, <2>1, RefsOfRows DEF Founded
    <3>3. s.kind # "coupon"
      BY <3>1, <3>2, NoRefToSchedule, RefIsPair
    <3>4. c.op = "delete" => p \notin c.gone
      BY <1>4, <2>1, <3>1 DEF Conflict, Written
    <3>. QED
      BY <3>2, <3>3, <3>4, RefOutlives DEF c
  <2>. QED
    BY <2>1
<1>7. d.op # "delete" => \A r \in rows' : SameKey(r, d.row) => RefOf(r) = RefOf(d.row)
  BY <1>1, <1>2, <1>4 DEF Founded, Conflict, Takes, SameKey
<1>8. ASSUME d.op = "create"
      PROVE  /\ \A r \in rows' : RefOf(r) = RefOf(d.row) => RefOf(r) \in d.gone
             /\ \A r \in rows' : RefOf(r) \in d.gone => Replaces(d, r)
  <2>1. /\ \A r \in rows : RefOf(r) = RefOf(d.row) => RefOf(r) \in d.gone
        /\ \A r \in rows : RefOf(r) \in d.gone => Replaces(d, r)
    BY <1>2, <1>8 DEF Founded
  <2>2. c.op # "delete" => RefOf(c.row) # RefOf(d.row) /\ RefOf(c.row) \notin d.gone
    BY <1>4, <1>8 DEF Conflict, Written
  <2>. QED
    BY <1>1, <2>1, <2>2
<1>9. ASSUME d.op = "update"
      PROVE  \E r \in rows' : /\ RefOf(r) = RefOf(d.row) /\ r.owner = d.row.owner
                              /\ r.kind = "bond" => r.key = d.row.key
  <2>1. PICK r \in rows : /\ RefOf(r) = RefOf(d.row) /\ r.owner = d.row.owner
                          /\ r.kind = "bond" => r.key = d.row.key
    BY <1>2, <1>9 DEF Founded
  <2>2. RefOf(r) \notin Written(c)
    BY <1>4, <1>9, <2>1 DEF Conflict, Written
  <2>. QED
    BY <1>1, <2>1, <2>2
<1>10. ASSUME d.op = "delete", NEW r \in rows', r.refs \cap d.gone # {}
       PROVE  RefOf(r) \in d.gone
  <2>1. CASE r \in rows
    BY <1>2, <1>10, <2>1 DEF Founded
  <2>2. CASE c.op # "delete" /\ r = c.row
    BY <1>4, <1>10, <2>2 DEF Conflict, Written, Needed
  <2>. QED
    BY <1>1, <2>1, <2>2
<1>11. /\ Needed(d)' = Needed(d) /\ RefsOf(rows)' = RefsOf(rows')
       /\ database' = database /\ database # "sqlite"
  <2>1. database' = database
    BY CommitEffect
  <2>. QED
    BY <1>3, <1>4, <2>1 DEF Needed, RefsOf, Conflict, d
<1>12. /\ Needed(d) \subseteq RefsOf(rows')
       /\ d.op # "delete" => \A r \in rows' : SameKey(r, d.row) => RefOf(r) = RefOf(d.row)
       /\ d.op = "create" =>
             /\ \A r \in rows' : RefOf(r) = RefOf(d.row) => RefOf(r) \in d.gone
             /\ \A r \in rows' : RefOf(r) \in d.gone => Replaces(d, r)
       /\ d.op = "update" =>
             \E r \in rows' : /\ RefOf(r) = RefOf(d.row) /\ r.owner = d.row.owner
                              /\ r.kind = "bond" => r.key = d.row.key
       /\ d.op = "delete" => \A r \in rows' : r.refs \cap d.gone # {} => RefOf(r) \in d.gone
  BY <1>6, <1>7, <1>8, <1>9, <1>10
<1>. QED
  BY <1>3, <1>11, <1>12 DEF Founded, Replaces, d

(* A commit preserves the invariant. *)
LEMMA CommitStep ==
  ASSUME TableInv, NEW k \in Tasks, Commit(k)
  PROVE  TableInv'
<1>1. /\ call' = [call EXCEPT ![k] = Rest] /\ database' = database /\ sequence' = sequence
      /\ Rest \in CallSet /\ Rest.pc = "idle"
  BY CommitEffect, RestIsCall
<1>2. /\ call'[k] = Rest /\ call' \in [Tasks -> CallSet]
      /\ \A j \in Tasks : j # k => call'[j] = call[j]
  BY <1>1 DEF TableInv, TypeInv, Types
<1>3. Types' /\ TablesInv'
  BY <1>1, <1>2, CommitTables DEF Types, TableInv, TypeInv
<1>4. Calls'
  BY <1>1, <1>2 DEF TableInv, TypeInv, Calls
<1>5. Founding'
  BY <1>1, <1>2, CommitFounded DEF Founding
<1>6. Apart'
  <2>1. \A x, y : Conflict(x, y)' <=> Conflict(x, y)
    BY <1>1 DEF Conflict, Takes, Written, Needed
  <2>. QED
    BY <1>1, <1>2, <2>1 DEF TableInv, Apart
<1>7. Numbered'
  <2>1. ASSUME database = "postgresql", NEW r \in rows' PROVE r.id <= sequence[r.kind]
    <3>1. r \in rows \/ (call[k].op # "delete" /\ r = call[k].row)
      BY CommitMembers
    <3>2. call[k].pc = "flushed"
      BY DEF Commit
    <3>. QED
      BY <2>1, <3>1, <3>2 DEF TableInv, Numbered
  <2>2. ASSUME database = "postgresql", NEW j \in Tasks, call'[j].pc = "flushed", call'[j].op # "delete"
        PROVE  call'[j].row.id <= sequence[call'[j].row.kind]
    <3>1. j # k /\ call'[j] = call[j]
      BY <1>1, <1>2, <2>2
    <3>. QED
      BY <2>2, <3>1 DEF TableInv, Numbered
  <2>. QED
    BY <1>1, <2>1, <2>2 DEF Numbered
<1>. QED
  BY <1>3, <1>4, <1>5, <1>6, <1>7 DEF TableInv, TypeInv

(* Every step preserves the invariant. *)
LEMMA StepTables ==
  ASSUME TableInv, [Next]_vars
  PROVE  TableInv'
<1>1. ASSUME NEW k \in Tasks, Refused(k) \/ Fails(k) PROVE TableInv'
  BY <1>1, EndStep DEF Refused, Fails
<1>2. CASE UNCHANGED vars
  <2>1. rows' = rows /\ call' = call /\ database' = database /\ sequence' = sequence
    BY <1>2 DEF vars
  <2>2. TypeInv' /\ TablesInv' /\ Numbered'
    BY <2>1 DEF TableInv, TypeInv, Types, Calls, Numbered,
               TablesInv, OneRowPerRef, OneSchedule, Tables!ReferencesLive, Tables!KeysUnique
  <2>3. Founding'
    BY <2>1, FoundedSame DEF TableInv, Founding
  <2>4. Apart'
    BY <2>1 DEF TableInv, Apart, Conflict, Takes, Written, Needed
  <2>. QED
    BY <2>2, <2>3, <2>4 DEF TableInv
<1>. QED
  BY <1>1, <1>2, BeginStep, LoadStep, FlushStep, TellStep, CommitStep DEF Next

(* The tables start empty. *)
LEMMA InitTables == Init => TableInv
<1>. SUFFICES ASSUME Init PROVE TableInv
  OBVIOUS
<1>1. rows = {} /\ \A k \in Tasks : call[k] = Rest
  BY DEF Init
<1>2. Rest \in CallSet /\ Rest.pc = "idle"
  BY RestIsCall
<1>3. TypeInv
  BY <1>1, <1>2 DEF Init, TypeInv, Types, Calls
<1>4. TablesInv /\ Founding /\ Apart /\ Numbered
  BY <1>1, <1>2 DEF TablesInv, Founding, Apart, Numbered, OneRowPerRef, OneSchedule,
                    Tables!ReferencesLive, Tables!KeysUnique
<1>. QED
  BY <1>3, <1>4 DEF TableInv

(* On either database the tables are sound, and every flushed call keeps   *)
(* what it has found.                                                      *)
THEOREM TablesHold == Spec => []TableInv
<1>1. TableInv /\ [Next]_vars => TableInv'
  BY StepTables
<1>. QED
  BY <1>1, InitTables, PTL DEF Spec

-----------------------------------------------------------------------------
(* Only a commit writes to the tables. *)
LEMMA OnlyCommitsChange ==
  ASSUME [Next]_vars, ~\E k \in Tasks : Commit(k)
  PROVE  rows' = rows
<1>1. ASSUME NEW k \in Tasks, Begin(k) PROVE rows' = rows
  BY <1>1 DEF Begin, CreateBroker, UpdateBroker, DeleteBroker, PopulateCoupons, CreateBond,
              CreateAccount, CreateOperation, AddTransaction, UpdateAccountOrBond,
              UpdateOperation, DeleteAccount, DeleteBond, DeleteLeaf, Checked
<1>. QED
  BY <1>1 DEF Next, vars, Load, Flush, Refused, Tell, Fails

(* The database is the one the program was started with. *)
LEMMA DatabaseStays ==
  ASSUME [Next]_vars
  PROVE  database' = database
<1>1. ASSUME NEW k \in Tasks, Begin(k) PROVE database' = database
  BY <1>1 DEF Begin, CreateBroker, UpdateBroker, DeleteBroker, PopulateCoupons, CreateBond,
              CreateAccount, CreateOperation, AddTransaction, UpdateAccountOrBond,
              UpdateOperation, DeleteAccount, DeleteBond, DeleteLeaf, Checked
<1>. QED
  BY <1>1 DEF Next, vars, Load, Flush, Refused, Tell, Fails, Commit

(* A commit is one change of the catalogue. *)
LEMMA CommitIsCatalogueStep ==
  ASSUME TableInv, NEW k \in Tasks, Commit(k)
  PROVE  Tables!CatalogueNext
<1>. DEFINE c == call[k]
<1>1. /\ Begun(c) /\ Founded(c) /\ c.op \in Ops /\ c.pc = "flushed"
      /\ c.op = "delete" => rows' = {r \in rows : RefOf(r) \notin c.gone}
      /\ c.op = "update" => rows' = {r \in rows : RefOf(r) # RefOf(c.row)} \cup {c.row}
      /\ c.op = "create" =>
            /\ rows' = {r \in rows : RefOf(r) \notin c.gone} \cup {c.row}
            /\ \A r \in rows : RefOf(r) = RefOf(c.row) => RefOf(r) \in c.gone
            /\ \A r \in rows : RefOf(r) \in c.gone => Replaces(c, r)
  BY CommitEffect DEF Begun
<1>2. \A r, s \in rows : RefOf(r) = RefOf(s) => r = s
  BY DEF TableInv, TablesInv, OneRowPerRef
<1>3. Tables!ReferencesLive' /\ Tables!KeysUnique'
  BY CommitTables DEF TablesInv
<1>. HIDE DEF c
<1>4. CASE c.op = "create"
  <2>1. c.row \in rows'
    BY <1>1, <1>4
  <2>2. CASE \E old \in rows : RefOf(old) \in c.gone
    <3>. DEFINE S == rows \ rows'
    <3>1. c.row.kind = "coupon"
      BY <1>1, <1>4, <2>2 DEF Replaces
    <3>2. \A old \in S : old.kind = "coupon" /\ old.refs = c.row.refs
      BY <1>1, <1>4 DEF Replaces
    <3>3. rows' = (rows \ S) \cup {c.row}
      BY <1>1, <1>4
    <3>. HIDE DEF S
    <3>4. Tables!Replace(S, c.row)
      BY <3>1, <3>2, <3>3 DEF Tables!Replace
    <3>. QED
      BY <1>3, <2>1, <3>4 DEF Tables!CatalogueNext, S
  <2>3. CASE ~\E old \in rows : RefOf(old) \in c.gone
    <3>1. rows' = rows \cup {c.row}
      BY <1>1, <1>4, <2>3
    <3>2. RefOf(c.row) \notin RefsOf(rows)
      BY <1>1, <1>4, <2>3, RefsOfRows
    <3>3. Tables!Insert(c.row)
      BY <3>1, <3>2 DEF Tables!Insert, RefOf, RefsOf
    <3>. QED
      BY <1>3, <2>1, <3>3 DEF Tables!CatalogueNext
  <2>. QED
    BY <2>2, <2>3
<1>5. CASE c.op = "update"
  <2>1. PICK old \in rows : RefOf(old) = RefOf(c.row) /\ old.owner = c.row.owner
    BY <1>1, <1>5 DEF Founded
  <2>2. \A r \in rows : RefOf(r) = RefOf(c.row) <=> r = old
    BY <1>2, <2>1
  <2>3. rows' = (rows \ {old}) \cup {c.row} /\ c.row \in rows'
    BY <1>1, <1>5, <2>2
  <2>4. Tables!Amend(old, c.row)
    BY <2>1, <2>3 DEF Tables!Amend, RefOf
  <2>. QED
    BY <1>3, <2>1, <2>3, <2>4 DEF Tables!CatalogueNext
<1>6. CASE c.op = "delete"
  <2>. DEFINE S == rows \ rows'
  <2>1. rows' = rows \ S /\ \A r \in S : r \in rows /\ RefOf(r) \in c.gone
    BY <1>1, <1>6
  <2>2. /\ \A g \in c.gone : g.kind \in {c.row.kind} \cup TakenAlong(c.row.kind)
        /\ \A g \in c.gone : g.kind = c.row.kind => g = RefOf(c.row)
        /\ c.row.kind \in Kinds
    BY <1>1, <1>6 DEF Begun, Formed
  <2>3. \A r \in S : r.kind \in {c.row.kind} \cup TakenAlong(c.row.kind)
    BY <2>1, <2>2, RefIsPair
  <2>4. \A r, s \in S : r.kind = c.row.kind /\ s.kind = c.row.kind => r = s
    <3>. SUFFICES ASSUME NEW r \in S, NEW s \in S, r.kind = c.row.kind, s.kind = c.row.kind
                  PROVE  r = s
      OBVIOUS
    <3>1. RefOf(r) = RefOf(c.row) /\ RefOf(s) = RefOf(c.row)
      BY <2>1, <2>2, RefIsPair
    <3>. QED
      BY <1>2, <2>1, <3>1
  <2>. HIDE DEF S
  <2>5. Tables!Remove(S)
    BY <2>1, <2>2, <2>3, <2>4 DEF Tables!Remove, TakenAlong, Kinds
  <2>. QED
    BY <1>3, <2>5 DEF Tables!CatalogueNext, S
<1>. QED
  BY <1>1, <1>4, <1>5, <1>6 DEF Ops

(* However many calls interleave, on either database, what they do to the  *)
(* tables is a history of single changes, after each of which references   *)
(* are live, names and ISINs unique, and rows with their owners.           *)
THEOREM ImplementsCatalogue == Spec => CatalogueSpec
<1>1. Init => Tables!CatalogueInit
  BY DEF Init, Tables!CatalogueInit
<1>2. TableInv /\ [Next]_vars => [Tables!CatalogueNext]_rows
  BY CommitIsCatalogueStep, OnlyCommitsChange
<1>. QED
  BY <1>1, <1>2, TablesHold, PTL DEF Spec, CatalogueSpec, Tables!CatalogueSpec

(* The tables hold rows, and calls are well formed. *)
THEOREM TypeCorrect == Spec => []RegistryTypeOK
<1>1. TableInv => RegistryTypeOK
  <2>. SUFFICES ASSUME TableInv PROVE RegistryTypeOK
    OBVIOUS
  <2>1. \A r \in rows : Tables!IsRow(r)
    BY DEF TableInv, TypeInv, Types, Formed, RowSet, Tables!IsRow, Kinds, Ref, Parents
  <2>2. \A k \in Tasks : call[k].pc \in Phases /\ call[k].gone \subseteq Ref
    BY DEF TableInv, TypeInv, Types, CallSet
  <2>. QED
    BY <2>1, <2>2 DEF TableInv, TypeInv, Types, Numbered, RegistryTypeOK
<1>. QED
  BY <1>1, TablesHold, PTL

-----------------------------------------------------------------------------
(* PostgreSQL.  A reference that is settled stays so, and the row behind   *)
(* it keeps its owner and, if it is a bond, its ISIN.                      *)
SettledStay == \A p \in Ref : Settled(p) => Settled(p)'
RowsStay ==
    \A p \in Ref, r \in rows' : Settled(p) /\ RefOf(r) = p =>
        \E s \in rows : /\ RefOf(s) = p /\ r.owner = s.owner
                        /\ p.kind = "bond" => r.key = s.key

(* What a call remembers is then still true. *)
LEMMA RememberedKept ==
  ASSUME SettledStay, RowsStay, NEW c \in CallSet, Begun(c), Remembered(c)
  PROVE  Remembered(c)'
<1>1. c.row.refs \in SUBSET Ref /\ Formed(c.row)
  BY DEF CallSet, RowSet, Begun
<1>2. ASSUME NEW p \in Ref, NEW owner, OwnerKnown(p, owner) PROVE OwnerKnown(p, owner)'
  BY <1>2 DEF OwnerKnown, SettledStay, RowsStay
<1>3. ASSUME NEW p \in Ref, NEW key, p.kind = "bond", KeyKnown(p, key) PROVE KeyKnown(p, key)'
  BY <1>3 DEF KeyKnown, SettledStay, RowsStay
<1>4. c.op = "update" => OwnerKnown(RefOf(c.row), c.row.owner)'
  <2>1. c.op = "update" => RefOf(c.row) \in Ref
    BY <1>1, RefIsPair DEF Begun, Formed
  <2>. QED
    BY <1>2, <2>1 DEF Remembered
<1>5. c.op # "delete" /\ c.row.kind \in OnAccount =>
        \A p \in c.row.refs : p.kind = "account" => OwnerKnown(p, c.row.owner)'
  BY <1>1, <1>2 DEF Remembered
<1>6. c.row.kind = "coupon" => \A p \in c.row.refs : KeyKnown(p, c.row.key)'
  <2>1. c.row.kind = "coupon" => \A p \in c.row.refs : p.kind = "bond"
    BY <1>1, ParentsKnown DEF Formed
  <2>. QED
    BY <1>1, <1>3, <2>1 DEF Remembered
<1>. QED
  BY <1>4, <1>5, <1>6 DEF Remembered

(* The reference to a row is settled. *)
LEMMA RowSettled ==
  ASSUME TableInv, database = "postgresql", NEW r \in rows, r.kind # "coupon"
  PROVE  /\ Settled(RefOf(r))
         /\ \A s \in rows : RefOf(s) = RefOf(r) => s = r
<1>1. RefOf(r).id <= sequence[RefOf(r).kind]
  BY RefIsPair DEF TableInv, Numbered
<1>2. ASSUME NEW j \in Tasks, Inserting(j) PROVE RefOf(call[j].row) # RefOf(r)
  <2>1. Begun(call[j]) /\ Founded(call[j]) /\ call[j].op = "create"
    BY <1>2 DEF Inserting, TableInv, TypeInv, Calls, Founding
  <2>2. RefOf(r) = RefOf(call[j].row) => RefOf(r) \in call[j].gone
    BY <2>1 DEF Founded
  <2>3. \A g \in call[j].gone : g.kind = "coupon"
    BY <2>1 DEF Begun
  <2>. QED
    BY <2>2, <2>3, RefIsPair
<1>3. \A s \in rows : RefOf(s) = RefOf(r) => s = r
  BY DEF TableInv, TablesInv, OneRowPerRef
<1>. QED
  BY <1>1, <1>2, <1>3 DEF Settled

(* What was read of a row is known of it. *)
LEMMA ReadRemembered ==
  ASSUME TableInv, database = "postgresql", NEW c, Begun(c), HasRead(c.op, c.row)
  PROVE  Remembered(c)
<1>0. Formed(c.row)
  BY DEF Begun
<1>1. ASSUME NEW a \in rows, a.kind # "coupon"
      PROVE  OwnerKnown(RefOf(a), a.owner) /\ KeyKnown(RefOf(a), a.key)
  BY <1>1, RowSettled DEF OwnerKnown, KeyKnown
<1>2. ASSUME c.op = "update" PROVE OwnerKnown(RefOf(c.row), c.row.owner)
  <2>1. PICK r \in rows : RefOf(r) = RefOf(c.row) /\ r.owner = c.row.owner
    BY <1>2 DEF HasRead
  <2>2. r.kind # "coupon"
    BY <1>2, <2>1, RefIsPair DEF Begun
  <2>. QED
    BY <1>1, <2>1, <2>2
<1>3. ASSUME c.op # "delete", c.row.kind \in OnAccount, NEW p \in c.row.refs, p.kind = "account"
      PROVE  OwnerKnown(p, c.row.owner)
  <2>1. PICK a \in rows : RefOf(a) = p /\ a.owner = c.row.owner
    BY <1>3 DEF HasRead
  <2>. QED
    BY <1>1, <1>3, <2>1, RefIsPair
<1>4. ASSUME c.row.kind = "coupon", NEW p \in c.row.refs PROVE KeyKnown(p, c.row.key)
  <2>1. PICK b \in rows : RefOf(b) = p /\ b.key = c.row.key
    BY <1>4 DEF HasRead
  <2>2. b.kind # "coupon"
    BY <1>0, <1>4, <2>1, NoRefToSchedule, RefIsPair
  <2>. QED
    BY <1>1, <2>1, <2>2
<1>. QED
  BY <1>2, <1>3, <1>4 DEF Remembered

(* Steps of one call, in their effect on what the others remember. *)
LEMMA MemoryStep ==
  ASSUME TableInv, Memory, SettledStay, RowsStay, NEW k \in Tasks, NEW c \in CallSet,
         call' = [call EXCEPT ![k] = c],
         c.pc # "idle" => Begun(c) /\ Remembered(c)
  PROVE  Memory'
<1>1. call'[k] = c /\ \A j \in Tasks : j # k => call'[j] = call[j]
  BY DEF TableInv, TypeInv, Types
<1>2. ASSUME NEW j \in Tasks, j # k, call[j].pc # "idle" PROVE Remembered(call[j])'
  <2>1. call[j] \in CallSet /\ Begun(call[j]) /\ Remembered(call[j])
    BY <1>2 DEF TableInv, TypeInv, Types, Calls, Memory
  <2>2. call'[j] = call[j]
    BY <1>1, <1>2
  <2>3. ASSUME NEW e \in CallSet, Begun(e), Remembered(e) PROVE Remembered(e)'
    BY <2>3, RememberedKept
  <2>. QED
    BY <2>1, <2>2, <2>3 DEF Remembered
<1>3. c.pc # "idle" => Remembered(c)'
  BY RememberedKept
<1>. QED
  BY <1>1, <1>2, <1>3 DEF Memory, Remembered

(* Where no row is written and no id given, all that was settled stays so. *)
LEMMA QuietSettled ==
  ASSUME TableInv, NEW k \in Tasks, NEW c \in CallSet, call' = [call EXCEPT ![k] = c],
         rows' = rows, sequence' = sequence,
         c.pc = "flushed" /\ c.op = "create" => Inserting(k) /\ c.row = call[k].row
  PROVE  SettledStay /\ RowsStay
<1>1. call'[k] = c /\ \A j \in Tasks : j # k => call'[j] = call[j]
  BY DEF TableInv, TypeInv, Types
<1>2. SettledStay
  BY <1>1 DEF SettledStay, Settled, Inserting
<1>3. RowsStay
  BY DEF RowsStay
<1>. QED
  BY <1>2, <1>3

(* Calls that begin, load, announce or give up. *)
LEMMA QuietMemory ==
  ASSUME TableInv, Memory, database = "postgresql", NEW k \in Tasks,
         Begin(k) \/ Load(k) \/ (\E user : Tell(k, user)) \/ Refused(k) \/ Fails(k)
  PROVE  Memory'
<1>1. CASE Begin(k)
  <2>1. PICK op, row : Beginning(k, op, row)
    BY <1>1, BeginEffect DEF TableInv, TypeInv
  <2>. DEFINE c == NewCall(op, row)
  <2>2. op \in Ops /\ row \in RowSet
    BY <2>1 DEF Beginning
  <2>3. c \in CallSet /\ c.pc = "checked" /\ c.op = op /\ c.row = row
    BY <2>2, NewCallFields
  <2>4. /\ call' = [call EXCEPT ![k] = c] /\ rows' = rows /\ sequence' = sequence
        /\ Begun(c) /\ HasRead(op, row)
    BY <2>1 DEF Beginning, Checked, NewCall
  <2>. HIDE DEF c
  <2>5. Remembered(c)
    BY <2>3, <2>4, ReadRemembered
  <2>6. SettledStay /\ RowsStay
    BY <2>3, <2>4, QuietSettled
  <2>. QED
    BY <2>3, <2>4, <2>5, <2>6, MemoryStep
<1>2. CASE Load(k) \/ \E user : Tell(k, user)
  <2>1. PICK c \in CallSet :
            /\ call' = [call EXCEPT ![k] = c] /\ rows' = rows /\ sequence' = sequence
            /\ c.op = call[k].op /\ c.row = call[k].row /\ call[k].pc # "idle"
            /\ c.pc = "flushed" => call[k].pc = "flushed"
    <3>1. call'[k] \in CallSet /\ call' = [call EXCEPT ![k] = call'[k]]
      <4>1. TableInv'
        BY <1>2, LoadStep, TellStep
      <4>2. call' \in [Tasks -> CallSet] /\ call \in [Tasks -> CallSet]
        BY <4>1 DEF TableInv, TypeInv, Types
      <4>3. \A j \in Tasks : j # k => call'[j] = call[j]
        BY <1>2, <4>2 DEF Load, Tell
      <4>. QED
        BY <4>2, <4>3
    <3>2. /\ rows' = rows /\ sequence' = sequence
          /\ call'[k].op = call[k].op /\ call'[k].row = call[k].row /\ call[k].pc # "idle"
          /\ call'[k].pc = "flushed" => call[k].pc = "flushed"
      BY <1>2 DEF Load, Tell, TableInv, TypeInv, Types, CallSet
    <3>. QED
      BY <3>1, <3>2
  <2>2. Begun(c)
    <3>1. TableInv'
      BY <1>2, LoadStep, TellStep
    <3>2. call'[k] = c
      BY <2>1 DEF TableInv, TypeInv, Types
    <3>3. c.pc # "idle"
      BY <1>2, <2>1, <3>2 DEF Load, Tell, TableInv, TypeInv, Types, CallSet
    <3>. QED
      BY <3>1, <3>2, <3>3 DEF TableInv, TypeInv, Calls, Begun
  <2>3. Remembered(c)
    <3>1. Remembered(call[k])
      BY <2>1 DEF Memory
    <3>. QED
      BY <2>1, <3>1 DEF Remembered
  <2>4. SettledStay /\ RowsStay
    BY <2>1, QuietSettled DEF Inserting
  <2>. QED
    BY <2>1, <2>2, <2>3, <2>4, MemoryStep
<1>3. CASE Refused(k) \/ Fails(k)
  <2>1. call' = [call EXCEPT ![k] = Rest] /\ rows' = rows /\ sequence' = sequence
    BY <1>3 DEF Refused, Fails, End
  <2>2. Rest \in CallSet /\ Rest.pc = "idle"
    BY RestIsCall
  <2>3. SettledStay /\ RowsStay
    BY <2>1, <2>2, QuietSettled
  <2>. QED
    BY <2>1, <2>2, <2>3, MemoryStep
<1>. QED
  BY <1>1, <1>2, <1>3

(* A flush gives an id that nobody has seen. *)
LEMMA FlushMemory ==
  ASSUME TableInv, Memory, database = "postgresql", NEW k \in Tasks, Flush(k)
  PROVE  Memory'
<1>1. PICK c \in CallSet :
            /\ call' = [call EXCEPT ![k] = c]
            /\ c.pc = "flushed" /\ c.op = call[k].op /\ Begun(c)
            /\ rows' = rows
            /\ c.op = "create" =>
                  /\ c.row.kind = call[k].row.kind /\ c.row.owner = call[k].row.owner
                  /\ c.row.key = call[k].row.key /\ c.row.refs = call[k].row.refs
                  /\ c.row.id = sequence[c.row.kind] + 1
                  /\ sequence' = [sequence EXCEPT ![c.row.kind] = c.row.id]
            /\ c.op = "create" \/ sequence' = sequence
            /\ c.op = "update" =>
                  /\ RefOf(c.row) = RefOf(call[k].row)
                  /\ c.row.kind = "operation" => c.row.refs = call[k].row.refs
                  /\ \E r \in rows : RefOf(r) = RefOf(c.row) /\ r.owner = c.row.owner
            /\ c.op = "delete" => c.row = call[k].row
  BY FlushEffect
<1>2. Remembered(call[k]) /\ c.op \in Ops
  BY <1>1 DEF Flush, Memory, Begun
<1>3. Remembered(c)
  <2>1. CASE c.op = "create"
    BY <1>1, <1>2, <2>1 DEF Remembered
  <2>2. CASE c.op = "delete"
    BY <1>1, <1>2, <2>2 DEF Remembered
  <2>3. CASE c.op = "update"
    <3>1. OwnerKnown(RefOf(c.row), call[k].row.owner)
      BY <1>1, <1>2, <2>3 DEF Remembered
    <3>2. c.row.owner = call[k].row.owner
      BY <1>1, <2>3, <3>1 DEF OwnerKnown
    <3>3. c.row.kind = call[k].row.kind /\ c.row.kind \in {"broker", "account", "bond", "operation"}
      BY <1>1, <2>3, RefIsPair DEF Begun
    <3>4. c.row.kind = "operation" =>
            \A p \in c.row.refs : p.kind = "account" => OwnerKnown(p, c.row.owner)
      BY <1>1, <1>2, <2>3, <3>2, <3>3 DEF Remembered, OnAccount
    <3>. QED
      BY <2>3, <3>1, <3>2, <3>3, <3>4 DEF Remembered, OnAccount
  <2>. QED
    BY <1>2, <2>1, <2>2, <2>3 DEF Ops
<1>4. SettledStay
  <2>1. ASSUME NEW p \in Ref, Settled(p) PROVE Settled(p)'
    <3>0. p.kind \in Kinds /\ p.id \in Nat
      BY RefIsPair DEF Ids
    <3>1. sequence[p.kind] \in Nat /\ c.row.kind \in Kinds /\ p.id <= sequence[p.kind]
      BY <1>1, <2>1, <3>0 DEF TableInv, TypeInv, Types, Begun, Formed, Settled
    <3>2. p.id <= sequence'[p.kind]
      BY <1>1, <3>0, <3>1 DEF TableInv, TypeInv, Types
    <3>3. c.op = "create" => RefOf(c.row) # p
      <4>1. c.op = "create" /\ RefOf(c.row) = p => p.kind = c.row.kind /\ p.id = sequence[p.kind] + 1
        BY <1>1, RefIsPair
      <4>. QED
        BY <3>0, <3>1, <4>1
    <3>4. call'[k] = c /\ \A j \in Tasks : j # k => call'[j] = call[j]
      BY <1>1 DEF TableInv, TypeInv, Types
    <3>. QED
      BY <2>1, <3>2, <3>3, <3>4 DEF Settled, Inserting
  <2>. QED
    BY <2>1 DEF SettledStay
<1>5. RowsStay
  BY <1>1 DEF RowsStay
<1>. QED
  BY <1>1, <1>3, <1>4, <1>5, MemoryStep

(* A commit writes what everybody remembers of the row. *)
LEMMA CommitMemory ==
  ASSUME TableInv, Memory, database = "postgresql", NEW k \in Tasks, Commit(k)
  PROVE  Memory'
<1>. DEFINE c == call[k]
<1>1. /\ call' = [call EXCEPT ![k] = Rest] /\ sequence' = sequence
      /\ c.pc = "flushed" /\ c.op \in Ops /\ Founded(c)
  BY CommitEffect DEF Begun
<1>2. \A r \in rows' : r \in rows \/ (c.op # "delete" /\ r = c.row)
  BY CommitMembers
<1>3. Rest \in CallSet /\ Rest.pc = "idle"
  BY RestIsCall
<1>4. SettledStay
  <2>1. call'[k] = Rest /\ \A j \in Tasks : j # k => call'[j] = call[j]
    BY <1>1 DEF TableInv, TypeInv, Types
  <2>. QED
    BY <1>1, <1>3, <2>1 DEF SettledStay, Settled, Inserting
<1>5. RowsStay
  <2>1. ASSUME NEW p \in Ref, NEW r \in rows', Settled(p), RefOf(r) = p
        PROVE  \E s \in rows : /\ RefOf(s) = p /\ r.owner = s.owner
                               /\ p.kind = "bond" => r.key = s.key
    <3>1. CASE r \in rows
      BY <2>1, <3>1
    <3>2. CASE c.op = "create" /\ r = c.row
      BY <1>1, <2>1, <3>2 DEF Settled, Inserting
    <3>3. CASE c.op = "update" /\ r = c.row
      <4>1. PICK s \in rows : /\ RefOf(s) = RefOf(c.row) /\ s.owner = c.row.owner
                              /\ s.kind = "bond" => s.key = c.row.key
        BY <1>1, <3>3 DEF Founded
      <4>2. s.kind = p.kind
        BY <2>1, <3>3, <4>1, RefIsPair
      <4>. QED
        BY <2>1, <3>3, <4>1, <4>2
    <3>. QED
      BY <1>1, <1>2, <3>1, <3>2, <3>3 DEF Ops
  <2>. QED
    BY <2>1 DEF RowsStay
<1>. QED
  BY <1>1, <1>3, <1>4, <1>5, MemoryStep

(* A commit puts down a row with the owner and the key of what it refers   *)
(* to, and changes neither of a row that is referred to.                   *)
LEMMA CommitFollows ==
  ASSUME TableInv, Memory, OwnersFollow, KeysFollow, NEW k \in Tasks, Commit(k)
  PROVE  OwnersFollow' /\ KeysFollow'
<1>. DEFINE c == call[k]
<1>1. /\ c.pc = "flushed" /\ c.op \in Ops /\ Founded(c) /\ Begun(c)
      /\ c.op = "create" =>
            /\ \A r \in rows : RefOf(r) = RefOf(c.row) => RefOf(r) \in c.gone
            /\ \A r \in rows : RefOf(r) \in c.gone => Replaces(c, r)
  BY CommitEffect DEF Begun
<1>2. \A r \in rows' : r \in rows \/ (c.op # "delete" /\ r = c.row)
  BY CommitMembers
<1>3. Remembered(c)
  BY <1>1 DEF Memory
<1>4. \A r \in rows' : Formed(r)
  BY CommitTables
<1>. HIDE DEF c
<1>5. ASSUME NEW r \in rows, c.op # "delete", RefOf(c.row) \in r.refs
      PROVE  \E s \in rows : /\ RefOf(s) = RefOf(c.row) /\ s.owner = c.row.owner
                             /\ s.kind = "bond" => s.key = c.row.key
  <2>1. CASE c.op = "update"
    BY <1>1, <2>1 DEF Founded
  <2>2. CASE c.op = "create"
    <3>1. RefOf(c.row) \in RefsOf(rows)
      BY <1>5 DEF TableInv, TablesInv, Tables!ReferencesLive, RefsOf
    <3>2. PICK s \in rows : RefOf(s) = RefOf(c.row)
      BY <3>1, RefsOfRows
    <3>3. c.row.kind = "coupon"
      BY <1>1, <2>2, <3>2 DEF Replaces
    <3>4. Formed(r)
      BY DEF TableInv, TypeInv, Types
    <3>. QED
      BY <1>5, <3>3, <3>4, NoRefToSchedule, RefIsPair
  <2>. QED
    BY <1>1, <1>5, <2>1, <2>2 DEF Ops
<1>6. ASSUME NEW r \in rows', NEW a \in rows', r.kind \in OnAccount, a.kind = "account",
             RefOf(a) \in r.refs
      PROVE  r.owner = a.owner
  <2>1. CASE r \in rows /\ a \in rows
    BY <1>6, <2>1 DEF OwnersFollow
  <2>2. CASE r \in rows /\ c.op # "delete" /\ a = c.row
    <3>1. PICK s \in rows : RefOf(s) = RefOf(c.row) /\ s.owner = c.row.owner
      BY <1>5, <1>6, <2>2
    <3>2. s.kind = "account" /\ RefOf(s) \in r.refs
      BY <1>6, <2>2, <3>1, RefIsPair
    <3>. QED
      BY <1>6, <2>2, <3>1, <3>2 DEF OwnersFollow
  <2>3. CASE c.op # "delete" /\ r = c.row /\ a \in rows
    <3>1. OwnerKnown(RefOf(a), r.owner)
      BY <1>3, <1>6, <2>3, RefIsPair DEF Remembered
    <3>. QED
      BY <2>3, <3>1 DEF OwnerKnown
  <2>. QED
    BY <1>2, <1>6, <2>1, <2>2, <2>3 DEF OnAccount
<1>7. ASSUME NEW r \in rows', NEW b \in rows', r.kind = "coupon", RefOf(b) \in r.refs
      PROVE  r.key = b.key
  <2>0. b.kind = "bond"
    BY <1>4, <1>7, ParentsKnown, RefIsPair DEF Formed
  <2>1. CASE r \in rows /\ b \in rows
    BY <1>7, <2>1 DEF KeysFollow
  <2>2. CASE r \in rows /\ c.op # "delete" /\ b = c.row
    <3>1. PICK s \in rows : /\ RefOf(s) = RefOf(c.row)
                            /\ s.kind = "bond" => s.key = c.row.key
      BY <1>5, <1>7, <2>2
    <3>2. s.kind = "bond" /\ RefOf(s) \in r.refs
      BY <1>7, <2>0, <2>2, <3>1, RefIsPair
    <3>. QED
      BY <1>7, <2>2, <3>1, <3>2 DEF KeysFollow
  <2>3. CASE c.op # "delete" /\ r = c.row /\ b \in rows
    <3>1. KeyKnown(RefOf(b), r.key)
      BY <1>3, <1>7, <2>3 DEF Remembered
    <3>. QED
      BY <2>3, <3>1 DEF KeyKnown
  <2>. QED
    BY <1>2, <1>7, <2>0, <2>1, <2>2, <2>3
<1>. QED
  BY <1>6, <1>7 DEF OwnersFollow, KeysFollow

(* Every step preserves what PostgreSQL adds. *)
LEMMA StepPostgres ==
  ASSUME RegistryInv, [Next]_vars
  PROVE  PostgresInv'
<1>0. database' = database
  BY DatabaseStays
<1>. SUFFICES ASSUME database = "postgresql" PROVE Memory' /\ OwnersFollow' /\ KeysFollow'
  BY <1>0 DEF PostgresInv
<1>1. TableInv /\ Memory /\ OwnersFollow /\ KeysFollow
  BY DEF RegistryInv, PostgresInv
<1>2. Memory'
  <2>1. CASE UNCHANGED vars
    BY <1>1, <2>1 DEF vars, Memory, Remembered, OwnerKnown, KeyKnown, Settled, Inserting
  <2>2. CASE Next
    BY <1>1, <2>2, QuietMemory, FlushMemory, CommitMemory DEF Next
  <2>. QED
    BY <2>1, <2>2
<1>3. OwnersFollow' /\ KeysFollow'
  <2>1. CASE \E k \in Tasks : Commit(k)
    BY <1>1, <2>1, CommitFollows
  <2>2. CASE ~\E k \in Tasks : Commit(k)
    <3>1. rows' = rows
      BY <2>2, OnlyCommitsChange
    <3>. QED
      BY <1>1, <3>1 DEF OwnersFollow, KeysFollow
  <2>. QED
    BY <2>1, <2>2
<1>. QED
  BY <1>2, <1>3

(* All of the invariant, on both databases. *)
THEOREM RegistryHolds == Spec => []RegistryInv
<1>1. Init => RegistryInv
  <2>. SUFFICES ASSUME Init PROVE PostgresInv
    BY InitTables DEF RegistryInv
  <2>1. rows = {} /\ \A k \in Tasks : call[k].pc = "idle"
    BY RestIsCall DEF Init
  <2>. QED
    BY <2>1 DEF PostgresInv, Memory, OwnersFollow, KeysFollow
<1>2. RegistryInv /\ [Next]_vars => RegistryInv'
  BY StepTables, StepPostgres DEF RegistryInv
<1>. QED
  BY <1>1, <1>2, PTL DEF Spec

(* PostgreSQL: an account is shown to its owner with all that is on it,    *)
(* whatever happened between the check of an owner and the write.          *)
THEOREM AccountsAgree == Spec => []OwnersAgree
<1>1. RegistryInv => OwnersAgree
  <2>. SUFFICES ASSUME RegistryInv, database = "postgresql", NEW a \in rows, a.kind = "account"
                PROVE  /\ a \in AccountsOf(a.owner)
                       /\ \A kind \in {"operation", "transaction"} :
                             RowsOn(a, kind, a.owner) = Below({RefOf(a)}, {kind})
    BY DEF OwnersAgree, Agree
  <2>1. a \in AccountsOf(a.owner)
    <3>1. PICK p \in a.refs : p.kind = "broker"
      BY ParentsKnown DEF RegistryInv, TableInv, TypeInv, Types, Formed
    <3>2. p \in RefsOf(rows)
      BY DEF RegistryInv, TableInv, TablesInv, Tables!ReferencesLive, RefsOf
    <3>3. PICK b \in rows : RefOf(b) = p
      BY <3>2, RefsOfRows
    <3>. QED
      BY <3>1, <3>3, RefIsPair DEF AccountsOf
  <2>2. \A r \in rows : r.kind \in OnAccount /\ RefOf(a) \in r.refs => r.owner = a.owner
    BY DEF RegistryInv, PostgresInv, OwnersFollow
  <2>3. ASSUME NEW kind \in {"operation", "transaction"}
        PROVE  RowsOn(a, kind, a.owner) = Below({RefOf(a)}, {kind})
    BY <2>2 DEF RowsOn, Below, OnAccount
  <2>. QED
    BY <2>1, <2>3
<1>. QED
  BY <1>1, RegistryHolds, PTL

(* SQLite: at most one schedule is stored for a bond.  PostgreSQL: each of *)
(* those stored for a bond is that of its ISIN.                            *)
THEOREM SchedulesHold == Spec => []SchedulesKept
<1>1. RegistryInv => SchedulesKept
  <2>. SUFFICES ASSUME RegistryInv, NEW r \in rows, NEW b \in rows,
                       r.kind = "coupon", RefOf(b) \in r.refs
                PROVE  /\ database = "postgresql" => r.key = b.key
                       /\ database # "postgresql" =>
                             \A s \in rows : s.kind = "coupon" /\ s.refs = r.refs => s = r
    BY DEF SchedulesKept
  <2>1. database = "postgresql" => r.key = b.key
    BY DEF RegistryInv, PostgresInv, KeysFollow
  <2>2. database # "postgresql" =>
          \A s \in rows : s.kind = "coupon" /\ s.refs = r.refs => s = r
    BY DEF RegistryInv, TableInv, TablesInv, OneSchedule, TypeInv, Types
  <2>. QED
    BY <2>1, <2>2
<1>. QED
  BY <1>1, RegistryHolds, PTL

-----------------------------------------------------------------------------
(* SQLite.  While a call has flushed nobody else writes, so the users that *)
(* it found to be told stay those who hold the bond.                       *)
AudienceInv ==
    database = "sqlite" =>
        \A k \in Tasks :
            call[k].pc = "flushed" /\ Changes(call[k]) => Holders(call[k]) \subseteq call[k].tells

(* Who holds a bond depends on the rows and on the row and the removals of *)
(* the call.                                                               *)
LEMMA HoldersSame ==
  ASSUME rows' = rows, NEW c, NEW d, c.row = d.row, c.gone = d.gone
  PROVE  Holders(c)' = Holders(c) /\ Holders(c) = Holders(d)
BY DEF Holders, Below

(* Steps of one call that write no row. *)
LEMMA AudienceCallStep ==
  ASSUME TableInv, AudienceInv, NEW k \in Tasks, NEW c \in CallSet,
         call' = [call EXCEPT ![k] = c], rows' = rows, database' = database,
         c.pc = "flushed" /\ Changes(c) /\ database = "sqlite" => Holders(c) \subseteq c.tells
  PROVE  AudienceInv'
<1>1. call'[k] = c /\ \A j \in Tasks : j # k => call'[j] = call[j]
  BY DEF TableInv, TypeInv, Types
<1>2. ASSUME database = "sqlite", NEW j \in Tasks, call'[j].pc = "flushed", Changes(call'[j])
      PROVE  Holders(call'[j]) \subseteq call'[j].tells
  BY <1>1, <1>2 DEF AudienceInv
<1>3. \A x : Holders(x)' = Holders(x)
  BY DEF Holders, Below
<1>. QED
  BY <1>2, <1>3 DEF AudienceInv, Changes

(* Every step preserves it. *)
LEMMA AudienceStep ==
  ASSUME TableInv, AudienceInv, [Next]_vars
  PROVE  AudienceInv'
<1>1. Rest \in CallSet /\ Rest.pc = "idle"
  BY RestIsCall
<1>2. ASSUME NEW k \in Tasks, Begin(k) PROVE AudienceInv'
  <2>1. PICK op, row : Beginning(k, op, row)
    BY <1>2, BeginEffect DEF TableInv, TypeInv
  <2>. DEFINE c == NewCall(op, row)
  <2>2. c \in CallSet /\ c.pc = "checked"
    BY <2>1, NewCallFields DEF Beginning
  <2>3. call' = [call EXCEPT ![k] = c] /\ rows' = rows /\ database' = database
    BY <2>1 DEF Beginning, Checked, NewCall
  <2>. HIDE DEF c
  <2>. QED
    BY <2>2, <2>3, AudienceCallStep
<1>3. ASSUME NEW k \in Tasks, Refused(k) \/ Fails(k) PROVE AudienceInv'
  BY <1>1, <1>3, AudienceCallStep DEF Refused, Fails, End
<1>4. ASSUME NEW k \in Tasks, Load(k) PROVE AudienceInv'
  <2>1. TableInv'
    BY <1>4, LoadStep
  <2>2. call'[k] \in CallSet /\ call' = [call EXCEPT ![k] = call'[k]] /\ call'[k].pc = "loaded"
    <3>1. call' \in [Tasks -> CallSet] /\ call \in [Tasks -> CallSet]
      BY <2>1 DEF TableInv, TypeInv, Types
    <3>2. \A j \in Tasks : j # k => call'[j] = call[j]
      BY <1>4, <3>1 DEF Load
    <3>3. call'[k].pc = "loaded"
      BY <1>4, <3>1 DEF Load, CallSet
    <3>. QED
      BY <3>1, <3>2, <3>3
  <2>3. rows' = rows /\ database' = database
    BY <1>4 DEF Load
  <2>. QED
    BY <2>2, <2>3, AudienceCallStep
<1>5. ASSUME NEW k \in Tasks, Flush(k) PROVE AudienceInv'
  <2>1. PICK c \in CallSet :
            /\ call' = [call EXCEPT ![k] = c] /\ rows' = rows /\ database' = database
            /\ Changes(c) => c.tells = Holders(c)
    BY <1>5, FlushEffect
  <2>. QED
    BY <2>1, AudienceCallStep
<1>6. ASSUME NEW k \in Tasks, NEW user, Tell(k, user) PROVE AudienceInv'
  <2>. DEFINE c == [call[k] EXCEPT !.told = @ \cup {user}]
  <2>1. call[k] \in CallSet /\ call[k].pc = "flushed" /\ user \in call[k].tells
    BY <1>6 DEF Tell, TableInv, TypeInv, Types
  <2>2. /\ c \in CallSet /\ c.pc = call[k].pc /\ c.op = call[k].op /\ c.row = call[k].row
        /\ c.gone = call[k].gone /\ c.tells = call[k].tells
    BY <2>1 DEF CallSet
  <2>3. call' = [call EXCEPT ![k] = c] /\ rows' = rows /\ database' = database
    BY <1>6 DEF Tell
  <2>. HIDE DEF c
  <2>4. Changes(c) /\ database = "sqlite" => Holders(c) \subseteq c.tells
    BY <2>1, <2>2 DEF AudienceInv, Changes, Holders
  <2>. QED
    BY <2>2, <2>3, <2>4, AudienceCallStep
<1>7. ASSUME NEW k \in Tasks, Commit(k) PROVE AudienceInv'
  <2>1. call[k].pc = "flushed" /\ database' = database
    BY <1>7 DEF Commit
  <2>2. call' = [call EXCEPT ![k] = Rest]
    BY <1>7 DEF Commit, End
  <2>3. ASSUME database = "sqlite", NEW j \in Tasks PROVE call'[j].pc # "flushed"
    <3>1. j # k => call[j].pc # "flushed"
      BY <2>1, <2>3 DEF TableInv, Apart, Conflict
    <3>. QED
      BY <1>1, <2>2, <3>1 DEF TableInv, TypeInv, Types
  <2>. QED
    BY <2>1, <2>3 DEF AudienceInv
<1>8. CASE UNCHANGED vars
  BY <1>8 DEF vars, AudienceInv, Changes, Holders, Below
<1>. QED
  BY <1>2, <1>3, <1>4, <1>5, <1>6, <1>7, <1>8 DEF Next

(* SQLite: when a call that changes a bond comes to its commit, all who    *)
(* have transactions on the bond at that moment have been told.            *)
THEOREM HoldersAreTold == Spec => []HoldersTold
<1>1. Init => AudienceInv
  BY RestIsCall DEF Init, AudienceInv
<1>2. TableInv /\ AudienceInv /\ [Next]_vars => AudienceInv'
  BY AudienceStep
<1>3. AudienceInv => HoldersTold
  BY DEF AudienceInv, HoldersTold, AllTold
<1>. QED
  BY <1>1, <1>2, <1>3, TablesHold, PTL DEF Spec

=============================================================================
