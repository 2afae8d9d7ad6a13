------------------------------ MODULE Catalogue -----------------------------
(***************************************************************************)
(* What the tables promise together: every change is one row inserted, one *)
(* row amended, or one row removed with everything that hangs from it; a   *)
(* row refers to rows that are there; a name and an ISIN are given once; a *)
(* row keeps its owner.                                                    *)
(***************************************************************************)
EXTENDS Naturals, FiniteSets

CONSTANTS
    Users,
    Keys,          \* names of brokers, ISINs of bonds
    Nobody,        \* the owner of a row that belongs to no user
    NoKey,         \* the key of a row that has none
    Ids            \* primary keys

Kinds == {"broker", "account", "bond", "operation", "transaction", "coupon"}

(* The tables a table has foreign keys to.  users is left out: no call     *)
(* removes a user.                                                         *)
Parents(kind) ==
    CASE kind = "account" -> {"broker"}
      [] kind = "operation" -> {"account"}
      [] kind = "transaction" -> {"account", "bond"}
      [] kind = "coupon" -> {"bond"}
      [] OTHER -> {}

Ref == [kind : Kinds, id : Ids]
RefOf(r) == [kind |-> r.kind, id |-> r.id]
RefsOf(S) == {RefOf(r) : r \in S}

(* A coupon row stands for the whole stored schedule of a bond, its key    *)
(* for the ISIN the schedule was fetched for.                              *)
IsRow(r) ==
    /\ r.kind \in Kinds /\ r.id \in Ids
    /\ r.owner \in Users \cup {Nobody}
    /\ r.key \in Keys \cup {NoKey}
    /\ r.refs \in SUBSET Ref
    /\ {p.kind : p \in r.refs} = Parents(r.kind)

Unique == {"broker", "bond"}
SameKey(r, s) == r.kind = s.kind /\ r.kind \in Unique /\ r.key = s.key

VARIABLE rows      \* the committed rows of all tables

ReferencesLive == \A r \in rows : r.refs \subseteq RefsOf(rows)

KeysUnique == \A r, s \in rows : SameKey(r, s) => r = s

CatalogueInit == rows = {}

Insert(r) ==
    /\ RefOf(r) \notin RefsOf(rows)
    /\ rows' = rows \cup {r}

Amend(old, new) ==
    /\ RefOf(new) = RefOf(old) /\ new.owner = old.owner
    /\ rows' = (rows \ {old}) \cup {new}

(* The tables whose rows a row can take along. *)
TakenAlong(kind) ==
    CASE kind = "broker" -> {"account", "operation", "transaction"}
      [] kind = "account" -> {"operation", "transaction"}
      [] kind = "bond" -> {"transaction", "coupon"}
      [] OTHER -> {}

Remove(S) ==
    /\ \E kind \in Kinds :
          /\ \A r \in S : r.kind \in {kind} \cup TakenAlong(kind)
          /\ \A r, s \in S : r.kind = kind /\ s.kind = kind => r = s
    /\ rows' = rows \ S

(* A schedule takes the place of stored ones of the same bond. *)
Replace(S, new) ==
    /\ new.kind = "coupon"
    /\ \A old \in S : old.kind = "coupon" /\ old.refs = new.refs
    /\ rows' = (rows \ S) \cup {new}

CatalogueNext ==
    /\ \/ \E r \in rows' : Insert(r)
       \/ \E old \in rows, new \in rows' : Amend(old, new)
       \/ \E new \in rows' : Replace(rows \ rows', new)
       \/ Remove(rows \ rows')
    /\ ReferencesLive'
    /\ KeysUnique'

CatalogueSpec == CatalogueInit /\ [][CatalogueNext]_rows
=============================================================================
