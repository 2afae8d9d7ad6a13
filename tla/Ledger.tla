------------------------------- MODULE Ledger -------------------------------
(***************************************************************************)
(* What the portfolio promises about the transactions table: it changes    *)
(* one transaction at a time, a transaction never passes to another user,  *)
(* and no step leaves a user holding a negative quantity of a bond on an   *)
(* account.                                                                *)
(***************************************************************************)
EXTENDS Integers, FiniteSets, FiniteSetsExt

CONSTANTS
    Users, Accounts, Bonds,
    OwnerOf,       \* account -> the user it belongs to
    Ids,           \* keys of the transactions table
    Types,         \* the transaction types in use
    Quantities

ASSUME LedgerAssumption ==
    /\ OwnerOf \in [Accounts -> Users]
    /\ Types \subseteq {"BUY", "SELL", "MATURE"}
    /\ Quantities \subseteq Nat \ {0}

Row == [id : Ids, bond : Bonds, account : Accounts, type : Types, quantity : Quantities]

(* _quantity_of: BUY counts up, SELL and MATURE count down. *)
Signed(r) == IF r.type = "BUY" THEN r.quantity ELSE -r.quantity
QuantityOf(S) == MapThenSumSet(Signed, S)

(* _load_transactions with a broker account, for one bond. *)
Pair(S, bond, account) == {r \in S : r.bond = bond /\ r.account = account}

NonNegativeIn(S) ==
    \A bond \in Bonds, account \in Accounts : QuantityOf(Pair(S, bond, account)) >= 0

VARIABLE transactions

LedgerInit == transactions = {}

Record(r) ==
    /\ \A s \in transactions : s.id # r.id
    /\ transactions' = transactions \cup {r}

Amend(old, new) ==
    /\ old \in transactions
    /\ new.id = old.id
    /\ OwnerOf[new.account] = OwnerOf[old.account]
    /\ transactions' = (transactions \ {old}) \cup {new}

Remove(r) ==
    /\ r \in transactions
    /\ transactions' = transactions \ {r}

LedgerNext ==
    /\ \/ \E r \in Row : Record(r)
       \/ \E old \in transactions, new \in Row : Amend(old, new)
       \/ \E r \in transactions : Remove(r)
    /\ NonNegativeIn(transactions')

LedgerSpec == LedgerInit /\ [][LedgerNext]_transactions
=============================================================================
