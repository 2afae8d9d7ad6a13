------------------------------- MODULE Netting ------------------------------
(***************************************************************************)
(* The average-cost walk over a bond's transactions (_netting), one row at *)
(* a time.  The rows come ordered by date, not in the order in which the   *)
(* portfolio checked them, so the walk meets every kind of history: exits  *)
(* before the purchase that covers them, exits of more than is open.       *)
(* Amounts of money are fractions over one denominator, `over`; floating-  *)
(* point rounding is left out.                                             *)
(***************************************************************************)
EXTENDS Integers, FiniteSets

CONSTANTS
    RowQuantities, RowPrices,
    MaxRows        \* bound: rows of a history

ASSUME NettingAssumption ==
    RowQuantities \subseteq Nat \ {0} /\ RowPrices \subseteq Nat /\ MaxRows \in Nat

VARIABLES
    walk,       \* _NettingState, the locals of the loop
    seen        \* what the history said so far, to compare with

walkVars == <<walk, seen>>

Flat == [quantity |-> 0, open |-> 0, cost |-> 0, sells |-> 0, maturities |-> 0, over |-> 1]

(* `paid` and `received`: money for units bought, and for units closed;    *)
(* `prices`: of the purchases since the position was last flat.            *)
Nothing == [rows |-> 0, paid |-> 0, received |-> 0, prices |-> {}]

NettingInit == walk = Flat /\ seen = Nothing

-----------------------------------------------------------------------------
Buy(quantity, price) ==
    /\ walk' = [walk EXCEPT !.quantity = @ + quantity,
                            !.open = @ + quantity,
                            !.cost = @ + price * quantity * walk.over]
    /\ seen' = [seen EXCEPT !.rows = @ + 1,
                            !.paid = @ + price * quantity,
                            !.prices = @ \cup {price}]

(* A SELL or a MATURE with nothing open: it counts, but earns nothing. *)
ExitNothing(quantity) ==
    /\ walk.open <= 0
    /\ walk' = [walk EXCEPT !.quantity = @ - quantity]
    /\ seen' = [seen EXCEPT !.rows = @ + 1]

(* Fault: what is sold beyond the open quantity is valued, too. *)
ClosedInFull(quantity) == quantity

(* A close is clamped to the open quantity. *)
Closed(quantity) == IF quantity > walk.open THEN walk.open ELSE quantity

(* Fault: the exit takes its own proceeds out of the cost basis. *)
CostLeftAtPrice(closed, price) == walk.cost * walk.open - price * closed * walk.over * walk.open

(* cost_basis * (1 - closed / open), over the new denominator. *)
CostLeft(closed, price) == walk.cost * (walk.open - closed)

Exit(kind, quantity, price) ==
    LET closed == Closed(quantity)
        (* (price - cost_basis / open_quantity) * closed *)
        pnl == (price * walk.over * walk.open - walk.cost) * closed
        flat == walk.open = closed
        Earned(field, sum) == IF kind = field THEN sum * walk.open + pnl ELSE sum * walk.open
    IN
    /\ walk.open > 0
    /\ walk' = [quantity |-> walk.quantity - quantity,
                open |-> walk.open - closed,
                cost |-> IF flat THEN 0 ELSE CostLeft(closed, price),
                sells |-> Earned("SELL", walk.sells),
                maturities |-> Earned("MATURE", walk.maturities),
                over |-> walk.over * walk.open]
    /\ seen' = [seen EXCEPT !.rows = @ + 1,
                            !.received = @ + price * closed,
                            !.prices = IF flat THEN {} ELSE @]

NettingNext ==
    /\ seen.rows < MaxRows
    /\ \E quantity \in RowQuantities :
        \/ \E price \in RowPrices :
              Buy(quantity, price) \/ \E kind \in {"SELL", "MATURE"} : Exit(kind, quantity, price)
        \/ ExitNothing(quantity)

NettingSpec == NettingInit /\ [][NettingNext]_walkVars

-----------------------------------------------------------------------------
(* net_position, as _to_position and _build_position_analytics use it.     *)
HasAverage == walk.open > 0

(* What is held is never more than what is open: a position with a         *)
(* quantity always has an average cost, whatever the order of the rows,    *)
(* and the ValueError of _build_position_analytics is never raised.        *)
OpenCoversHeld ==
    /\ walk.open >= 0 /\ walk.quantity <= walk.open
    /\ walk.quantity > 0 => HasAverage

(* The average lies between the cheapest and the dearest purchase since    *)
(* the position was last flat: nothing older is blended in, and no exit    *)
(* shifts it out.                                                          *)
AverageFromOpenPurchases ==
    HasAverage =>
        LET units == walk.open * walk.over IN
        /\ \E p \in seen.prices : p * units <= walk.cost
        /\ \E p \in seen.prices : walk.cost <= p * units

(* Every unit of money is accounted for: what exits earned is what they    *)
(* brought in less what the units they closed had cost.                    *)
MoneyConserved ==
    walk.sells + walk.maturities = (seen.received - seen.paid) * walk.over + walk.cost
=============================================================================
