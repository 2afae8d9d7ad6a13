------------------------- MODULE Calculations_proofs ------------------------
(***************************************************************************)
(* Theorems about the average-cost walk (Netting), about the search for a  *)
(* yield (Solver) and about what a summary says of dates (Calendar).       *)
(***************************************************************************)
EXTENDS Netting, Solver, Calendar, FiniteSetTheorems, WellFoundedInduction, TLAPS

-----------------------------------------------------------------------------
(* Netting                                                                 *)

WalkTypes ==
    /\ walk \in [quantity : Int, open : Nat, cost : Nat, sells : Int, maturities : Int, over : Nat \ {0}]
    /\ seen \in [rows : Nat, paid : Int, received : Int, prices : SUBSET Nat]

(* A position that is closed has no cost, and no more is held than open. *)
WalkInv ==
    /\ WalkTypes
    /\ walk.open = 0 => walk.cost = 0
    /\ walk.quantity <= walk.open

(* A product grows with either factor. *)
LEMMA ProductGrows ==
    ASSUME NEW a \in Nat, NEW b \in Nat, NEW c \in Nat, a <= b
    PROVE  a * c <= b * c
  OBVIOUS

(* Products of naturals are naturals. *)
LEMMA ProductNat ==
    ASSUME NEW a \in Nat, NEW b \in Nat
    PROVE  a * b \in Nat
  OBVIOUS

(* What is closed is no more than what is open, nor than the exit's rows. *)
LEMMA ClosedBounds ==
    ASSUME WalkInv, walk.open > 0, NEW quantity \in Nat \ {0}
    PROVE  /\ Closed(quantity) \in Nat \ {0}
           /\ Closed(quantity) <= walk.open /\ Closed(quantity) <= quantity
           /\ walk.quantity - quantity <= walk.open - Closed(quantity)
  BY DEF WalkInv, WalkTypes, Closed

(* A row keeps the walk's types, and its two bounds. *)
LEMMA WalkStep ==
    ASSUME WalkInv, [NettingNext]_walkVars
    PROVE  WalkInv'
<1>1. ASSUME NEW quantity \in RowQuantities, NEW price \in RowPrices, Buy(quantity, price)
      PROVE  WalkInv'
  <2>1. quantity \in Nat \ {0} /\ price \in Nat
    BY NettingAssumption
  <2>2. price * quantity \in Nat
    BY <2>1, ProductNat
  <2>3. (price * quantity) * walk.over \in Nat
    BY <2>2, ProductNat DEF WalkInv, WalkTypes
  <2> DEFINE spent == price * quantity
             cost == spent * walk.over
  <2>4. walk' = [quantity |-> walk.quantity + quantity, open |-> walk.open + quantity,
                 cost |-> walk.cost + cost, sells |-> walk.sells,
                 maturities |-> walk.maturities, over |-> walk.over]
    BY <1>1 DEF Buy, WalkInv, WalkTypes
  <2>5. seen' = [rows |-> seen.rows + 1, paid |-> seen.paid + spent,
                 received |-> seen.received, prices |-> seen.prices \cup {price}]
    BY <1>1 DEF Buy, WalkInv, WalkTypes
  <2> HIDE DEF spent, cost
  <2>6. walk' \in [quantity : Int, open : Nat, cost : Nat, sells : Int, maturities : Int, over : Nat \ {0}]
    BY <2>1, <2>3, <2>4 DEF WalkInv, WalkTypes, cost, spent
  <2>7. seen.prices \cup {price} \in SUBSET Nat
    BY <2>1 DEF WalkInv, WalkTypes
  <2>9. seen' \in [rows : Nat, paid : Int, received : Int, prices : SUBSET Nat]
    BY <2>2, <2>5, <2>7 DEF WalkInv, WalkTypes, spent
  <2>8. walk'.open # 0 /\ walk'.quantity <= walk'.open
    BY <2>1, <2>4 DEF WalkInv, WalkTypes
  <2> QED
    BY <2>6, <2>9, <2>8 DEF WalkInv, WalkTypes
<1>2. ASSUME NEW kind \in {"SELL", "MATURE"}, NEW quantity \in RowQuantities,
             NEW price \in RowPrices, Exit(kind, quantity, price)
      PROVE  WalkInv'
  <2> DEFINE closed == Closed(quantity)
             pnl == (price * walk.over * walk.open - walk.cost) * closed
  <2>1. quantity \in Nat \ {0} /\ price \in Nat
    BY NettingAssumption
  <2>2. walk.open > 0
    BY <1>2 DEF Exit
  <2>3. /\ closed \in Nat \ {0} /\ closed <= walk.open /\ closed <= quantity
        /\ walk.quantity - quantity <= walk.open - closed
    BY <2>1, <2>2, ClosedBounds
  <2>4. walk.open - closed \in Nat /\ walk.open \in Nat \ {0} /\ walk.over \in Nat \ {0}
        /\ walk.cost \in Nat /\ walk.sells \in Int /\ walk.maturities \in Int /\ walk.quantity \in Int
    BY <2>2, <2>3 DEF WalkInv, WalkTypes
  <2>5. CostLeft(closed, price) \in Nat
    BY <2>4, ProductNat DEF CostLeft
  <2>6. walk.over * walk.open \in Nat \ {0}
    <3>1. 1 * walk.over <= walk.open * walk.over
      BY <2>4, ProductGrows
    <3>2. walk.over * walk.open = walk.open * walk.over /\ 1 * walk.over = walk.over
      BY <2>4
    <3>3. walk.over * walk.open \in Nat
      BY <2>4, ProductNat
    <3> QED
      BY <3>1, <3>2, <3>3, <2>4
  <2>7. price * closed \in Nat /\ pnl \in Int
    <3>1. price * walk.over \in Nat
      BY <2>1, <2>4, ProductNat
    <3>2. price * walk.over * walk.open \in Nat
      BY <3>1, <2>4, ProductNat
    <3> QED
      BY <2>1, <2>3, <2>4, <3>2, ProductNat
  <2>8. walk.sells * walk.open \in Int /\ walk.maturities * walk.open \in Int
    BY <2>4
  <2>9. seen' = [rows |-> seen.rows + 1, paid |-> seen.paid,
                 received |-> seen.received + price * closed,
                 prices |-> IF walk.open = closed THEN {} ELSE seen.prices]
    BY <1>2 DEF Exit, WalkInv, WalkTypes
  <2>14. (IF walk.open = closed THEN {} ELSE seen.prices) \in SUBSET Nat
    BY DEF WalkInv, WalkTypes
  <2>10. seen' \in [rows : Nat, paid : Int, received : Int, prices : SUBSET Nat]
    BY <2>7, <2>9, <2>14 DEF WalkInv, WalkTypes
  <2>11. walk' = [quantity |-> walk.quantity - quantity,
                open |-> walk.open - closed,
                cost |-> IF walk.open = closed THEN 0 ELSE CostLeft(closed, price),
                sells |-> IF kind = "SELL" THEN walk.sells * walk.open + pnl ELSE walk.sells * walk.open,
                maturities |-> IF kind = "MATURE" THEN walk.maturities * walk.open + pnl ELSE walk.maturities * walk.open,
                over |-> walk.over * walk.open]
    BY <1>2 DEF Exit
  <2> HIDE DEF closed, pnl
  <2>12. walk' \in [quantity : Int, open : Nat, cost : Nat, sells : Int, maturities : Int, over : Nat \ {0}]
    BY <2>1, <2>4, <2>5, <2>6, <2>7, <2>8, <2>11
  <2>13. (walk'.open = 0 => walk'.cost = 0) /\ walk'.quantity <= walk'.open
    BY <2>3, <2>4, <2>11
  <2> QED
    BY <2>10, <2>12, <2>13 DEF WalkInv, WalkTypes
<1>3. ASSUME NEW quantity \in RowQuantities, ExitNothing(quantity)
      PROVE  WalkInv'
  <2>1. quantity \in Nat \ {0}
    BY NettingAssumption
  <2> QED
    BY <1>3, <2>1 DEF WalkInv, WalkTypes, ExitNothing
<1>4. CASE UNCHANGED walkVars
  BY <1>4 DEF WalkInv, WalkTypes, walkVars
<1> QED
  BY <1>1, <1>2, <1>3, <1>4 DEF NettingNext

(* The walk starts within its bounds. *)
LEMMA WalkStart ==
    ASSUME NettingInit
    PROVE  WalkInv
  BY DEF NettingInit, Flat, Nothing, WalkInv, WalkTypes

(* Every history keeps the walk within its bounds. *)
LEMMA WalkAlways == NettingSpec => []WalkInv
<1>1. NettingInit => WalkInv
  BY WalkStart
<1>2. WalkInv /\ [NettingNext]_walkVars => WalkInv'
  BY WalkStep
<1> QED
  BY <1>1, <1>2, PTL DEF NettingSpec

(* Whatever the order of the rows, a position with a quantity has units    *)
(* open, so net_position never divides by zero and the ValueError of       *)
(* _build_position_analytics is never raised.                              *)
THEOREM HeldHasAverage == NettingSpec => []OpenCoversHeld
<1>1. WalkInv => OpenCoversHeld
  BY DEF WalkInv, WalkTypes, OpenCoversHeld, HasAverage
<1> QED
  BY <1>1, WalkAlways, PTL

(* A purchase's price, or the bound there was, bounds the new average:     *)
(* `units` bought before at a cost of at least p each, `more` at `price`.  *)
LEMMA CheapestBounds ==
    ASSUME NEW units \in Nat, NEW more \in Nat, NEW cost \in Nat,
           NEW p \in Nat, NEW price \in Nat, p * units <= cost
    PROVE  \/ p * (units + more) <= cost + price * more
           \/ price * (units + more) <= cost + price * more
<1>1. /\ p * (units + more) = p * units + p * more
      /\ price * (units + more) = price * units + price * more
  OBVIOUS
<1>2. /\ p * units \in Int /\ p * more \in Int
      /\ price * units \in Int /\ price * more \in Int
  OBVIOUS
<1>3. CASE p <= price
  BY <1>1, <1>2, <1>3, ProductGrows
<1>4. CASE price <= p
  BY <1>1, <1>2, <1>4, ProductGrows
<1> QED
  BY <1>3, <1>4

(* The same from above. *)
LEMMA DearestBounds ==
    ASSUME NEW units \in Nat, NEW more \in Nat, NEW cost \in Nat,
           NEW p \in Nat, NEW price \in Nat, cost <= p * units
    PROVE  \/ cost + price * more <= p * (units + more)
           \/ cost + price * more <= price * (units + more)
<1>1. /\ p * (units + more) = p * units + p * more
      /\ price * (units + more) = price * units + price * more
  OBVIOUS
<1>2. /\ p * units \in Int /\ p * more \in Int
      /\ price * units \in Int /\ price * more \in Int
  OBVIOUS
<1>3. CASE p <= price
  BY <1>1, <1>2, <1>3, ProductGrows
<1>4. CASE price <= p
  BY <1>1, <1>2, <1>4, ProductGrows
<1> QED
  BY <1>3, <1>4

(* A row keeps the average between the purchases' prices. *)
LEMMA AverageStep ==
    ASSUME WalkInv, AverageFromOpenPurchases, [NettingNext]_walkVars
    PROVE  AverageFromOpenPurchases'
<1> DEFINE units == walk.open * walk.over
<1>0. /\ walk.open \in Nat /\ walk.over \in Nat \ {0} /\ walk.cost \in Nat /\ seen.prices \subseteq Nat
      /\ units \in Nat
  BY ProductNat DEF WalkInv, WalkTypes
<1>1. ASSUME NEW quantity \in RowQuantities, NEW price \in RowPrices, Buy(quantity, price)
      PROVE  AverageFromOpenPurchases'
  <2> DEFINE more == quantity * walk.over
  <2>1. quantity \in Nat \ {0} /\ price \in Nat /\ more \in Nat
    BY <1>0, NettingAssumption, ProductNat
  <2>2. /\ walk'.open = walk.open + quantity /\ walk'.over = walk.over
        /\ walk'.cost = walk.cost + (price * quantity) * walk.over
        /\ seen'.prices = seen.prices \cup {price}
    BY <1>1 DEF Buy, WalkInv, WalkTypes
  <2>3. walk'.cost = walk.cost + price * more
    BY <1>0, <2>1, <2>2
  <2>4. walk'.open * walk'.over = units + more
    BY <1>0, <2>1, <2>2
  <2> HIDE DEF units, more
  <2>5. \E p \in seen.prices \cup {price} : p * (units + more) <= walk.cost + price * more
    <3>1. CASE walk.open = 0
      <4>1. units = 0 /\ walk.cost = 0
        BY <1>0, <3>1 DEF units, WalkInv
      <4>2. price * (units + more) = walk.cost + price * more /\ price * more \in Int
        BY <4>1, <2>1, ProductNat
      <4>3. price * (units + more) <= walk.cost + price * more
        BY <4>2, <1>0
      <4> QED
        BY <4>3
    <3>2. CASE walk.open > 0
      <4>1. PICK p \in seen.prices : p * units <= walk.cost
        BY <3>2 DEF AverageFromOpenPurchases, HasAverage, units
      <4>2. \/ p * (units + more) <= walk.cost + price * more
            \/ price * (units + more) <= walk.cost + price * more
        BY <4>1, <2>1, <1>0, CheapestBounds
      <4> QED
        BY <4>2
    <3> QED
      BY <3>1, <3>2, <1>0
  <2>6. \E p \in seen.prices \cup {price} : walk.cost + price * more <= p * (units + more)
    <3>1. CASE walk.open = 0
      <4>1. units = 0 /\ walk.cost = 0
        BY <1>0, <3>1 DEF units, WalkInv
      <4>2. price * (units + more) = walk.cost + price * more /\ price * more \in Int
        BY <4>1, <2>1, ProductNat
      <4>3. walk.cost + price * more <= price * (units + more)
        BY <4>2, <1>0
      <4> QED
        BY <4>3
    <3>2. CASE walk.open > 0
      <4>1. PICK p \in seen.prices : walk.cost <= p * units
        BY <3>2 DEF AverageFromOpenPurchases, HasAverage, units
      <4>2. \/ walk.cost + price * more <= p * (units + more)
            \/ walk.cost + price * more <= price * (units + more)
        BY <4>1, <2>1, <1>0, DearestBounds
      <4> QED
        BY <4>2
    <3> QED
      BY <3>1, <3>2, <1>0
  <2> QED
    BY <2>2, <2>3, <2>4, <2>5, <2>6 DEF AverageFromOpenPurchases
<1>2. ASSUME NEW kind \in {"SELL", "MATURE"}, NEW quantity \in RowQuantities,
             NEW price \in RowPrices, Exit(kind, quantity, price)
      PROVE  AverageFromOpenPurchases'
  <2> DEFINE closed == Closed(quantity)
             left == walk.open - closed
  <2>1. quantity \in Nat \ {0} /\ walk.open > 0
    BY <1>2, NettingAssumption DEF Exit
  <2>2. closed \in Nat \ {0} /\ closed <= walk.open
    BY <2>1, ClosedBounds
  <2>3. /\ walk'.open = left /\ walk'.over = walk.over * walk.open
        /\ walk'.cost = IF walk.open = closed THEN 0 ELSE walk.cost * left
        /\ seen'.prices = IF walk.open = closed THEN {} ELSE seen.prices
    BY <1>2 DEF Exit, CostLeft, WalkInv, WalkTypes
  <2> HIDE DEF closed
  <2>4. left \in Nat /\ (left > 0 => walk.open # closed)
    BY <2>2, <1>0
  <2> HIDE DEF left
  <2>5. walk'.open * walk'.over = units * left
    BY <1>0, <2>3, <2>4
  <2>6. ASSUME left > 0
        PROVE  \E p \in seen.prices : p * (units * left) <= walk.cost * left
    <3>1. PICK p \in seen.prices : p * units <= walk.cost
      BY <2>1 DEF AverageFromOpenPurchases, HasAverage
    <3>2. p \in Nat /\ p * units \in Nat
      BY <1>0, ProductNat
    <3>3. (p * units) * left <= walk.cost * left
      BY <1>0, <2>4, <3>1, <3>2, ProductGrows
    <3> HIDE DEF units
    <3>4. (p * units) * left = p * (units * left)
      BY <1>0, <2>4, <3>2
    <3> QED
      BY <3>3, <3>4
  <2>7. ASSUME left > 0
        PROVE  \E p \in seen.prices : walk.cost * left <= p * (units * left)
    <3>1. PICK p \in seen.prices : walk.cost <= p * units
      BY <2>1 DEF AverageFromOpenPurchases, HasAverage
    <3>2. p \in Nat /\ p * units \in Nat
      BY <1>0, ProductNat
    <3>3. walk.cost * left <= (p * units) * left
      BY <1>0, <2>4, <3>1, <3>2, ProductGrows
    <3> HIDE DEF units
    <3>4. (p * units) * left = p * (units * left)
      BY <1>0, <2>4, <3>2
    <3> QED
      BY <3>3, <3>4
  <2> HIDE DEF units
  <2> QED
    BY <2>3, <2>4, <2>5, <2>6, <2>7 DEF AverageFromOpenPurchases, HasAverage
<1>3. ASSUME NEW quantity \in RowQuantities, ExitNothing(quantity)
      PROVE  AverageFromOpenPurchases'
  <2>1. walk'.open = walk.open /\ walk'.open <= 0
    BY <1>3, <1>0 DEF ExitNothing, WalkInv, WalkTypes
  <2> QED
    BY <2>1, <1>0 DEF AverageFromOpenPurchases, HasAverage
<1>4. CASE UNCHANGED walkVars
  BY <1>4 DEF AverageFromOpenPurchases, HasAverage, walkVars
<1> QED
  BY <1>1, <1>2, <1>3, <1>4 DEF NettingNext

(* The average cost of what is open is never below the cheapest nor above  *)
(* the dearest purchase since the position was last flat: no exit shifts   *)
(* it, and nothing closed earlier is blended in.                           *)
THEOREM AverageIsOfOpenPurchases == NettingSpec => []AverageFromOpenPurchases
<1>1. NettingInit => AverageFromOpenPurchases
  BY DEF NettingInit, Flat, Nothing, AverageFromOpenPurchases, HasAverage
<1>2. WalkInv /\ AverageFromOpenPurchases /\ [NettingNext]_walkVars => AverageFromOpenPurchases'
  BY AverageStep
<1> QED
  BY <1>1, <1>2, WalkAlways, PTL DEF NettingSpec

(* The money an exit moves, over the new denominator. *)
LEMMA MoneyMoves ==
    ASSUME NEW earned \in Int, NEW net \in Int, NEW over \in Int, NEW cost \in Int,
           NEW open \in Int, NEW closed \in Int, NEW price \in Int,
           earned = net * over + cost
    PROVE  earned * open + (price * over * open - cost) * closed
             = (net + price * closed) * (over * open) + cost * (open - closed)
  BY SMT

(* A row keeps the books balanced. *)
LEMMA MoneyStep ==
    ASSUME WalkInv, MoneyConserved, [NettingNext]_walkVars
    PROVE  MoneyConserved'
<1>0. /\ walk.open \in Nat /\ walk.over \in Nat \ {0} /\ walk.cost \in Nat
      /\ walk.sells \in Int /\ walk.maturities \in Int
      /\ seen.paid \in Int /\ seen.received \in Int
  BY DEF WalkInv, WalkTypes
<1>1. ASSUME NEW quantity \in RowQuantities, NEW price \in RowPrices, Buy(quantity, price)
      PROVE  MoneyConserved'
  <2> DEFINE spent == price * quantity
  <2>1. spent \in Int
    BY NettingAssumption
  <2>2. /\ walk'.over = walk.over /\ walk'.cost = walk.cost + spent * walk.over
        /\ walk'.sells = walk.sells /\ walk'.maturities = walk.maturities
        /\ seen'.paid = seen.paid + spent /\ seen'.received = seen.received
    BY <1>1 DEF Buy, WalkInv, WalkTypes
  <2> HIDE DEF spent
  <2>3. (seen.received - (seen.paid + spent)) * walk.over + (walk.cost + spent * walk.over)
          = (seen.received - seen.paid) * walk.over + walk.cost
    BY <1>0, <2>1
  <2> QED
    BY <2>2, <2>3 DEF MoneyConserved
<1>2. ASSUME NEW kind \in {"SELL", "MATURE"}, NEW quantity \in RowQuantities,
             NEW price \in RowPrices, Exit(kind, quantity, price)
      PROVE  MoneyConserved'
  <2> DEFINE closed == Closed(quantity)
             pnl == (price * walk.over * walk.open - walk.cost) * closed
             net == seen.received - seen.paid
             earned == walk.sells + walk.maturities
  <2>1. quantity \in Nat \ {0} /\ walk.open > 0 /\ price \in Nat
    BY <1>2, NettingAssumption DEF Exit
  <2>2. closed \in Nat \ {0}
    BY <2>1, ClosedBounds
  <2>3. /\ walk'.over = walk.over * walk.open
        /\ walk'.cost = IF walk.open = closed THEN 0 ELSE walk.cost * (walk.open - closed)
        /\ walk'.sells = IF kind = "SELL" THEN walk.sells * walk.open + pnl ELSE walk.sells * walk.open
        /\ walk'.maturities = IF kind = "MATURE" THEN walk.maturities * walk.open + pnl
                                                 ELSE walk.maturities * walk.open
        /\ seen'.received = seen.received + price * closed /\ seen'.paid = seen.paid
    BY <1>2 DEF Exit, CostLeft, WalkInv, WalkTypes
  <2> HIDE DEF closed
  <2>4. walk'.cost = walk.cost * (walk.open - closed)
    BY <1>0, <2>2, <2>3
  <2>5. net \in Int /\ earned \in Int /\ earned = net * walk.over + walk.cost
    BY <1>0 DEF MoneyConserved
  <2>6. earned * walk.open + pnl
          = (net + price * closed) * (walk.over * walk.open) + walk.cost * (walk.open - closed)
    BY <1>0, <2>1, <2>2, <2>5, MoneyMoves
  <2>7. earned * walk.open = walk.sells * walk.open + walk.maturities * walk.open
    BY <1>0
  <2>8. pnl \in Int /\ walk.sells * walk.open \in Int /\ walk.maturities * walk.open \in Int
    BY <1>0, <2>1, <2>2
  <2>9. walk'.sells + walk'.maturities = earned * walk.open + pnl
    <3> HIDE DEF pnl, earned
    <3> QED
      BY <2>3, <2>7, <2>8
  <2>10. seen'.received - seen'.paid = net + price * closed
    BY <1>0, <2>1, <2>2, <2>3
  <2> HIDE DEF pnl, earned, net
  <2> QED
    BY <2>3, <2>4, <2>6, <2>9, <2>10 DEF MoneyConserved
<1>3. ASSUME NEW quantity \in RowQuantities, ExitNothing(quantity)
      PROVE  MoneyConserved'
  BY <1>3 DEF ExitNothing, MoneyConserved, WalkInv, WalkTypes
<1>4. CASE UNCHANGED walkVars
  BY <1>4 DEF MoneyConserved, walkVars
<1> QED
  BY <1>1, <1>2, <1>3, <1>4 DEF NettingNext

(* Realised profits are exact: what the exits earned, by sale and by       *)
(* maturity, is what they brought in, less what all the purchases cost,    *)
(* plus the cost of what is still open.                                    *)
THEOREM ProfitsBalance == NettingSpec => []MoneyConserved
<1>1. NettingInit => MoneyConserved
  BY DEF NettingInit, Flat, Nothing, MoneyConserved
<1>2. WalkInv /\ MoneyConserved /\ [NettingNext]_walkVars => MoneyConserved'
  BY MoneyStep
<1> QED
  BY <1>1, <1>2, WalkAlways, PTL DEF NettingSpec

-----------------------------------------------------------------------------
(* Solver                                                                  *)

Phases == {"called", "newton", "bracket", "bisect", "rate", "closed form", "None",
           "YtmCalculationError", "raised"}

SolveTypes ==
    solve \in [f : [Rates -> Levels], undefined : SUBSET Rates, request : Requests,
               phase : Phases, r : Rates, low : Rates, high : Rates, fLow : Levels,
               iterations : Nat]

(* Until the bisection starts its bracket is the whole of it, and the      *)
(* price falls as the rate rises unless a long period spoils it.           *)
SolveInv ==
    /\ SolveTypes
    /\ solve.phase \in {"called", "newton", "bracket"} => solve.low = 0 /\ solve.high = Width
    /\ ~Long(solve.request) =>
          \A r, s \in Rates : r <= s => solve.f[r] >= solve.f[s]
    /\ solve.undefined \subseteq Undefined(solve.request)
    /\ BracketHoldsRoot
    /\ ResultIsRoot
    /\ NoneMeansNoRoot
    /\ OrdinaryRequestsAnswered

(* Signs of a product of two levels. *)
LEMMA Signs ==
    ASSUME NEW a \in Levels, NEW b \in Levels
    PROVE  /\ a * b > 0 => (a > 0 /\ b > 0) \/ (a < 0 /\ b < 0)
           /\ a > 0 /\ b > 0 => a * b > 0
           /\ a < 0 /\ b < 0 => a * b > 0
           /\ a > 0 => (a * b < 0 <=> b < 0)
<1>1. a \in {-2, -1, 0, 1, 2} /\ b \in {-2, -1, 0, 1, 2}
  BY DEF Levels
<1>2. CASE a \in {-2, -1}
  BY <1>1, <1>2
<1>3. CASE a = 0
  BY <1>1, <1>3
<1>4. CASE a \in {1, 2}
  BY <1>1, <1>4
<1> QED
  BY <1>1, <1>2, <1>3, <1>4

(* The middle of a bracket that has an inside. *)
LEMMA Middle ==
    ASSUME NEW low \in Rates, NEW high \in Rates
    PROVE  /\ (low + high) \div 2 \in Rates
           /\ low < high => low <= (low + high) \div 2 /\ (low + high) \div 2 < high
           /\ low < high /\ high - low < 2 => (low + high) \div 2 = low /\ high = low + 1
<1>1. Width \in Nat
  BY SolverAssumption
<1> QED
  BY <1>1 DEF Rates

(* The ends of the bracket are points of the grid. *)
LEMMA Ends ==
    /\ Width \in Nat \ {0} /\ 0 \in Rates /\ Width \in Rates
    /\ 0..NewtonMax \subseteq Rates /\ NewtonMax \in Nat
    /\ \A r \in Rates : r \in Int /\ 0 <= r /\ r <= Width
  BY SolverAssumption DEF Rates

(* What the cash flows of a request are worth, and where that is no number. *)
LEMMA PricingValues ==
    ASSUME NEW request \in Requests, NEW f \in Pricing(request),
           NEW undefined \in SUBSET Undefined(request)
    PROVE  /\ f \in [Rates -> Levels] /\ undefined \in SUBSET Rates
           /\ ~Long(request) => \A r, s \in Rates : r <= s => f[r] >= f[s]
<1>1. Undefined(request) \subseteq Rates
  BY SolverAssumption DEF Undefined, Rates
<1>2. ~Long(request) => \A r, s \in Rates : r <= s => f[r] >= f[s]
  BY DEF Pricing, Rates
<1> QED
  BY <1>1, <1>2 DEF Pricing

(* A step to a phase that only reports. *)
LEMMA EndedStep ==
    ASSUME SolveInv, NEW how \in {"bracket", "closed form", "YtmCalculationError"},
           Ended(how), how = "bracket" => solve.phase = "newton"
    PROVE  SolveInv'
  BY DEF Ended, SolveInv, SolveTypes, Phases, BracketHoldsRoot, ResultIsRoot,
         NoneMeansNoRoot, OrdinaryRequestsAnswered, Mistaken

(* An exception that is not YtmCalculationError, for a request that may    *)
(* meet one.                                                               *)
LEMMA RaisedStep ==
    ASSUME SolveInv, Ended("raised"),
           \/ solve.request.period = 0 /\ solve.request.schedule = "rows"
           \/ Long(solve.request) \/ Distant(solve.request)
           \/ ZeroCoupon(solve.request) /\ solve.request.price < solve.request.nominal
    PROVE  SolveInv'
<1>1. solve' = [solve EXCEPT !.phase = "raised"]
  BY DEF Ended
<1>2. solve'.request = solve.request /\ solve'.phase = "raised" /\ solve'.f = solve.f
  BY <1>1 DEF SolveInv, SolveTypes
<1>3. OrdinaryRequestsAnswered'
  BY <1>2 DEF OrdinaryRequestsAnswered
<1> QED
  BY <1>1, <1>2, <1>3 DEF SolveInv, SolveTypes, Phases, BracketHoldsRoot, ResultIsRoot,
                          NoneMeansNoRoot, Mistaken

(* Only long periods and distant maturities are worth no number somewhere. *)
LEMMA UndefinedOnly ==
    ASSUME SolveInv, solve.undefined # {}
    PROVE  Long(solve.request) \/ Distant(solve.request)
  BY DEF SolveInv, Undefined

(* Validation divides by nothing it has not looked at, but for a period of *)
(* zero with a schedule that keeps the closed form away.                   *)
LEMMA ValidateStep ==
    ASSUME SolveInv, Validate
    PROVE  SolveInv'
<1> DEFINE request == solve.request
<1>1. /\ request \in Requests
      /\ request.period \in -1..2 /\ request.rate \in -1..1 /\ request.price \in Int
      /\ request.nominal \in Int /\ request.days \in 0..2
      /\ request.schedule \in {"none", "empty", "rows"}
  BY SolverAssumption DEF SolveInv, SolveTypes, Requests
<1>2. ASSUME ~Invalid(request)
      PROVE  request.days # 0 /\ request.price # 0
  BY <1>1, <1>2 DEF Invalid
<1>3. ASSUME ~ZeroCoupon(request), request.period = 0
      PROVE  request.schedule = "rows"
  BY <1>3 DEF ZeroCoupon
<1>4. ASSUME NEW f \in Pricing(request), NEW undefined \in SUBSET Undefined(request),
             NEW guess \in 0..NewtonMax, solve.phase = "called",
             solve' = [solve EXCEPT !.phase = "newton", !.f = f,
                                    !.undefined = undefined, !.r = guess]
      PROVE  SolveInv'
  <2>1. /\ f \in [Rates -> Levels] /\ undefined \in SUBSET Rates
        /\ ~Long(request) => \A r, s \in Rates : r <= s => f[r] >= f[s]
    BY <1>1, PricingValues
  <2>2. guess \in Rates
    BY Ends
  <2>3. SolveTypes'
    BY <1>4, <2>1, <2>2 DEF SolveInv, SolveTypes, Phases
  <2>4. /\ solve'.phase = "newton" /\ solve'.low = solve.low /\ solve'.high = solve.high
        /\ solve'.f = f /\ solve'.request = solve.request /\ solve'.undefined = undefined
    BY <1>4 DEF SolveInv, SolveTypes
  <2>5. solve'.low = 0 /\ solve'.high = Width
    BY <1>4, <2>4 DEF SolveInv
  <2>6. /\ ~Long(solve'.request) => \A r, s \in Rates : r <= s => solve'.f[r] >= solve'.f[s]
        /\ solve'.undefined \subseteq Undefined(solve'.request)
    BY <2>1, <2>4
  <2> QED
    BY <2>3, <2>4, <2>5, <2>6
    DEF SolveInv, BracketHoldsRoot, ResultIsRoot, NoneMeansNoRoot, OrdinaryRequestsAnswered
<1>5. solve.phase = "called"
  BY DEF Validate
<1> HIDE DEF SolveInv
<1>6. CASE Invalid(request)
  BY <1>6, EndedStep DEF Validate
<1>7. CASE ~Invalid(request) /\ ZeroCoupon(request)
  BY <1>2, <1>7, EndedStep, RaisedStep DEF Validate
<1>8. CASE ~Invalid(request) /\ ~ZeroCoupon(request) /\ request.period = 0
  BY <1>3, <1>8, RaisedStep DEF Validate
<1>9. CASE ~Invalid(request) /\ ~ZeroCoupon(request) /\ request.period # 0
  BY <1>2, <1>4, <1>5, <1>9 DEF Validate
<1> QED
  BY <1>6, <1>7, <1>8, <1>9

(* Newton's iterations stay in range and end at a rate only when it prices *)
(* the bond within the tolerance.                                          *)
LEMMA NewtonStep ==
    ASSUME SolveInv, Newton
    PROVE  SolveInv'
<1>1. CASE Found(solve.r) /\ Tolerated(solve.f[solve.r])
  BY <1>1 DEF Found, SolveInv, SolveTypes, Phases, BracketHoldsRoot, ResultIsRoot,
              NoneMeansNoRoot, OrdinaryRequestsAnswered, Mistaken
<1>2. ASSUME NEW next \in 0..NewtonMax, solve.phase = "newton",
             solve' = [solve EXCEPT !.r = next, !.iterations = @ + 1]
      PROVE  SolveInv'
  <2>1. next \in Rates /\ solve.iterations + 1 \in Nat
    BY Ends DEF SolveInv, SolveTypes
  <2>2. SolveTypes'
    BY <1>2, <2>1 DEF SolveInv, SolveTypes
  <2>3. /\ solve'.phase = "newton" /\ solve'.low = solve.low /\ solve'.high = solve.high
        /\ solve'.f = solve.f /\ solve'.request = solve.request
        /\ solve'.undefined = solve.undefined
    BY <1>2 DEF SolveInv, SolveTypes
  <2> QED
    BY <1>2, <2>2, <2>3 DEF SolveInv, SolveTypes, Phases, BracketHoldsRoot, ResultIsRoot,
                      NoneMeansNoRoot, OrdinaryRequestsAnswered, Mistaken
<1> HIDE DEF SolveInv
<1>3. solve.r \in solve.undefined /\ Ended("raised") => SolveInv'
  BY UndefinedOnly, RaisedStep
<1>4. Ended("bracket") /\ solve.phase = "newton" => SolveInv'
  BY EndedStep
<1> QED
  BY <1>1, <1>2, <1>3, <1>4 DEF Newton

(* The bisection starts with the root inside, or there is none. *)
LEMMA BracketStep ==
    ASSUME SolveInv, Bracket
    PROVE  SolveInv'
<1> DEFINE f == solve.f
           falls == ~Long(solve.request)
<1>1. /\ f \in [Rates -> Levels] /\ solve.phase = "bracket"
      /\ solve.low = 0 /\ solve.high = Width
      /\ falls => \A r, s \in Rates : r <= s => f[r] >= f[s]
  BY DEF SolveInv, SolveTypes, Bracket
<1>2. f[0] \in Levels /\ f[Width] \in Levels /\ (falls => f[0] >= f[Width])
  BY <1>1, Ends
<1>3. CASE Ended("raised") /\ solve.undefined # {}
  BY <1>3, UndefinedOnly, RaisedStep
<1>4. CASE f[0] * f[Width] > 0 /\ solve' = [solve EXCEPT !.phase = "None"]
  <2>1. falls => \A r \in Rates : f[r] # 0
    <3> SUFFICES ASSUME falls, NEW r \in Rates
                 PROVE  f[r] # 0
      OBVIOUS
    <3>1. f[0] >= f[r] /\ f[r] >= f[Width] /\ f[r] \in Levels
      BY <1>1, Ends
    <3>2. (f[0] > 0 /\ f[Width] > 0) \/ (f[0] < 0 /\ f[Width] < 0)
      BY <1>2, <1>4, Signs
    <3> HIDE DEF f
    <3> QED
      BY <3>1, <3>2, <1>2 DEF Levels
  <2>2. NoneMeansNoRoot'
    BY <2>1, <1>4 DEF SolveInv, SolveTypes, NoneMeansNoRoot
  <2> QED
    BY <1>4, <2>2 DEF SolveInv, SolveTypes, Phases, BracketHoldsRoot, ResultIsRoot,
                      OrdinaryRequestsAnswered, Mistaken
<1>5. CASE ~(f[0] * f[Width] > 0) /\ solve' = [solve EXCEPT !.phase = "bisect", !.fLow = f[0]]
  <2>1. f[0] # 0 /\ falls => f[0] > 0 /\ f[Width] <= 0
    <3> HIDE DEF f, falls
    <3>1. ~(f[0] > 0 /\ f[Width] > 0) /\ ~(f[0] < 0 /\ f[Width] < 0)
      BY <1>2, <1>5, Signs
    <3> QED
      BY <1>2, <3>1 DEF Levels
  <2>2. BracketHoldsRoot'
    BY <1>1, <1>5, <2>1, Ends DEF SolveInv, SolveTypes, BracketHoldsRoot, Mistaken
  <2> QED
    BY <1>2, <1>5, <2>2 DEF SolveInv, SolveTypes, Phases, ResultIsRoot, NoneMeansNoRoot,
                            OrdinaryRequestsAnswered, Mistaken
<1> QED
  BY <1>3, <1>4, <1>5 DEF Bracket, NoSignChange, Ended

(* The half that is kept holds the root. *)
LEMMA BisectStep ==
    ASSUME SolveInv, Bisect
    PROVE  SolveInv'
<1> DEFINE f == solve.f
           mid == (solve.low + solve.high) \div 2
           narrow == solve.high - solve.low < 2
<1>1. /\ f \in [Rates -> Levels] /\ solve.low \in Rates /\ solve.high \in Rates /\ solve.fLow \in Levels
      /\ solve.phase = "bisect"
  BY DEF SolveInv, SolveTypes, Bisect
<1>2. /\ mid \in Rates
      /\ solve.low < solve.high => solve.low <= mid /\ mid < solve.high
      /\ solve.low < solve.high /\ narrow => mid = solve.low /\ solve.high = solve.low + 1
  BY <1>1, Middle
<1>3. f[mid] \in Levels /\ f[solve.low] \in Levels /\ f[solve.high] \in Levels
  BY <1>1, <1>2
<1>0. CASE mid \in solve.undefined
  <2>1. Ended("raised")
    BY <1>0 DEF Bisect
  <2> QED
    BY <1>0, <2>1, UndefinedOnly, RaisedStep
<1>4. CASE mid \notin solve.undefined /\ (Tolerated(f[mid]) \/ narrow)
  <2>1. solve' = [solve EXCEPT !.phase = "rate", !.r = mid]
    BY <1>4 DEF Bisect, Found
  <2>2. ResultIsRoot'
    <3> SUFFICES ASSUME ~Mistaken, ~Tolerated(f[mid])
                 PROVE  mid < Width /\ f[mid] > 0 /\ f[mid + 1] <= 0
      BY <1>1, <2>1 DEF ResultIsRoot, Mistaken, SolveInv, SolveTypes
    <3>1. f[solve.low] > 0 /\ f[solve.high] <= 0 /\ solve.low < solve.high
      BY <1>1 DEF SolveInv, BracketHoldsRoot
    <3>2. mid = solve.low /\ solve.high = mid + 1
      BY <1>2, <1>4, <3>1
    <3> HIDE DEF f, mid
    <3>4. mid \in Int /\ Width \in Int /\ solve.high <= Width
      BY <1>1, <1>2, Ends
    <3>3. mid < Width
      BY <3>2, <3>4
    <3> QED
      BY <3>1, <3>2, <3>3
  <2> QED
    BY <1>2, <2>1, <2>2 DEF SolveInv, SolveTypes, Phases, BracketHoldsRoot, NoneMeansNoRoot,
                            OrdinaryRequestsAnswered, Mistaken
<1>5. CASE mid \notin solve.undefined /\ ~(Tolerated(f[mid]) \/ narrow)
  <2> DEFINE below == solve.fLow * f[mid] < 0
  <2>1. solve' = IF below THEN [solve EXCEPT !.high = mid]
                          ELSE [solve EXCEPT !.low = mid, !.fLow = f[mid]]
    BY <1>5 DEF Bisect, RootBelow
  <2>2. ASSUME ~Mistaken
        PROVE  /\ solve.fLow > 0 /\ f[solve.low] > 0 /\ f[solve.high] <= 0
               /\ solve.fLow = f[solve.low] /\ solve.low < solve.high
               /\ below <=> f[mid] < 0
    <3>1. /\ f[solve.low] > 0 /\ f[solve.high] <= 0
          /\ solve.fLow = f[solve.low] /\ solve.low < solve.high
      BY <1>1, <2>2 DEF SolveInv, BracketHoldsRoot
    <3>2. below <=> f[mid] < 0
      BY <1>1, <1>3, <3>1, Signs
    <3> QED
      BY <3>1, <3>2
  <2>3. f[mid] # 0
    BY <1>5 DEF Tolerated
  <2> HIDE DEF f, mid, below, narrow
  <2>4. BracketHoldsRoot'
    <3> SUFFICES ASSUME ~Mistaken
                 PROVE  /\ f[solve'.low] > 0 /\ f[solve'.high] <= 0
                        /\ solve'.fLow = f[solve'.low] /\ solve'.low < solve'.high
      BY <2>1 DEF BracketHoldsRoot, Mistaken, SolveInv, SolveTypes, f
    <3>1. CASE below
      <4>1. solve'.low = solve.low /\ solve'.high = mid /\ solve'.fLow = solve.fLow
        BY <2>1, <3>1 DEF SolveInv, SolveTypes
      <4>2. f[mid] < 0 /\ solve.low # mid
        BY <2>2, <3>1, <1>3 DEF Levels
      <4>5. mid \in Int /\ solve.low \in Int
        BY <1>1, <1>2, Ends
      <4>3. solve.low < mid /\ solve'.low < solve'.high
        BY <1>2, <2>2, <4>1, <4>2, <4>5
      <4>4. f[mid] <= 0
        BY <1>3, <4>2 DEF Levels
      <4> QED
        BY <2>2, <4>1, <4>3, <4>4
    <3>2. CASE ~below
      <4>1. solve'.low = mid /\ solve'.high = solve.high /\ solve'.fLow = f[mid]
        BY <2>1, <3>2 DEF SolveInv, SolveTypes
      <4>2. f[mid] > 0
        BY <2>2, <2>3, <3>2, <1>3 DEF Levels
      <4> QED
        BY <1>1, <1>2, <1>3, <2>2, <4>1, <4>2
    <3> QED
      BY <3>1, <3>2
  <2>5. /\ SolveTypes' /\ solve'.phase = "bisect" /\ solve'.f = solve.f
        /\ solve'.request = solve.request /\ solve'.undefined = solve.undefined
    BY <1>1, <1>2, <1>3, <2>1 DEF SolveInv, SolveTypes, Phases
  <2> QED
    BY <2>4, <2>5 DEF SolveInv, ResultIsRoot, NoneMeansNoRoot, OrdinaryRequestsAnswered
<1> QED
  BY <1>0, <1>4, <1>5

(* Every call keeps the invariant to its end. *)
LEMMA SolveAlways == SolverSpec => []SolveInv
<1>1. SolverInit => SolveInv
  BY Ends DEF SolverInit, Called, SolveInv, SolveTypes, Phases, Levels, Undefined, BracketHoldsRoot,
              ResultIsRoot, NoneMeansNoRoot, OrdinaryRequestsAnswered
<1>2. SolveInv /\ [SolverNext]_solve => SolveInv'
  <2>1. CASE UNCHANGED solve
    BY <2>1 DEF SolveInv, SolveTypes, BracketHoldsRoot, ResultIsRoot, NoneMeansNoRoot,
                OrdinaryRequestsAnswered, Mistaken
  <2> QED
    BY <2>1, ValidateStep, NewtonStep, BracketStep, BisectStep DEF SolverNext
<1> QED
  BY <1>1, <1>2, PTL DEF SolverSpec

(* The bisection never loses the root it started with, for a bracket of    *)
(* any width and any pricing function that falls as the rate rises: the    *)
(* coupons are less than 730 days apart.                                   *)
THEOREM BracketKept == SolverSpec => []BracketHoldsRoot
<1>1. SolveInv => BracketHoldsRoot
  BY DEF SolveInv
<1> QED
  BY <1>1, SolveAlways, PTL

(* The rate that is returned prices the bond, to the tolerance or to one   *)
(* step of the grid, unless -0.5 itself is the root or the coupons are 730 *)
(* days apart or more.                                                     *)
THEOREM ResultPricesBond == SolverSpec => []ResultIsRoot
<1>1. SolveInv => ResultIsRoot
  BY DEF SolveInv
<1> QED
  BY <1>1, SolveAlways, PTL

(* No yield is the answer only when no rate of the bracket is one, for     *)
(* coupons less than 730 days apart.                                       *)
THEOREM NoneIsTrue == SolverSpec => []NoneMeansNoRoot
<1>1. SolveInv => NoneMeansNoRoot
  BY DEF SolveInv
<1> QED
  BY <1>1, SolveAlways, PTL

(* A request that validation lets through is answered, unless it has        *)
(* stored coupons and a period of zero, a period of 730 days or more, a    *)
(* maturity centuries away, or is the closed form below the nominal.       *)
THEOREM OrdinaryIsAnswered == SolverSpec => []OrdinaryRequestsAnswered
<1>1. SolveInv => OrdinaryRequestsAnswered
  BY DEF SolveInv
<1> QED
  BY <1>1, SolveAlways, PTL

-----------------------------------------------------------------------------
(* Calendar                                                                *)

(* A set of naturals that is not empty has a smallest member. *)
LEMMA LeastNatural ==
    ASSUME NEW B, B \subseteq Nat, B # {}
    PROVE  \E n \in B : \A m \in B : n <= m
<1>1. \A n, m \in Nat : <<m, n>> \in OpToRel(<, Nat) <=> m < n
  BY DEF OpToRel
<1>2. PICK n \in B : \A m \in B : ~ (<<m, n>> \in OpToRel(<, Nat))
  BY NatLessThanWellFounded, WFMin
<1>3. n \in Nat /\ \A m \in B : m \in Nat /\ ~(m < n)
  BY <1>1, <1>2
<1>4. \A m \in B : n <= m
  BY <1>3
<1> QED
  BY <1>4

(* Days a whole number of periods apart. *)
LEMMA RemainderIs ==
    ASSUME NEW a \in Int, NEW p \in Nat, p > 0, NEW q \in Int, NEW r \in Int,
           a = p * q + r, 0 <= r, r < p
    PROVE  a % p = r
  OBVIOUS

(* The quotient and the remainder of any distance. *)
LEMMA Quotient ==
    ASSUME NEW a \in Int, NEW p \in Nat, p > 0
    PROVE  /\ a \div p \in Int /\ a % p \in Int /\ 0 <= a % p /\ a % p < p
           /\ a = p * (a \div p) + (a % p)
  OBVIOUS

(* A period more or less leaves the remainder. *)
LEMMA PeriodApart ==
    ASSUME NEW a \in Int, NEW p \in Nat, p > 0
    PROVE  (a - p) % p = a % p /\ (a + p) % p = a % p
<1> DEFINE q == a \div p
           r == a % p
<1>1. q \in Int /\ r \in Int /\ 0 <= r /\ r < p /\ a = p * q + r
  BY Quotient
<1> HIDE DEF q, r
<1>2. q - 1 \in Int /\ q + 1 \in Int /\ p * (q - 1) = p * q - p /\ p * (q + 1) = p * q + p /\ p * q \in Int
  BY <1>1
<1>3. a - p = p * (q - 1) + r /\ a + p = p * (q + 1) + r
  BY <1>1, <1>2
<1>4. (a - p) % p = r
  BY <1>1, <1>2, <1>3, RemainderIs
<1>5. (a + p) % p = r
  BY <1>1, <1>2, <1>3, RemainderIs
<1> QED
  BY <1>4, <1>5 DEF r

(* Two different days of a grid are a period apart or more. *)
LEMMA WithinPeriod ==
    ASSUME NEW a \in Int, NEW b \in Int, NEW p \in Nat, p > 0,
           a % p = 0, b % p = 0, a < b
    PROVE  b >= a + p
<1> SUFFICES ASSUME b < a + p PROVE FALSE
  OBVIOUS
<1> DEFINE q == a \div p
           r == b - a
<1>1. q \in Int /\ a = p * q
  BY Quotient
<1>2. r \in Int /\ 0 < r /\ r < p /\ b = a + r
  OBVIOUS
<1> HIDE DEF q, r
<1>3. b = p * q + r
  BY <1>1, <1>2
<1>4. b % p = r
  BY <1>1, <1>2, <1>3, RemainderIs
<1> QED
  BY <1>2, <1>4

(* So is a day of the grid from the maturity date. *)
LEMMA AtLeastPeriod ==
    ASSUME NEW b \in Int, NEW p \in Nat, p > 0, b % p = 0, 0 < b
    PROVE  b >= p
<1>1. b < p => b % p = b
  OBVIOUS
<1> QED
  BY <1>1

(* The days of a grid after a day: stepped back from the maturity date, or *)
(* told by their distance from it.                                         *)
IsGrid(dates, after, period) ==
    dates = [current \in Int |->
                IF current > after THEN {current} \cup dates[current - period] ELSE {}]

Grid(maturity, after, period) ==
    {date \in Int : after < date /\ date <= maturity /\ (maturity - date) % period = 0}

(* One step back. *)
LEMMA GridStep ==
    ASSUME NEW after \in Int, NEW p \in Nat, p > 0, NEW c \in Int
    PROVE  Grid(c, after, p) = IF c > after THEN {c} \cup Grid(c - p, after, p) ELSE {}
<1>1. CASE c > after
  <2>1. ASSUME NEW date \in Grid(c, after, p) PROVE date = c \/ date \in Grid(c - p, after, p)
    <3> SUFFICES ASSUME date # c PROVE date \in Grid(c - p, after, p)
      OBVIOUS
    <3>1. date \in Int /\ after < date /\ date < c /\ (c - date) % p = 0
      BY <2>1 DEF Grid
    <3>2. c - date \in Int /\ 0 \in Int /\ 0 < c - date /\ 0 % p = 0
      BY <3>1, RemainderIs
    <3>3. c - date >= 0 + p
      BY <3>1, <3>2, WithinPeriod
    <3>4. ((c - date) - p) % p = 0
      BY <3>1, <3>2, PeriodApart
    <3>5. (c - p) - date = (c - date) - p
      BY <3>1
    <3> QED
      BY <3>1, <3>3, <3>4, <3>5 DEF Grid
  <2>2. ASSUME NEW date \in Grid(c - p, after, p) PROVE date \in Grid(c, after, p)
    <3>1. date \in Int /\ after < date /\ date <= c - p /\ ((c - p) - date) % p = 0
      BY <2>2 DEF Grid
    <3>2. (((c - p) - date) + p) % p = 0
      BY <3>1, PeriodApart
    <3>3. c - date = ((c - p) - date) + p
      BY <3>1
    <3> QED
      BY <3>1, <3>2, <3>3 DEF Grid
  <2>3. c \in Grid(c, after, p)
    <3>1. c - c = 0 /\ 0 % p = 0
      BY RemainderIs
    <3> QED
      BY <1>1, <3>1 DEF Grid
  <2> QED
    BY <1>1, <2>1, <2>2, <2>3
<1>2. CASE ~(c > after)
  BY <1>2 DEF Grid
<1> QED
  BY <1>1, <1>2

(* There is such a function. *)
LEMMA GridExists ==
    ASSUME NEW after \in Int, NEW p \in Nat, p > 0
    PROVE  IsGrid([c \in Int |-> Grid(c, after, p)], after, p)
<1> DEFINE closed == [c \in Int |-> Grid(c, after, p)]
<1>1. ASSUME NEW c \in Int
      PROVE closed[c] = IF c > after THEN {c} \cup closed[c - p] ELSE {}
  <2>1. c - p \in Int /\ closed[c] = Grid(c, after, p) /\ closed[c - p] = Grid(c - p, after, p)
    OBVIOUS
  <2> HIDE DEF closed
  <2> QED
    BY <2>1, GridStep
<1>2. closed = [c \in Int |-> closed[c]]
  OBVIOUS
<1> HIDE DEF closed
<1>3. IsGrid(closed, after, p)
  BY <1>1, <1>2 DEF IsGrid
<1> QED
  BY <1>3 DEF closed

(* Stepping back finds the days of the grid. *)
LEMMA GridIs ==
    ASSUME NEW after \in Int, NEW p \in Nat, p > 0, NEW dates, IsGrid(dates, after, p)
    PROVE  \A maturity \in Int : dates[maturity] = Grid(maturity, after, p)
<1> DEFINE Bad == {n \in Nat : \E c \in Int : c <= after + n /\ dates[c] # Grid(c, after, p)}
<1>3. \A c \in Int : dates[c] = IF c > after THEN {c} \cup dates[c - p] ELSE {}
  BY DEF IsGrid
<1>4. Bad = {}
  <2> SUFFICES ASSUME Bad # {} PROVE FALSE
    OBVIOUS
  <2>1. PICK n \in Bad : \A m \in Bad : n <= m
    <3>1. Bad \subseteq Nat
      OBVIOUS
    <3> HIDE DEF Bad
    <3> QED
      BY <3>1, LeastNatural
  <2>2. PICK c \in Int : c <= after + n /\ dates[c] # Grid(c, after, p)
    OBVIOUS
  <2>3. n \in Nat
    OBVIOUS
  <2>4. CASE c > after
    <3>1. n - 1 \in Nat /\ n - 1 \notin Bad /\ c - p \in Int /\ c - p <= after + (n - 1)
      <4>1. n - 1 \in Nat /\ c - p \in Int /\ c - p <= after + (n - 1) /\ ~(n <= n - 1)
        BY <2>2, <2>3, <2>4
      <4> HIDE DEF Bad
      <4> QED
        BY <4>1, <2>1
    <3>2. dates[c - p] = Grid(c - p, after, p)
      BY <3>1
    <3> HIDE DEF Bad
    <3>3. dates[c] = {c} \cup dates[c - p]
      BY <1>3, <2>4
    <3>4. Grid(c, after, p) = {c} \cup Grid(c - p, after, p)
      BY <2>4, GridStep
    <3> QED
      BY <2>2, <3>2, <3>3, <3>4
  <2>5. CASE ~(c > after)
    <3> HIDE DEF Bad
    <3> QED
      BY <1>3, <2>2, <2>5, GridStep
  <2> QED
    BY <2>4, <2>5
<1>5. ASSUME NEW maturity \in Int, dates[maturity] # Grid(maturity, after, p) PROVE FALSE
  <2> DEFINE n == IF maturity > after THEN maturity - after ELSE 0
  <2>1. n \in Nat /\ maturity <= after + n
    OBVIOUS
  <2> HIDE DEF n
  <2>2. n \in Bad
    BY <1>5, <2>1
  <2> QED
    BY <1>4, <2>2
<1> QED
  BY <1>5

(* The last day of the grid before a day, if it is not too early.          *)
LastBefore(maturity, today, p) ==
    today - 1 - ((today - 1 - maturity) % p)

LastIs(maturity, today, p) ==
    IF maturity < today THEN maturity
    ELSE IF LastBefore(maturity, today, p) < MinDate THEN NoDate
    ELSE LastBefore(maturity, today, p)

IsLast(last, today, p) ==
    last = [current \in Int |->
               IF current < today THEN current
               ELSE IF current - p < MinDate THEN NoDate ELSE last[current - p]]

(* It lies within a period of today, on the grid. *)
LEMMA LastBeforeToday ==
    ASSUME NEW p \in Nat, p > 0, NEW c \in Int, NEW today \in Int
    PROVE  /\ LastBefore(c, today, p) \in Int
           /\ LastBefore(c, today, p) < today /\ LastBefore(c, today, p) >= today - p
           /\ (c - LastBefore(c, today, p)) % p = 0
<1> DEFINE a == today - 1 - c
           q == a \div p
           r == a % p
<1>1. a \in Int
  OBVIOUS
<1>2. q \in Int /\ r \in Int /\ 0 <= r /\ r < p /\ a = p * q + r
  BY <1>1, Quotient
<1>3. LastBefore(c, today, p) = today - 1 - r
  BY DEF LastBefore
<1>4. c - (today - 1 - r) = r - a
  BY <1>2
<1> HIDE DEF q, r
<1>5. -q \in Int /\ r - a = p * (-q) + 0
  BY <1>2
<1>6. (r - a) % p = 0
  <2>1. r - a \in Int /\ 0 \in Int /\ 0 <= 0 /\ 0 < p
    BY <1>1, <1>2
  <2> HIDE DEF a
  <2> QED
    BY <1>5, <2>1, RemainderIs
<1>7. (c - (today - 1 - r)) % p = 0
  BY <1>4, <1>6
<1> HIDE DEF a
<1> QED
  BY <1>2, <1>3, <1>7

(* Stepping back over a day that is too late does not change it. *)
LEMMA LastStep ==
    ASSUME NEW p \in Nat, p > 0, NEW c \in Int, NEW today \in Int, MinDate \in Int
    PROVE  LastIs(c, today, p) = IF c < today THEN c
                                 ELSE IF c - p < MinDate THEN NoDate
                                 ELSE LastIs(c - p, today, p)
<1>1. CASE c < today
  BY <1>1 DEF LastIs
<1>2. CASE c >= today
  <2>1. LastBefore(c - p, today, p) = LastBefore(c, today, p)
    <3>1. today - 1 - (c - p) = (today - 1 - c) + p /\ today - 1 - c \in Int
      OBVIOUS
    <3>2. ((today - 1 - c) + p) % p = (today - 1 - c) % p
      BY <3>1, PeriodApart
    <3>3. (today - 1 - (c - p)) % p = (today - 1 - c) % p
      BY <3>1, <3>2
    <3> QED
      BY <3>3 DEF LastBefore
  <2>2. /\ LastBefore(c, today, p) \in Int
        /\ LastBefore(c, today, p) < today /\ LastBefore(c, today, p) >= today - p
    BY LastBeforeToday
  <2>3. CASE c - p < today
    <3>1. LastBefore(c, today, p) = c - p
      <4>1. today - 1 - (c - p) \in Int /\ 0 <= today - 1 - (c - p) /\ today - 1 - (c - p) < p
        BY <1>2, <2>3
      <4>2. today - 1 - (c - p) = p * 0 + (today - 1 - (c - p))
        OBVIOUS
      <4>3. (today - 1 - (c - p)) % p = today - 1 - (c - p)
        BY <4>1, <4>2, RemainderIs
      <4>4. LastBefore(c - p, today, p) = c - p
        BY <4>3 DEF LastBefore
      <4> QED
        BY <2>1, <4>4
    <3> QED
      BY <1>2, <2>3, <3>1 DEF LastIs
  <2>4. CASE c - p >= today
    <3>1. c - p < MinDate => LastBefore(c, today, p) < MinDate
      BY <2>2, <2>4
    <3> QED
      BY <1>2, <2>1, <2>2, <2>4, <3>1 DEF LastIs
  <2> QED
    BY <2>3, <2>4
<1> QED
  BY <1>1, <1>2

(* Stepping back finds it. *)
LEMMA LastFound ==
    ASSUME NEW p \in Nat, p > 0, NEW maturity \in Int, NEW today \in Int, MinDate \in Int
    PROVE  (CHOOSE last : IsLast(last, today, p))[maturity] = LastIs(maturity, today, p)
<1> DEFINE last == CHOOSE g : IsLast(g, today, p)
           closed == [c \in Int |-> LastIs(c, today, p)]
           Bad == {n \in Nat : \E c \in Int : c <= today + n /\ last[c] # LastIs(c, today, p)}
<1>1. IsLast(closed, today, p)
  <2>1. ASSUME NEW c \in Int
        PROVE closed[c] = IF c < today THEN c
                          ELSE IF c - p < MinDate THEN NoDate ELSE closed[c - p]
    <3>1. c - p \in Int /\ closed[c] = LastIs(c, today, p) /\ closed[c - p] = LastIs(c - p, today, p)
      OBVIOUS
    <3> HIDE DEF closed
    <3> QED
      BY <3>1, LastStep
  <2>2. closed = [c \in Int |-> closed[c]]
    OBVIOUS
  <2> HIDE DEF closed
  <2> QED
    BY <2>1, <2>2 DEF IsLast
<1>2. IsLast(last, today, p)
  BY <1>1
<1> HIDE DEF last
<1>3. \A c \in Int : last[c] = IF c < today THEN c
                               ELSE IF c - p < MinDate THEN NoDate ELSE last[c - p]
  BY <1>2 DEF IsLast
<1>4. Bad = {}
  <2> SUFFICES ASSUME Bad # {} PROVE FALSE
    OBVIOUS
  <2>1. PICK n \in Bad : \A m \in Bad : n <= m
    <3>1. Bad \subseteq Nat
      OBVIOUS
    <3> HIDE DEF Bad
    <3> QED
      BY <3>1, LeastNatural
  <2>2. PICK c \in Int : c <= today + n /\ last[c] # LastIs(c, today, p)
    OBVIOUS
  <2>3. n \in Nat
    OBVIOUS
  <2>4. CASE ~(c < today) /\ ~(c - p < MinDate)
    <3>1. CASE c - p < today
      <4>1. last[c - p] = c - p /\ LastIs(c - p, today, p) = c - p
        <5>1. c - p \in Int
          OBVIOUS
        <5> HIDE DEF Bad
        <5> QED
          BY <1>3, <3>1, <5>1, LastStep
      <4> HIDE DEF Bad
      <4>2. last[c] = last[c - p] /\ LastIs(c, today, p) = LastIs(c - p, today, p)
        BY <1>3, <2>4, LastStep
      <4> QED
        BY <2>2, <4>1, <4>2
    <3>2. CASE ~(c - p < today)
      <4>1. n - 1 \in Nat /\ n - 1 \notin Bad /\ c - p \in Int /\ c - p <= today + (n - 1)
        <5>1. n - 1 \in Nat /\ c - p \in Int /\ c - p <= today + (n - 1) /\ ~(n <= n - 1)
          BY <2>2, <2>3, <2>4, <3>2
        <5> HIDE DEF Bad
        <5> QED
          BY <5>1, <2>1
      <4>2. last[c - p] = LastIs(c - p, today, p)
        BY <4>1
      <4> HIDE DEF Bad
      <4>3. last[c] = last[c - p] /\ LastIs(c, today, p) = LastIs(c - p, today, p)
        BY <1>3, <2>4, LastStep
      <4> QED
        BY <2>2, <4>2, <4>3
    <3> QED
      BY <3>1, <3>2
  <2>5. CASE c < today \/ c - p < MinDate
    <3> HIDE DEF Bad
    <3>1. last[c] = (IF c < today THEN c ELSE NoDate)
      BY <1>3, <2>5
    <3>2. LastIs(c, today, p) = (IF c < today THEN c ELSE NoDate)
      BY <2>5, LastStep
    <3> QED
      BY <2>2, <3>1, <3>2
  <2> QED
    BY <2>4, <2>5
<1>5. ASSUME last[maturity] # LastIs(maturity, today, p) PROVE FALSE
  <2> DEFINE n == IF maturity > today THEN maturity - today ELSE 0
  <2>1. n \in Nat /\ maturity <= today + n
    OBVIOUS
  <2> HIDE DEF n
  <2>2. n \in Bad
    BY <1>5, <2>1
  <2> QED
    BY <1>4, <2>2
<1> QED
  BY <1>5 DEF last

(* What the grids of a bond with coupons are. *)
LEMMA FutureDatesAre ==
    ASSUME NEW bond, bond.maturity \in Int, bond.period \in Nat, bond.period > 0, NEW today \in Int
    PROVE  FutureCouponDates(bond, today) = Grid(bond.maturity, today, bond.period)
<1> DEFINE dates == CHOOSE g : IsGrid(g, today, bond.period)
<1>1. IsGrid(dates, today, bond.period)
  BY GridExists
<1>2. FutureCouponDates(bond, today) = dates[bond.maturity]
  BY DEF FutureCouponDates, IsGrid
<1> HIDE DEF dates
<1> QED
  BY <1>1, <1>2, GridIs

(* The last coupon is the last day of the grid before today, if any. *)
LEMMA LastDateIs ==
    ASSUME CalendarAssumption,
           NEW bond, bond.maturity \in Int, bond.period \in Nat, bond.period > 0, NEW today \in Int
    PROVE  LastCouponDate(bond, today) = LastIs(bond.maturity, today, bond.period)
<1> DEFINE last == CHOOSE g : IsLast(g, today, bond.period)
<1>1. last[bond.maturity] = LastIs(bond.maturity, today, bond.period)
  BY LastFound DEF CalendarAssumption
<1>2. LastCouponDate(bond, today) = last[bond.maturity]
  BY DEF LastCouponDate, IsLast
<1> QED
  BY <1>1, <1>2

(* A schedule from a first coupon on is that coupon and the grid after it. *)
LEMMA ScheduleIs ==
    ASSUME CalendarAssumption,
           NEW bond, bond.maturity \in Int, bond.period \in Nat, bond.period > 0,
           NEW first \in Int, first >= MinDate
    PROVE  CouponSchedule(bond, first) =
             {first, bond.maturity} \cup Grid(bond.maturity - bond.period, first, bond.period)
<1> DEFINE p == bond.period
           Bounded(g) ==
              g = [current \in Int |->
                     IF current > first /\ current >= MinDate
                     THEN {current} \cup g[current - p] ELSE {}]
           grid == CHOOSE g : Bounded(g)
           closed == [c \in Int |-> Grid(c, first, p)]
<1>1. \A g : Bounded(g) <=> IsGrid(g, first, p)
  <2> TAKE g
  <2>1. \A c \in Int : c > first /\ c >= MinDate <=> c > first
    BY DEF CalendarAssumption
  <2> QED
    BY <2>1 DEF IsGrid
<1>2. IsGrid(closed, first, p)
  BY GridExists
<1>3. Bounded(grid)
  <2>1. Bounded(closed)
    BY <1>1, <1>2
  <2> HIDE DEF closed
  <2> QED
    BY <2>1
<1>4. CouponSchedule(bond, first) = {first, bond.maturity} \cup grid[bond.maturity - p]
  BY DEF CouponSchedule
<1> HIDE DEF grid, Bounded
<1>5. IsGrid(grid, first, p)
  BY <1>1, <1>3
<1>6. grid[bond.maturity - p] = Grid(bond.maturity - p, first, p)
  BY <1>5, GridIs
<1> QED
  BY <1>4, <1>6

(* Bonds are bonds, and the day is a number. *)
CalendarTypes == held \in [Bonds -> Bond] /\ day \in Nat

(* What CalendarTypes says of one bond. *)
LEMMA BondTypes ==
    ASSUME CalendarAssumption, CalendarTypes, NEW id \in Bonds
    PROVE  /\ held[id].maturity \in Int /\ held[id].period \in Nat
           /\ held[id].schedule \subseteq Int /\ day \in Int
<1>1. held[id] \in Bond
  BY DEF CalendarTypes
<1>2. /\ held[id].maturity \in Maturities /\ held[id].period \in Periods
      /\ held[id].schedule \in Schedules
  BY <1>1, Zenon DEF Bond
<1>3. held[id].schedule \subseteq Int
  BY <1>2, Zenon DEF CalendarAssumption
<1>4. held[id].maturity \in Int /\ held[id].period \in Nat
  BY <1>2, Zenon DEF CalendarAssumption
<1>5. day \in Int
  BY DEF CalendarTypes
<1> QED
  BY <1>3, <1>4, <1>5

(* Bonds do not change, days are numbers. *)
THEOREM CalendarTypesHold == CalendarSpec => []CalendarTypes
<1>1. CalendarInit => CalendarTypes
  BY DEF CalendarInit, Unread, CalendarTypes
<1>2. ASSUME CalendarTypes, [CalendarNext]_calendarVars PROVE CalendarTypes'
  <2>1. held' = held /\ day' \in {day, day + 1}
    BY <1>2 DEF CalendarNext, NextDay, Recalculate, Ask, AskAbout, calendarVars
  <2> QED
    BY <1>2, <2>1 DEF CalendarTypes
<1> QED
  BY <1>1, <1>2, PTL DEF CalendarSpec

(* The first day of a grid after a day, told by remainders. *)
LEMMA NextIs ==
    ASSUME CalendarAssumption,
           NEW bond, bond.maturity \in Int, bond.period \in Nat, bond.period > 0,
           NEW today \in Int, today < bond.maturity,
           NEW next \in Grid(bond.maturity, today, bond.period), next <= today + bond.period
    PROVE  NextCouponDate(bond, today) = next
<1> DEFINE p == bond.period
           m == bond.maturity
           dates == Grid(m, today, p)
<1>1. FutureCouponDates(bond, today) = dates
  BY FutureDatesAre
<1>2. ASSUME NEW other \in dates, other < next PROVE FALSE
  <2>1. /\ next \in Int /\ other \in Int /\ today < other
        /\ (m - next) % p = 0 /\ (m - other) % p = 0
    BY <1>2 DEF Grid
  <2>2. m - other >= (m - next) + p
    <3>1. m - next \in Int /\ m - other \in Int /\ m - next < m - other
      BY <1>2, <2>1
    <3> QED
      BY <2>1, <3>1, WithinPeriod
  <2> QED
    BY <2>1, <2>2
<1>3. \A other \in dates : other \in Int /\ next \in Int /\ next <= other
  <2>1. \A other \in dates : other \in Int /\ next \in Int
    BY DEF Grid
  <2> HIDE DEF dates
  <2> QED
    BY <1>2, <2>1
<1> HIDE DEF dates
<1>4. next \in dates
  BY DEF dates
<1>5. \E d \in dates : \A other \in dates : d <= other
  BY <1>3, <1>4
<1>6. NextCouponDate(bond, today) = CHOOSE d \in dates : \A other \in dates : d <= other
  BY <1>1, <1>4 DEF NextCouponDate
<1> DEFINE first == CHOOSE d \in dates : \A other \in dates : d <= other
<1>7. first \in dates /\ \A other \in dates : first <= other
  BY <1>5
<1> HIDE DEF first
<1>8. first = next
  BY <1>3, <1>4, <1>7
<1> QED
  BY <1>6, <1>8 DEF first

(* The grids of one bond on one day. *)
LEMMA GridsMeetFor ==
    ASSUME CalendarAssumption,
           NEW bond, bond.maturity \in Int, bond.period \in Nat, bond.period > 0,
           NEW today \in Int, today < bond.maturity, LastCouponDate(bond, today) # NoDate,
           NEW paidToday \in BOOLEAN, paidToday <=> (bond.maturity - today) % bond.period = 0
    PROVE  LET last == LastCouponDate(bond, today)
               next == NextCouponDate(bond, today)
           IN  /\ last < today /\ today < next
               /\ next - last = IF paidToday THEN 2 * bond.period ELSE bond.period
               /\ AccruedDays(bond, today) = IF paidToday THEN bond.period ELSE today - last
               /\ FutureCouponDates(bond, today)
                    = CouponSchedule(bond, last) \ {last, IF paidToday THEN today ELSE last}
<1> DEFINE p == bond.period
           m == bond.maturity
           last == LastBefore(m, today, p)
<1> USE DEF CalendarAssumption
<1>0. paidToday <=> (m - today) % p = 0
  OBVIOUS
<1>1. LastCouponDate(bond, today) = last /\ last >= MinDate
  <2>1. LastCouponDate(bond, today) = LastIs(m, today, p)
    BY LastDateIs
  <2>2. last \in Int
    BY LastBeforeToday
  <2> QED
    BY <2>1, <2>2 DEF LastIs
<1>2. /\ last \in Int /\ last < today /\ last >= today - p /\ (m - last) % p = 0
  BY LastBeforeToday
<1> HIDE DEF last
<1>3. last + p <= m
  <2>1. m - last \in Int /\ 0 < m - last
    BY <1>2
  <2>2. m - last >= p
    BY <1>2, <2>1, AtLeastPeriod
  <2> QED
    BY <1>2, <2>2
<1>4. (m - (last + p)) % p = 0
  <2>1. m - (last + p) = (m - last) - p /\ m - last \in Int
    BY <1>2
  <2> QED
    BY <1>2, <2>1, PeriodApart
<1>5. paidToday <=> last = today - p
  <2>1. CASE last = today - p
    <3>1. last + p = today
      BY <2>1
    <3> QED
      BY <1>4, <2>1, <3>1
  <2>2. CASE last # today - p
    <3>1. today - p < last
      BY <1>2, <2>2
    <3>2. ASSUME (m - today) % p = 0 PROVE FALSE
      <4>1. m - today \in Int /\ m - last \in Int /\ m - today < m - last
        BY <1>2
      <4>2. m - last >= (m - today) + p
        BY <1>2, <3>2, <4>1, WithinPeriod
      <4> QED
        BY <1>2, <3>1, <4>2
    <3> QED
      BY <2>2, <3>2
  <2> QED
    BY <2>1, <2>2
<1>6. CouponSchedule(bond, last) = {last, m} \cup Grid(m - p, last, p)
  BY <1>1, <1>2, ScheduleIs
<1>7. CouponSchedule(bond, last) = {last} \cup Grid(m, last, p)
  <2>1. Grid(m, last, p) = {m} \cup Grid(m - p, last, p)
    BY <1>2, GridStep
  <2> QED
    BY <1>6, <2>1
<1>8. FutureCouponDates(bond, today) = Grid(m, today, p)
  BY FutureDatesAre
<1>9. \A date \in Grid(m, last, p) : date \in Int /\ date >= last + p
  <2> TAKE date \in Grid(m, last, p)
  <2>1. date \in Int /\ last < date /\ (m - date) % p = 0
    BY DEF Grid
  <2>2. m - date \in Int /\ m - last \in Int /\ m - date < m - last
    BY <1>2, <2>1
  <2>3. m - last >= (m - date) + p
    BY <1>2, <2>1, <2>2, WithinPeriod
  <2> QED
    BY <1>2, <2>1, <2>3
<1>10. AccruedDays(bond, today) = IF paidToday THEN p ELSE today - last
  <2>1. last # NoDate
    BY <1>1
  <2>2. AccruedDays(bond, today) = IF today - last < 0 THEN 0
                                   ELSE IF today - last >= p THEN p ELSE today - last
    BY <1>1, <2>1, Zenon DEF AccruedDays
  <2> QED
    BY <1>2, <1>5, <2>2
<1>11. CASE paidToday
  <2>1. last + p = today
    BY <1>2, <1>5, <1>11
  <2>2. /\ today + p \in Grid(m, today, p)
    <3>1. m - today \in Int /\ 0 < m - today /\ (m - today) % p = 0
      BY <1>0, <1>11
    <3>2. m - today >= p
      BY <3>1, AtLeastPeriod
    <3>3. ((m - today) - p) % p = 0
      BY <3>1, PeriodApart
    <3>4. m - (today + p) = (m - today) - p
      OBVIOUS
    <3>5. today + p \in Int /\ today < today + p /\ today + p <= m
      BY <3>2
    <3> QED
      BY <3>3, <3>4, <3>5 DEF Grid
  <2>3. NextCouponDate(bond, today) = today + p
    <3>1. today + p <= today + p
      OBVIOUS
    <3> DEFINE n == today + p
    <3> HIDE DEF n
    <3> QED
      BY <2>2, <3>1, NextIs DEF n
  <2>4. Grid(m, today, p) = ({last} \cup Grid(m, last, p)) \ {last, today}
    <3>1. ASSUME NEW date \in Grid(m, today, p)
          PROVE date \in Grid(m, last, p) /\ date # last /\ date # today
      BY <1>2, <3>1 DEF Grid
    <3>2. ASSUME NEW date \in Grid(m, last, p), date # today PROVE date \in Grid(m, today, p)
      <4>1. date \in Int /\ date > today
        BY <1>9, <2>1, <3>2
      <4> QED
        BY <4>1 DEF Grid
    <3> QED
      BY <3>1, <3>2
  <2>5. (today + p) - last = 2 * p
    BY <1>2, <2>1
  <2> QED
    BY <1>1, <1>2, <1>7, <1>8, <1>10, <1>11, <2>3, <2>4, <2>5
<1>12. CASE ~paidToday
  <2>1. last + p > today
    BY <1>2, <1>5, <1>12
  <2>2. last + p \in Grid(m, today, p)
    BY <1>2, <1>3, <1>4, <2>1 DEF Grid
  <2>3. NextCouponDate(bond, today) = last + p
    <3>1. last + p <= today + p
      BY <1>2
    <3> HIDE DEF p, m
    <3> QED
      BY <2>2, <3>1, NextIs DEF p, m
  <2>4. Grid(m, today, p) = ({last} \cup Grid(m, last, p)) \ {last}
    <3>1. ASSUME NEW date \in Grid(m, today, p)
          PROVE date \in Grid(m, last, p) /\ date # last
      BY <1>2, <3>1 DEF Grid
    <3>2. ASSUME NEW date \in Grid(m, last, p) PROVE date \in Grid(m, today, p)
      <4>1. date \in Int /\ date > today
        BY <1>2, <1>9, <2>1, <3>2
      <4> QED
        BY <4>1 DEF Grid
    <3> QED
      BY <3>1, <3>2
  <2>5. (last + p) - last = p
    BY <1>2
  <2> QED
    BY <1>1, <1>2, <1>7, <1>8, <1>10, <1>12, <2>1, <2>3, <2>4, <2>5
<1> QED
  BY <1>11, <1>12

(* On every day, the two grids of every unmatured bond fit together: today *)
(* lies between the last coupon and the next, a period apart, or two when  *)
(* a coupon is paid today, for every period and every maturity.            *)
THEOREM GridsFit == CalendarSpec => []GridsMeet
<1>1. CalendarTypes => GridsMeet
  <2> SUFFICES ASSUME CalendarTypes, NEW id \in Bonds,
                      held[id].period > 0, day < held[id].maturity,
                      LastCouponDate(held[id], day) # NoDate
               PROVE  LET bond == held[id]
                          last == LastCouponDate(bond, day)
                          next == NextCouponDate(bond, day)
                          paidToday == (bond.maturity - day) % bond.period = 0
                      IN  /\ last < day /\ day < next
                          /\ next - last = IF paidToday THEN 2 * bond.period ELSE bond.period
                          /\ AccruedDays(bond, day) = IF paidToday THEN bond.period ELSE day - last
                          /\ FutureCouponDates(bond, day)
                               = CouponSchedule(bond, last) \ {last, IF paidToday THEN day ELSE last}
    BY DEF GridsMeet
  <2>1. /\ held[id].maturity \in Int /\ held[id].period \in Nat /\ day \in Int
    BY BondTypes, CalendarAssumption
  <2> DEFINE paid == (held[id].maturity - day) % held[id].period = 0
  <2>2. paid \in BOOLEAN /\ (paid <=> (held[id].maturity - day) % held[id].period = 0)
    BY Zenon
  <2> HIDE DEF paid
  <2>3. LET bond == held[id]
            last == LastCouponDate(bond, day)
            next == NextCouponDate(bond, day)
        IN  /\ last < day /\ day < next
            /\ next - last = IF paid THEN 2 * bond.period ELSE bond.period
            /\ AccruedDays(bond, day) = IF paid THEN bond.period ELSE day - last
            /\ FutureCouponDates(bond, day)
                 = CouponSchedule(bond, last) \ {last, IF paid THEN day ELSE last}
    BY <2>1, <2>2, CalendarAssumption, GridsMeetFor
  <2> QED
    BY <2>3 DEF paid
<1> QED
  BY <1>1, CalendarTypesHold, PTL

(* The payments of one bond on one day. *)
LEMMA PrincipalFor ==
    ASSUME NEW bond, bond.maturity \in Int, bond.period \in Nat, bond.schedule \subseteq Int,
           NEW today \in Int, today < bond.maturity, bond.period > 0 \/ bond.schedule # {}
    PROVE  /\ \A p \in YieldCashflows(bond, today) : p.date > today
           /\ \E coupon \in BOOLEAN :
                 {p \in YieldCashflows(bond, today) : p.principal} =
                    {Payment(bond.maturity, coupon, TRUE)}
<1> DEFINE m == bond.maturity
           flows == YieldCashflows(bond, today)
<1>1. CASE bond.schedule = {}
  <2>1. flows = {Payment(date, TRUE, date = m) : date \in Grid(m, today, bond.period)}
    BY <1>1, FutureDatesAre DEF YieldCashflows
  <2>2. m \in Grid(m, today, bond.period)
    <3>1. m - m = 0 /\ 0 % bond.period = 0
      BY <1>1, RemainderIs
    <3> QED
      BY <3>1 DEF Grid
  <2>3. \A date \in Grid(m, today, bond.period) : date > today
    BY DEF Grid
  <2> HIDE DEF flows
  <2>4. \A p \in flows : p.date > today
    BY <2>1, <2>3 DEF Payment
  <2>5. ASSUME NEW p \in flows, p.principal PROVE p = Payment(m, TRUE, TRUE)
    <3>1. PICK date \in Grid(m, today, bond.period) : p = Payment(date, TRUE, date = m)
      BY <2>1
    <3>2. date = m
      BY <2>5, <3>1, Zenon DEF Payment
    <3>3. (date = m) = TRUE
      BY <3>2
    <3> QED
      BY <3>1, <3>2, <3>3, Zenon
  <2>6. Payment(m, TRUE, TRUE) \in flows /\ Payment(m, TRUE, TRUE).principal
    <3>1. (m = m) = TRUE
      OBVIOUS
    <3>2. Payment(m, TRUE, m = m) \in flows
      BY <2>1, <2>2
    <3>3. Payment(m, TRUE, TRUE).principal
      BY DEF Payment
    <3> QED
      BY <3>1, <3>2, <3>3
  <2>7. {p \in flows : p.principal} = {Payment(m, TRUE, TRUE)}
    BY <2>5, <2>6, Zenon
  <2> QED
    BY <2>4, <2>7, Zenon DEF flows
<1>2. CASE bond.schedule # {}
  <2>1. /\ flows = {p \in PositionCashflows(bond) : p.date > today}
        /\ PositionCashflows(bond) =
             {Payment(date, TRUE, date = m) : date \in bond.schedule}
                \cup (IF m \in bond.schedule THEN {} ELSE {Payment(m, FALSE, TRUE)})
    BY <1>2 DEF YieldCashflows, PositionCashflows
  <2> DEFINE coupon == m \in bond.schedule
             last == Payment(m, coupon, TRUE)
  <2> HIDE DEF flows
  <2>2. \A p \in flows : p.date > today
    BY <2>1
  <2>3. ASSUME NEW p \in flows, p.principal PROVE p = last
    <3>1. CASE p \in {Payment(date, TRUE, date = m) : date \in bond.schedule}
      <4>1. PICK date \in bond.schedule : p = Payment(date, TRUE, date = m)
        BY <3>1
      <4>2. date = m
        BY <2>3, <4>1, Zenon DEF Payment
      <4>3. coupon = TRUE
        BY <4>2
      <4>4. (date = m) = TRUE
        BY <4>2
      <4> HIDE DEF coupon
      <4> QED
        BY <4>1, <4>2, <4>3, <4>4, Zenon
    <3>2. CASE m \notin bond.schedule /\ p = Payment(m, FALSE, TRUE)
      <4>1. coupon = FALSE
        BY <3>2
      <4> HIDE DEF coupon
      <4> QED
        BY <3>2, <4>1, Zenon
    <3> QED
      BY <2>1, <3>1, <3>2, Zenon
  <2>4. last \in flows /\ last.principal
    <3>1. last \in PositionCashflows(bond)
      <4>1. CASE m \in bond.schedule
        <5>1. coupon = TRUE /\ (m = m) = TRUE
          BY <4>1
        <5>2. Payment(m, TRUE, m = m) \in PositionCashflows(bond)
          BY <2>1, <4>1
        <5> HIDE DEF coupon
        <5> QED
          BY <5>1, <5>2, Zenon
      <4>2. CASE m \notin bond.schedule
        <5>1. coupon = FALSE
          BY <4>2
        <5>2. Payment(m, FALSE, TRUE) \in PositionCashflows(bond)
          BY <2>1, <4>2
        <5> HIDE DEF coupon
        <5> QED
          BY <5>1, <5>2, Zenon
      <4> QED
        BY <4>1, <4>2
    <3> HIDE DEF coupon
    <3>2. last.date = m /\ last.principal
      BY Zenon DEF Payment
    <3> HIDE DEF last
    <3>3. last.date > today
      BY <3>2
    <3> QED
      BY <2>1, <3>1, <3>2, <3>3
  <2>5. {p \in flows : p.principal} = {last}
    <3> HIDE DEF last
    <3> QED
      BY <2>3, <2>4, Zenon
  <2>6. coupon \in BOOLEAN
    OBVIOUS
  <2> HIDE DEF coupon
  <2> QED
    BY <2>2, <2>5, <2>6, Zenon DEF flows
<1> QED
  BY <1>1, <1>2

(* For every unmatured bond on every day, all payments a yield is computed *)
(* from lie ahead and exactly one of them pays the principal, at maturity, *)
(* whatever dates a provider has stored.                                   *)
THEOREM PrincipalIsOnce == CalendarSpec => []PrincipalOnce
<1>1. CalendarTypes => PrincipalOnce
  <2> SUFFICES ASSUME CalendarTypes, NEW id \in Bonds, day < held[id].maturity,
                      held[id].period > 0 \/ held[id].schedule # {}
               PROVE  LET payments == YieldCashflows(held[id], day)
                      IN  /\ \A p \in payments : p.date > day
                          /\ {p.date : p \in {q \in payments : q.principal}} = {held[id].maturity}
                          /\ Cardinality({p \in payments : p.principal}) = 1
    BY DEF PrincipalOnce
  <2> DEFINE bond == held[id]
             payments == YieldCashflows(bond, day)
             paying == {p \in payments : p.principal}
  <2>1. /\ bond.maturity \in Int /\ bond.period \in Nat
        /\ bond.schedule \subseteq Int /\ day \in Int
    BY BondTypes, CalendarAssumption
  <2>2. /\ \A p \in payments : p.date > day
        /\ \E coupon \in BOOLEAN : paying = {Payment(bond.maturity, coupon, TRUE)}
    BY <2>1, PrincipalFor
  <2> HIDE DEF paying
  <2>3. PICK coupon \in BOOLEAN : paying = {Payment(bond.maturity, coupon, TRUE)}
    BY <2>2
  <2>4. Payment(bond.maturity, coupon, TRUE).date = bond.maturity
    BY DEF Payment
  <2>5. {p.date : p \in paying} = {bond.maturity}
    BY <2>3, <2>4, Zenon
  <2>6. Cardinality(paying) = 1
    BY <2>3, FS_Singleton
  <2> QED
    BY <2>2, <2>5, <2>6 DEF paying
<1> QED
  BY <1>1, CalendarTypesHold, PTL

(* The order of the payments.                                              *)
Flows == [bond : Nat, date : Int, kind : {"COUPON", "MATURITY"}]

(* How many of them come before one of them. *)
Earlier(S, flow) == {other \in S : Before(other, flow)}
Rank(S, flow) == Cardinality(Earlier(S, flow))

(* No two different payments are in no order, none is before itself. *)
LEMMA BeforeIsOrder ==
    ASSUME NEW a \in Flows, NEW b \in Flows
    PROVE  /\ ~Before(a, a)
           /\ a = b \/ Before(a, b) \/ Before(b, a)
           /\ ~(Before(a, b) /\ Before(b, a))
<1>1. /\ a.bond \in Nat /\ a.date \in Int /\ a.kind \in {"COUPON", "MATURITY"}
      /\ b.bond \in Nat /\ b.date \in Int /\ b.kind \in {"COUPON", "MATURITY"}
  BY DEF Flows
<1>2. a.bond = b.bond /\ a.date = b.date /\ a.kind = b.kind => a = b
  <2>1. /\ a = [bond |-> a.bond, date |-> a.date, kind |-> a.kind]
        /\ b = [bond |-> b.bond, date |-> b.date, kind |-> b.kind]
    BY DEF Flows
  <2> QED
    BY <2>1, Zenon
<1>3. ~Before(a, a) /\ ~(Before(a, b) /\ Before(b, a))
  BY <1>1 DEF Before
<1>4. (a.bond = b.bond /\ a.date = b.date /\ a.kind = b.kind) \/ Before(a, b) \/ Before(b, a)
  BY <1>1 DEF Before
<1> QED
  BY <1>2, <1>3, <1>4

(* The order is transitive. *)
LEMMA BeforeTransitive ==
    ASSUME NEW a \in Flows, NEW b \in Flows, NEW c \in Flows, Before(a, b), Before(b, c)
    PROVE  Before(a, c)
<1>1. /\ a.bond \in Nat /\ a.date \in Int /\ a.kind \in {"COUPON", "MATURITY"}
      /\ b.bond \in Nat /\ b.date \in Int /\ b.kind \in {"COUPON", "MATURITY"}
      /\ c.bond \in Nat /\ c.date \in Int /\ c.kind \in {"COUPON", "MATURITY"}
  BY DEF Flows
<1> QED
  BY <1>1 DEF Before

(* Ranks follow the order, so no two of them are equal. *)
LEMMA RanksFollow ==
    ASSUME NEW S \in SUBSET Flows, IsFiniteSet(S), NEW a \in S, NEW b \in S
    PROVE  /\ Rank(S, a) \in Nat /\ Rank(S, a) < Cardinality(S)
           /\ Before(a, b) <=> Rank(S, a) < Rank(S, b)
           /\ Rank(S, a) = Rank(S, b) => a = b
<1>1. \A x, y \in S : Rank(S, x) \in Nat /\ (Before(x, y) => Rank(S, x) < Rank(S, y))
  <2> TAKE x, y \in S
  <2>1. Earlier(S, x) \in SUBSET S /\ Earlier(S, y) \in SUBSET S
    BY DEF Earlier
  <2>2. /\ IsFiniteSet(Earlier(S, x)) /\ Rank(S, x) \in Nat
        /\ IsFiniteSet(Earlier(S, y)) /\ Rank(S, y) \in Nat
    BY <2>1, FS_Subset, FS_CardinalityType DEF Rank
  <2>3. ASSUME Before(x, y) PROVE Rank(S, x) < Rank(S, y)
    <3>1. Earlier(S, x) \in SUBSET Earlier(S, y)
      BY <2>3, BeforeTransitive DEF Earlier
    <3>2. x \in Earlier(S, y) /\ x \notin Earlier(S, x)
      BY <2>3, BeforeIsOrder DEF Earlier
    <3>3. Rank(S, x) <= Rank(S, y) /\ Rank(S, x) # Rank(S, y)
      BY <2>2, <3>1, <3>2, FS_Subset DEF Rank
    <3> QED
      BY <2>2, <3>3
  <2> QED
    BY <2>2, <2>3
<1>2. Rank(S, a) < Cardinality(S)
  <2>1. Earlier(S, a) \in SUBSET S /\ a \notin Earlier(S, a)
    BY BeforeIsOrder DEF Earlier
  <2>2. Rank(S, a) <= Cardinality(S) /\ Rank(S, a) # Cardinality(S) /\ Cardinality(S) \in Nat
    BY <2>1, FS_Subset, FS_CardinalityType DEF Rank
  <2> QED
    BY <1>1, <2>2
<1>3. a = b \/ Before(a, b) \/ Before(b, a)
  BY BeforeIsOrder
<1>4. /\ Rank(S, a) \in Nat /\ Rank(S, b) \in Nat
      /\ Before(a, b) => Rank(S, a) < Rank(S, b)
      /\ Before(b, a) => Rank(S, b) < Rank(S, a)
  BY <1>1
<1> QED
  BY <1>2, <1>3, <1>4

(* A payment after all others takes the last rank and leaves theirs alone. *)
LEMMA LastRank ==
    ASSUME NEW S \in SUBSET Flows, IsFiniteSet(S), NEW x \in Flows, \A y \in S : Before(y, x)
    PROVE  /\ x \notin S /\ Cardinality(S \cup {x}) = Cardinality(S) + 1
           /\ Rank(S \cup {x}, x) = Cardinality(S)
           /\ \A y \in S : Rank(S \cup {x}, y) = Rank(S, y)
<1>1. x \notin S
  BY BeforeIsOrder
<1>2. Cardinality(S \cup {x}) = Cardinality(S) + 1
  BY <1>1, FS_AddElement
<1>3. Earlier(S \cup {x}, x) = S
  BY BeforeIsOrder DEF Earlier
<1>4. \A y \in S : Earlier(S \cup {x}, y) = Earlier(S, y)
  BY BeforeIsOrder DEF Earlier
<1> QED
  BY <1>1, <1>2, <1>3, <1>4 DEF Rank

(* A set of payments that is not empty has a last one. *)
LEMMA LastPayment ==
    ASSUME NEW S \in SUBSET Flows, IsFiniteSet(S), S # {}
    PROVE  \E x \in S : \A y \in S \ {x} : Before(y, x)
<1> DEFINE Left(x) == Cardinality(S) - Rank(S, x)
           B == {n \in Nat : \E x \in S : n = Left(x)}
<1>1. \A x \in S : Left(x) \in Nat /\ Rank(S, x) \in Nat
  <2> TAKE x \in S
  <2>1. Rank(S, x) \in Nat /\ Rank(S, x) < Cardinality(S) /\ Cardinality(S) \in Nat
    BY RanksFollow, FS_CardinalityType
  <2> QED
    BY <2>1
<1>2. B \subseteq Nat /\ B # {}
  BY <1>1
<1>3. PICK n \in B : \A m \in B : n <= m
  <2> HIDE DEF B
  <2> QED
    BY <1>2, LeastNatural
<1>4. PICK x \in S : n = Left(x)
  OBVIOUS
<1>5. ASSUME NEW y \in S \ {x} PROVE Before(y, x)
  <2>1. Left(x) <= Left(y)
    BY <1>1, <1>3, <1>4
  <2>2. Rank(S, y) <= Rank(S, x) /\ Rank(S, y) # Rank(S, x)
    <3>1. Rank(S, x) \in Nat /\ Rank(S, y) \in Nat /\ Cardinality(S) \in Nat
      BY <1>1, FS_CardinalityType
    <3>2. Rank(S, y) # Rank(S, x)
      BY RanksFollow
    <3> QED
      BY <2>1, <3>1, <3>2
  <2>3. Rank(S, y) < Rank(S, x)
    BY <1>1, <2>2
  <2> QED
    BY <2>3, RanksFollow
<1> QED
  BY <1>5

(* Every rank below the number of payments is taken. *)
LEMMA RanksTaken ==
    ASSUME NEW S \in SUBSET Flows, IsFiniteSet(S)
    PROVE  \A i \in 0..(Cardinality(S) - 1) : \E x \in S : Rank(S, x) = i
<1> DEFINE Full(T) == \A i \in 0..(Cardinality(T) - 1) : \E x \in T : Rank(T, x) = i
           Bad == {n \in Nat : \E T \in SUBSET S : Cardinality(T) = n /\ ~Full(T)}
<1>1. \A T \in SUBSET S : T \in SUBSET Flows /\ IsFiniteSet(T) /\ Cardinality(T) \in Nat
  BY FS_Subset, FS_CardinalityType
<1> HIDE DEF Full
<1>2. ASSUME Bad # {} PROVE FALSE
  <2>1. PICK n \in Bad : \A m \in Bad : n <= m
    <3>1. Bad \subseteq Nat
      OBVIOUS
    <3> HIDE DEF Bad
    <3> QED
      BY <1>2, <3>1, LeastNatural
  <2>2. PICK T \in SUBSET S : Cardinality(T) = n /\ ~Full(T)
    OBVIOUS
  <2>3. T # {}
    <3> SUFFICES ASSUME T = {} PROVE FALSE
      OBVIOUS
    <3>1. Cardinality(T) = 0
      BY FS_EmptySet
    <3>2. 0..(Cardinality(T) - 1) = {}
      BY <3>1
    <3> QED
      BY <2>2, <3>2 DEF Full
  <2>4. PICK x \in T : \A y \in T \ {x} : Before(y, x)
    BY <1>1, <2>3, LastPayment
  <2> DEFINE U == T \ {x}
  <2>5. U \in SUBSET S /\ IsFiniteSet(U) /\ U \in SUBSET Flows /\ T = U \cup {x} /\ x \in Flows
    BY <1>1
  <2> HIDE DEF U
  <2>6. /\ Cardinality(T) = Cardinality(U) + 1 /\ Rank(T, x) = Cardinality(U)
        /\ \A y \in U : Rank(T, y) = Rank(U, y)
    BY <2>4, <2>5, LastRank DEF U
  <2>7. Full(U)
    <3>1. Cardinality(U) \in Nat /\ n \in Nat /\ ~(n <= Cardinality(U))
      BY <1>1, <2>2, <2>5, <2>6
    <3>2. Cardinality(U) \notin Bad
      <4> HIDE DEF Bad
      <4> QED
        BY <2>1, <3>1
    <3> QED
      BY <2>5, <3>1, <3>2
  <2>8. Full(T)
    <3> SUFFICES ASSUME NEW i \in 0..(Cardinality(T) - 1) PROVE \E y \in T : Rank(T, y) = i
      BY DEF Full
    <3>1. Cardinality(U) \in Nat
      BY <1>1, <2>5
    <3>2. CASE i = Cardinality(U)
      BY <2>6, <3>2
    <3>3. CASE i # Cardinality(U)
      <4>1. i \in 0..(Cardinality(U) - 1)
        BY <2>6, <3>1, <3>3
      <4>2. PICK y \in U : Rank(U, y) = i
        BY <2>7, <4>1 DEF Full
      <4> QED
        BY <2>5, <2>6, <4>2
    <3> QED
      BY <3>2, <3>3
  <2> QED
    BY <2>2, <2>8
<1>3. Full(S)
  <2>1. Cardinality(S) \in Nat /\ Cardinality(S) \notin Bad
    BY <1>1, <1>2
  <2> QED
    BY <2>1
<1> QED
  BY <1>3 DEF Full

(* The list of a set of payments. *)
LEMMA InOrderIs ==
    ASSUME NEW S \in SUBSET Flows, IsFiniteSet(S)
    PROVE  /\ InOrder(S) \in Seq(Flows) /\ Len(InOrder(S)) = Cardinality(S)
           /\ \A i \in 1..Cardinality(S) : InOrder(S)[i] \in S /\ Rank(S, InOrder(S)[i]) = i - 1
<1>1. Cardinality(S) \in Nat
  BY FS_CardinalityType
<1>2. InOrder(S) = [i \in 1..Cardinality(S) |-> CHOOSE flow \in S : Rank(S, flow) = i - 1]
  BY DEF InOrder, Rank, Earlier
<1>3. ASSUME NEW i \in 1..Cardinality(S)
      PROVE  InOrder(S)[i] \in S /\ Rank(S, InOrder(S)[i]) = i - 1
  <2>1. i - 1 \in 0..(Cardinality(S) - 1)
    BY <1>1
  <2>2. \E flow \in S : Rank(S, flow) = i - 1
    BY <2>1, RanksTaken
  <2>3. InOrder(S)[i] = CHOOSE flow \in S : Rank(S, flow) = i - 1
    BY <1>2
  <2> QED
    BY <2>2, <2>3
<1>4. DOMAIN InOrder(S) = 1..Cardinality(S) /\ InOrder(S) = [i \in 1..Cardinality(S) |-> InOrder(S)[i]]
  BY <1>2
<1>5. \A i \in 1..Cardinality(S) : InOrder(S)[i] \in Flows
  BY <1>3
<1> DEFINE L == InOrder(S)
           n == Cardinality(S)
<1> HIDE DEF L, n
<1>6. L = [i \in 1..n |-> L[i]] /\ (\A i \in 1..n : L[i] \in Flows) /\ n \in Nat
  BY <1>1, <1>4, <1>5 DEF L, n
<1>7. L \in Seq(Flows) /\ Len(L) = n
  BY <1>6
<1> QED
  BY <1>3, <1>7 DEF L, n

(* A payment after all others stands at the end of the list. *)
LEMMA OrderedLast ==
    ASSUME NEW S \in SUBSET Flows, IsFiniteSet(S), NEW x \in Flows, \A y \in S : Before(y, x)
    PROVE  InOrder(S \cup {x}) = Append(InOrder(S), x)
<1> DEFINE T == S \cup {x}
           n == Cardinality(S)
           L == InOrder(S)
           M == InOrder(T)
<1>1. /\ T \in SUBSET Flows /\ IsFiniteSet(T) /\ n \in Nat
      /\ x \notin S /\ Cardinality(T) = n + 1
      /\ Rank(T, x) = n /\ \A y \in S : Rank(T, y) = Rank(S, y)
  BY LastRank, FS_AddElement, FS_CardinalityType
<1>2. /\ L \in Seq(Flows) /\ Len(L) = n
      /\ \A i \in 1..n : L[i] \in S /\ Rank(S, L[i]) = i - 1
  BY InOrderIs
<1>3. /\ M \in Seq(Flows) /\ Len(M) = n + 1
      /\ \A i \in 1..(n + 1) : M[i] \in T /\ Rank(T, M[i]) = i - 1
  BY <1>1, InOrderIs
<1>4. \A a, b \in T : Rank(T, a) = Rank(T, b) => a = b
  BY <1>1, RanksFollow
<1>5. S \subseteq T /\ x \in T
  OBVIOUS
<1> HIDE DEF T, n, L, M
<1>6. ASSUME NEW i \in 1..n PROVE M[i] = L[i]
  <2>1. i \in 1..(n + 1)
    BY <1>1
  <2>2. M[i] \in T /\ Rank(T, M[i]) = i - 1 /\ L[i] \in S /\ L[i] \in T /\ Rank(T, L[i]) = i - 1
    BY <1>1, <1>2, <1>3, <1>5, <2>1
  <2> QED
    BY <1>4, <2>2
<1>7. M[n + 1] = x
  <2>1. n + 1 \in 1..(n + 1)
    BY <1>1
  <2>2. M[n + 1] \in T /\ Rank(T, M[n + 1]) = n
    BY <1>1, <1>3, <2>1
  <2> QED
    BY <1>1, <1>4, <1>5, <2>2
<1>8. /\ Append(L, x) \in Seq(Flows) /\ Len(Append(L, x)) = n + 1
      /\ \A i \in 1..n : Append(L, x)[i] = L[i]
      /\ Append(L, x)[n + 1] = x
  BY <1>1, <1>2
<1> DEFINE N == Append(L, x)
<1> HIDE DEF N
<1>9. /\ N \in Seq(Flows) /\ Len(N) = n + 1
      /\ \A i \in 1..(n + 1) : M[i] = N[i]
  BY <1>1, <1>6, <1>7, <1>8 DEF N
<1>10. M = N
  BY <1>3, <1>9
<1> QED
  BY <1>10 DEF N, M, L, T

(* The list of those kept: the list of the set of those kept. *)
Due(S, kinds, end) == {flow \in S : flow.kind \in kinds /\ flow.date <= end}

IsKept(kept, flows, kinds, end) ==
    kept = [i \in 0..Len(flows) |->
              IF i = 0 THEN <<>>
              ELSE IF flows[i].kind \in kinds /\ flows[i].date <= end
                   THEN Append(kept[i - 1], flows[i]) ELSE kept[i - 1]]

(* What Within keeps of a list. *)
LEMMA WithinIsDue ==
    ASSUME NEW S \in SUBSET Flows, IsFiniteSet(S), NEW kinds, NEW end \in Int
    PROVE  Within(InOrder(S), kinds, end) = InOrder(Due(S, kinds, end))
<1> DEFINE L == InOrder(S)
           n == Cardinality(S)
           First(i) == {flow \in Due(S, kinds, end) : Rank(S, flow) < i}
           closed == [i \in 0..n |-> InOrder(First(i))]
           kept == CHOOSE g : IsKept(g, L, kinds, end)
           Wanted(flow) == flow.kind \in kinds /\ flow.date <= end
           Bad == {i \in Nat : i \in 0..n /\ kept[i] # InOrder(First(i))}
<1>1. /\ n \in Nat /\ L \in Seq(Flows) /\ Len(L) = n
      /\ \A i \in 1..n : L[i] \in S /\ Rank(S, L[i]) = i - 1
  BY InOrderIs, FS_CardinalityType
<1>2. \A i : First(i) \in SUBSET Flows /\ IsFiniteSet(First(i))
  BY FS_Subset DEF Due
<1>3. First(0) = {}
  <2>1. \A flow \in S : Rank(S, flow) \in Nat
    BY RanksFollow
  <2> QED
    BY <2>1 DEF Due
<1>4. InOrder({}) = <<>>
  <2> DEFINE E == {}
             M == InOrder(E)
  <2>1. E \in SUBSET Flows /\ IsFiniteSet(E) /\ Cardinality(E) = 0
    BY FS_EmptySet
  <2> HIDE DEF E
  <2>2. M \in Seq(Flows) /\ Len(M) = 0
    BY <2>1, InOrderIs
  <2> HIDE DEF M
  <2>3. M = <<>>
    BY <2>2
  <2> QED
    BY <2>3 DEF M, E
<1>5. ASSUME NEW i \in 1..n
      PROVE  InOrder(First(i)) = IF Wanted(L[i]) THEN Append(InOrder(First(i - 1)), L[i])
                                 ELSE InOrder(First(i - 1))
  <2> DEFINE x == L[i]
  <2>1. x \in S /\ x \in Flows /\ Rank(S, x) = i - 1
    BY <1>1
  <2>2. \A flow \in S : /\ Rank(S, flow) \in Nat
                        /\ Rank(S, flow) = Rank(S, x) => flow = x
                        /\ Rank(S, flow) < Rank(S, x) => Before(flow, x)
    BY <2>1, RanksFollow
  <2> HIDE DEF x
  <2>3. \A flow \in S : Rank(S, flow) < i <=> Rank(S, flow) < i - 1 \/ flow = x
    BY <1>1, <2>1, <2>2
  <2>4. CASE Wanted(x)
    <3>1. First(i) = First(i - 1) \cup {x}
      BY <2>1, <2>3, <2>4 DEF Due
    <3>2. \A flow \in First(i - 1) : Before(flow, x)
      BY <2>1, <2>2 DEF Due
    <3>3. InOrder(First(i - 1) \cup {x}) = Append(InOrder(First(i - 1)), x)
      <4> DEFINE F == First(i - 1)
      <4>1. F \in SUBSET Flows /\ IsFiniteSet(F) /\ \A flow \in F : Before(flow, x)
        BY <1>2, <3>2
      <4> HIDE DEF F
      <4>2. InOrder(F \cup {x}) = Append(InOrder(F), x)
        BY <2>1, <4>1, OrderedLast
      <4> QED
        BY <4>2 DEF F
    <3> QED
      BY <2>4, <3>1, <3>3 DEF x
  <2>5. CASE ~Wanted(x)
    <3>1. First(i) = First(i - 1)
      BY <2>1, <2>3, <2>5 DEF Due
    <3> QED
      BY <2>5, <3>1 DEF x
  <2> QED
    BY <2>4, <2>5
<1> HIDE DEF L, n, First, Wanted
<1>6. IsKept(closed, L, kinds, end)
  <2>1. ASSUME NEW i \in 0..n
        PROVE closed[i] = IF i = 0 THEN <<>>
                          ELSE IF L[i].kind \in kinds /\ L[i].date <= end
                               THEN Append(closed[i - 1], L[i]) ELSE closed[i - 1]
    <3>1. closed[i] = InOrder(First(i))
      OBVIOUS
    <3>2. CASE i = 0
      BY <1>3, <1>4, <3>1, <3>2
    <3>3. CASE i # 0
      <4>1. i \in 1..n /\ i - 1 \in 0..n
        BY <1>1, <3>3
      <4>2. closed[i - 1] = InOrder(First(i - 1))
        BY <4>1
      <4> HIDE DEF closed
      <4>3. InOrder(First(i)) = IF Wanted(L[i]) THEN Append(InOrder(First(i - 1)), L[i])
                                ELSE InOrder(First(i - 1))
        BY <1>5, <4>1
      <4> QED
        BY <3>1, <3>3, <4>2, <4>3 DEF Wanted
    <3> QED
      BY <3>2, <3>3
  <2>2. closed = [i \in 0..n |-> closed[i]] /\ n = Len(L)
    BY <1>1
  <2> HIDE DEF closed
  <2> QED
    BY <2>1, <2>2 DEF IsKept
<1>7. IsKept(kept, L, kinds, end)
  <2> HIDE DEF closed
  <2> QED
    BY <1>6
<1>8. Within(L, kinds, end) = kept[n]
  BY <1>1 DEF Within, IsKept
<1> HIDE DEF kept, closed
<1>9. /\ kept[0] = <<>>
      /\ \A i \in 1..n : kept[i] = IF Wanted(L[i]) THEN Append(kept[i - 1], L[i]) ELSE kept[i - 1]
  <2>1. \A i \in 0..n : kept[i] = IF i = 0 THEN <<>>
                                  ELSE IF Wanted(L[i]) THEN Append(kept[i - 1], L[i]) ELSE kept[i - 1]
    BY <1>1, <1>7 DEF IsKept, Wanted
  <2>2. 0 \in 0..n /\ \A i \in 1..n : i \in 0..n /\ i # 0
    BY <1>1
  <2> QED
    BY <2>1, <2>2
<1>10. ASSUME Bad # {} PROVE FALSE
  <2>1. PICK i \in Bad : \A m \in Bad : i <= m
    <3>1. Bad \subseteq Nat
      OBVIOUS
    <3> HIDE DEF Bad
    <3> QED
      BY <1>10, <3>1, LeastNatural
  <2>2. i \in Nat /\ i \in 0..n /\ kept[i] # InOrder(First(i))
    OBVIOUS
  <2>3. i # 0
    BY <1>3, <1>4, <1>9, <2>2
  <2>4. i \in 1..n /\ i - 1 \in Nat /\ i - 1 \in 0..n /\ ~(i <= i - 1)
    BY <1>1, <2>2, <2>3
  <2>5. i - 1 \notin Bad
    <3> HIDE DEF Bad
    <3> QED
      BY <2>1, <2>4
  <2>6. kept[i - 1] = InOrder(First(i - 1))
    BY <2>4, <2>5
  <2> HIDE DEF Bad
  <2>7. kept[i] = IF Wanted(L[i]) THEN Append(kept[i - 1], L[i]) ELSE kept[i - 1]
    BY <1>9, <2>4
  <2>8. InOrder(First(i)) = IF Wanted(L[i]) THEN Append(InOrder(First(i - 1)), L[i])
                            ELSE InOrder(First(i - 1))
    BY <1>5, <2>4
  <2> QED
    BY <2>2, <2>6, <2>7, <2>8
<1>11. kept[n] = InOrder(First(n))
  <2>1. n \in 0..n
    BY <1>1
  <2> QED
    BY <1>1, <1>10, <2>1
<1>12. First(n) = Due(S, kinds, end)
  <2>1. \A flow \in S : Rank(S, flow) < n
    BY RanksFollow DEF n
  <2> QED
    BY <2>1 DEF First, Due
<1> QED
  BY <1>8, <1>11, <1>12 DEF L

(* The payments of a day are finitely many. *)
AllFlows(today) == UNION {FutureCashflows(id, today) : id \in OpenPositions}

(* They are payments, and a list of them exists. *)
LEMMA FlowsOfDay ==
    ASSUME CalendarAssumption, CalendarTypes, NEW today \in Int
    PROVE  AllFlows(today) \in SUBSET Flows /\ IsFiniteSet(AllFlows(today))
<1>1. ASSUME NEW id \in Bonds
      PROVE  FutureCashflows(id, today) \in SUBSET Flows /\ IsFiniteSet(FutureCashflows(id, today))
  <2> DEFINE bond == held[id]
             dates == FutureCouponDates(bond, today)
             coupons == {Flow(id, date, "COUPON") : date \in dates}
             last == Flow(id, bond.maturity, "MATURITY")
  <2>1. /\ bond.maturity \in Int /\ bond.period \in Nat /\ id \in Nat
    BY BondTypes, CalendarAssumption DEF CalendarAssumption
  <2>2. dates \in SUBSET Int /\ IsFiniteSet(dates)
    <3>1. CASE bond.period > 0
      <4>1. dates \subseteq (today + 1)..bond.maturity
        <5>1. dates = Grid(bond.maturity, today, bond.period)
          BY <2>1, <3>1, FutureDatesAre
        <5> HIDE DEF dates
        <5> QED
          BY <2>1, <5>1 DEF Grid
      <4>2. IsFiniteSet((today + 1)..bond.maturity)
        <5> DEFINE a == today + 1
                   b == bond.maturity
        <5>1. a \in Int /\ b \in Int
          BY <2>1
        <5> HIDE DEF a, b
        <5>2. IsFiniteSet(a..b)
          BY <5>1, FS_Interval
        <5> QED
          BY <5>2 DEF a, b
      <4>3. (today + 1)..bond.maturity \subseteq Int
        OBVIOUS
      <4> HIDE DEF dates
      <4> QED
        BY <4>1, <4>2, <4>3, FS_Subset
    <3>2. CASE bond.period <= 0
      <4>1. dates = {}
        BY <3>2 DEF FutureCouponDates
      <4> HIDE DEF dates
      <4> QED
        BY <4>1, FS_EmptySet
    <3> QED
      BY <2>1, <3>1, <3>2
  <2> HIDE DEF dates
  <2>3. \A date \in Int : Flow(id, date, "COUPON") \in Flows /\ Flow(id, date, "MATURITY") \in Flows
    BY <2>1 DEF Flow, Flows
  <2>4. IsFiniteSet(coupons) /\ IsFiniteSet({last})
    <3> DEFINE f == [date \in dates |-> Flow(id, date, "COUPON")]
    <3>1. f \in Surjection(dates, coupons)
      BY Zenon DEF Surjection
    <3> HIDE DEF f, coupons
    <3> QED
      BY <2>2, <3>1, FS_Surjection, FS_Singleton
  <2>5. coupons \in SUBSET Flows /\ last \in Flows
    BY <2>1, <2>2, <2>3
  <2>6. FutureCashflows(id, today) = {} \/ FutureCashflows(id, today) = coupons \cup {last}
    BY DEF FutureCashflows, dates
  <2> HIDE DEF coupons, last
  <2>7. IsFiniteSet(coupons \cup {last}) /\ coupons \cup {last} \in SUBSET Flows
    BY <2>4, <2>5, FS_Union
  <2> QED
    BY <2>6, <2>7, FS_EmptySet
<1> DEFINE sets == {FutureCashflows(id, today) : id \in OpenPositions}
<1>2. OpenPositions \in SUBSET Bonds /\ IsFiniteSet(OpenPositions)
  <2>1. OpenPositions \in SUBSET Bonds /\ IsFiniteSet(Bonds)
    BY DEF OpenPositions, CalendarAssumption
  <2> QED
    BY <2>1, FS_Subset
<1>3. IsFiniteSet(sets)
  <2> DEFINE f == [id \in OpenPositions |-> FutureCashflows(id, today)]
  <2>1. f \in Surjection(OpenPositions, sets)
    BY Zenon DEF Surjection
  <2> HIDE DEF f, sets
  <2> QED
    BY <1>2, <2>1, FS_Surjection
<1>4. \A T \in sets : T \in SUBSET Flows /\ IsFiniteSet(T)
  BY <1>1, <1>2
<1> HIDE DEF sets
<1>5. IsFiniteSet(UNION sets) /\ UNION sets \in SUBSET Flows
  BY <1>3, <1>4, FS_UNION
<1> QED
  BY <1>5 DEF AllFlows, sets

(* What a reader is given of a summary of a day, and of that day. *)
LEMMA NextOfSummary ==
    ASSUME CalendarAssumption, CalendarTypes, NEW today \in Int, NEW horizon \in Nat, NEW limit \in Nat
    PROVE  NextCoupons(Summary(today), today, horizon, limit) =
             FirstOf(InOrder({flow \in AllFlows(today) :
                                flow.kind = "COUPON" /\ flow.date <= today + horizon}), limit)
<1> DEFINE S == AllFlows(today)
           end == today + horizon
<1>1. Summary(today).flows = InOrder(S)
  BY DEF Summary, Calendar, AllFlows
<1>2. S \in SUBSET Flows /\ IsFiniteSet(S) /\ end \in Int
  BY FlowsOfDay
<1>3. {flow \in S : flow.kind = "COUPON" /\ flow.date <= end} = Due(S, {"COUPON"}, end)
  BY DEF Due
<1> HIDE DEF S, end
<1>4. Within(InOrder(S), {"COUPON"}, end) = InOrder(Due(S, {"COUPON"}, end))
  BY <1>2, WithinIsDue
<1>5. NextCoupons(Summary(today), today, horizon, limit) = FirstOf(Within(InOrder(S), {"COUPON"}, end), limit)
  BY <1>1, Zenon DEF NextCoupons, end
<1> QED
  BY <1>3, <1>4, <1>5 DEF S, end

(* What is cached is the summary of a day. *)
CalendarInv ==
    /\ CalendarTypes
    /\ cached = Empty \/ \E today \in Nat : cached = Summary(today)
    /\ NextCouponsComplete

(* A summary answers on its day with the first coupons that are due. *)
LEMMA AnswerIsComplete ==
    ASSUME CalendarAssumption, CalendarTypes, NEW today \in Nat, NEW base \in Nat,
           NEW horizon \in Nat, NEW limit \in Nat, NEW flowsHorizon, NEW flowsLimit,
           answer' = Answered(Summary(today), base, horizon, limit, flowsHorizon, flowsLimit),
           held' = held
    PROVE  NextCouponsComplete'
<1>1. /\ answer'.computed = today /\ answer'.day = base
      /\ answer'.horizon = horizon /\ answer'.limit = limit
      /\ answer'.next = NextCoupons(Summary(today), base, horizon, limit)
  <2>1. Summary(today).day = today
    BY DEF Summary
  <2> QED
    BY <2>1, Zenon DEF Answered
<1>2. ASSUME today = base
      PROVE  answer'.next = FirstOf(InOrder({flow \in AllFlows(base) :
                               flow.kind = "COUPON" /\ flow.date <= base + horizon}), limit)
  BY <1>1, <1>2, NextOfSummary
<1>3. AllFlows(base)' = AllFlows(base)
  BY DEF AllFlows, OpenPositions, FutureCashflows
<1> QED
  BY <1>1, <1>2 DEF NextCouponsComplete, AllFlows, OpenPositions, FutureCashflows

(* Every step keeps it. *)
LEMMA CalendarStep ==
    ASSUME CalendarAssumption, CalendarInv, [CalendarNext]_calendarVars
    PROVE  CalendarInv'
<1> USE DEF CalendarInv
<1>1. CalendarTypes' /\ held' = held
  <2>1. held' = held /\ day' \in {day, day + 1}
    BY DEF CalendarNext, NextDay, Recalculate, Ask, AskAbout, calendarVars
  <2> QED
    BY <2>1 DEF CalendarTypes
<1>2. \A today : Summary(today)' = Summary(today)
  BY <1>1 DEF Summary, Calendar, OpenPositions, FutureCashflows
<1>3. ASSUME cached' = Empty \/ \E today \in Nat : cached' = Summary(today)
      PROVE  (cached = Empty \/ \E today \in Nat : cached = Summary(today))'
  BY <1>1, <1>3 DEF Summary, Calendar, OpenPositions, FutureCashflows, Empty
<1>4. ASSUME answer' = Empty PROVE NextCouponsComplete'
  BY <1>4 DEF NextCouponsComplete, Empty
<1>5. day \in Nat
  BY DEF CalendarTypes
<1>6. CASE NextDay
  <2>1. cached' = cached /\ answer' = Empty
    BY <1>6 DEF NextDay
  <2> QED
    BY <1>1, <1>3, <1>4, <2>1
<1>7. CASE Recalculate
  <2>1. cached' = Summary(day) /\ answer' = Empty
    BY <1>7 DEF Recalculate
  <2> QED
    BY <1>1, <1>3, <1>4, <1>5, <2>1
<1>8. ASSUME NEW horizon \in Horizons, NEW flowsHorizon \in Horizons,
             NEW limit \in Limits, NEW flowsLimit \in Limits,
             Ask(horizon, limit, flowsHorizon, flowsLimit)
      PROVE  CalendarInv'
  <2>1. PICK today \in Nat : Serving = Summary(today)
    BY <1>5 DEF Serving
  <2>2. cached' = Summary(today) /\ answer' = Answered(Summary(today), day, horizon, limit, flowsHorizon, flowsLimit)
    BY <1>8, <2>1 DEF Ask
  <2>3. horizon \in Nat /\ limit \in Nat
    BY DEF CalendarAssumption
  <2>4. NextCouponsComplete'
    BY <1>1, <1>5, <2>2, <2>3, AnswerIsComplete
  <2>5. (cached = Empty \/ \E d \in Nat : cached = Summary(d))'
    BY <1>3, <2>2
  <2> QED
    BY <1>1, <2>4, <2>5
<1>9. ASSUME NEW date \in 0..LastDay, NEW horizon \in Horizons, NEW limit \in Limits,
             AskAbout(date, horizon, limit)
      PROVE  CalendarInv'
  <2>1. answer' = Answered(Summary(date), date, horizon, limit, horizon, limit) /\ cached' = cached
    BY <1>9 DEF AskAbout
  <2>2. horizon \in Nat /\ limit \in Nat /\ date \in Nat
    BY DEF CalendarAssumption
  <2>3. NextCouponsComplete'
    BY <1>1, <2>1, <2>2, AnswerIsComplete
  <2> QED
    BY <1>1, <1>3, <2>1, <2>3
<1>10. CASE UNCHANGED calendarVars
  <2>1. cached' = cached /\ answer' = answer
    BY <1>10 DEF calendarVars
  <2>2. NextCouponsComplete'
    BY <1>1, <2>1 DEF NextCouponsComplete, OpenPositions, FutureCashflows
  <2> QED
    BY <1>1, <1>3, <2>1, <2>2
<1> QED
  BY <1>6, <1>7, <1>8, <1>9, <1>10 DEF CalendarNext

(* CalendarInv is an invariant: whatever is cached is the summary of some  *)
(* day, and whoever was served on that day was served in full.             *)
THEOREM SummariesHold == CalendarSpec => []CalendarInv
<1>1. CalendarInit => CalendarInv
  BY DEF CalendarInit, Unread, CalendarInv, CalendarTypes, NextCouponsComplete
<1>2. CalendarInv /\ [CalendarNext]_calendarVars => CalendarInv'
  BY CalendarStep, CalendarAssumption
<1> QED
  BY <1>1, <1>2, PTL DEF CalendarSpec

(* A summary read on the day it was computed names the first coupons due   *)
(* within the horizon of its reader, whatever others asked for before.     *)
THEOREM NextAreComplete == CalendarSpec => []NextCouponsComplete
<1>1. CalendarInv => NextCouponsComplete
  BY DEF CalendarInv
<1> QED
  BY <1>1, SummariesHold, PTL
=============================================================================
