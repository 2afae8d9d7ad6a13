---------------------------- MODULE Ledger_proofs ----------------------------
(***************************************************************************)
(* What the sums of the transactions table are, for every finite table.    *)
(* QuantityOf is a fold of the library, whose recursive function takes the *)
(* rows in an order nobody knows.  These lemmas free it of that order: a   *)
(* row that comes or goes changes the position of its pair by what it      *)
(* counts, and no other position.                                          *)
(***************************************************************************)
EXTENDS Ledger, FiniteSetTheorems, TLAPS

(* The fold behind QuantityOf, written as a recursive function. *)
First(s) == CHOOSE x \in s : TRUE
Step(g, s) == IF s = {} THEN 0 ELSE Signed(First(s)) + g[s \ {First(s)}]
IsSum(g, T) == g = [s \in SUBSET T |-> Step(g, s)]
SumOn(T) == CHOOSE g : IsSum(g, T)

(* QuantityOf is that function at the set it is asked for. *)
LEMMA QuantityIsSum == \A S : QuantityOf(S) = SumOn(S)[S]
  BY DEF QuantityOf, MapThenSumSet, MapThenFoldSet, IsSum, SumOn, Step, First

(* Induction over the subsets of a finite set: a set of them that is not   *)
(* empty has a smallest member.                                            *)
LEMMA SmallestSubset ==
  ASSUME NEW S, IsFiniteSet(S), NEW B, B \subseteq SUBSET S, B # {}
  PROVE  \E T \in B : \A U \in B : U \subseteq T => U = T
<1>1. IsWellFoundedOn(StrictSubsetOrdering(S), SUBSET S)
  BY FS_StrictSubsetOrderingWellFounded, FS_FiniteSubsetsOfFinite
<1>2. PICK T \in B : \A U \in B : ~(<<U, T>> \in StrictSubsetOrdering(S))
  BY <1>1, WFMin
<1>. QED
  BY <1>2 DEF StrictSubsetOrdering

(* The row taken first is one of the rows. *)
LEMMA FirstInSet == \A s : s # {} => First(s) \in s
  BY DEF First

(* Two sums agree where both are defined. *)
LEMMA SumsAgree ==
  ASSUME NEW T, IsFiniteSet(T), NEW U \in SUBSET T, NEW g, NEW h, IsSum(g, T), IsSum(h, U)
  PROVE  \A s \in SUBSET U : g[s] = h[s]
<1>. DEFINE Bad == {s \in SUBSET U : g[s] # h[s]}
<1>. SUFFICES ASSUME Bad # {} PROVE FALSE
  OBVIOUS
<1>1. IsFiniteSet(U) /\ Bad \subseteq SUBSET U
  BY FS_Subset
<1>. HIDE DEF Bad
<1>2. PICK s \in Bad : \A t \in Bad : t \subseteq s => t = s
  BY <1>1, SmallestSubset
<1>. USE DEF Bad
<1>3. g[s] = Step(g, s) /\ h[s] = Step(h, s)
  BY DEF IsSum
<1>4. s # {} /\ First(s) \in s
  BY <1>3, FirstInSet DEF Step
<1>5. g[s \ {First(s)}] = h[s \ {First(s)}]
  BY <1>2, <1>4
<1>. QED
  BY <1>2, <1>3, <1>4, <1>5 DEF Step

(* Every finite set has its sum. *)
LEMMA SumExists ==
  ASSUME NEW S, IsFiniteSet(S)
  PROVE  IsSum(SumOn(S), S)
<1>. DEFINE Bad == {T \in SUBSET S : ~IsSum(SumOn(T), T)}
<1>. SUFFICES ASSUME Bad # {} PROVE FALSE
  OBVIOUS
<1>0. Bad \subseteq SUBSET S
  OBVIOUS
<1>. HIDE DEF Bad
<1>1. PICK T \in Bad : \A U \in Bad : U \subseteq T => U = T
  BY <1>0, SmallestSubset
<1>. USE DEF Bad
<1>2. \A U \in SUBSET T : U # T => IsSum(SumOn(U), U) /\ IsFiniteSet(U)
  BY <1>1, FS_Subset
<1>. DEFINE g == [s \in SUBSET T |->
                    IF s = {} THEN 0
                    ELSE Signed(First(s)) + SumOn(s \ {First(s)})[s \ {First(s)}]]
<1>3. ASSUME NEW w \in SUBSET T, w # T PROVE g[w] = SumOn(w)[w]
  <2>1. SumOn(w)[w] = Step(SumOn(w), w)
    BY <1>2, <1>3 DEF IsSum
  <2>2. CASE w = {}
    BY <2>1, <2>2 DEF Step
  <2>3. CASE w # {}
    <3>. DEFINE v == w \ {First(w)}
    <3>1. v \in SUBSET w /\ v # T /\ v \in SUBSET T
      BY <2>3, FirstInSet
    <3>2. SumOn(w)[v] = SumOn(v)[v]
      BY <1>2, <1>3, <3>1, SumsAgree
    <3>. QED
      BY <2>1, <2>3, <3>2 DEF Step
  <2>. QED
    BY <2>2, <2>3
<1>4. ASSUME NEW s \in SUBSET T PROVE g[s] = Step(g, s)
  <2>1. CASE s = {}
    BY <2>1 DEF Step
  <2>2. CASE s # {}
    <3>1. s \ {First(s)} \in SUBSET T /\ s \ {First(s)} # T
      BY <2>2, FirstInSet
    <3>2. g[s \ {First(s)}] = SumOn(s \ {First(s)})[s \ {First(s)}]
      BY <1>3, <3>1
    <3>. HIDE <1>3
    <3>3. g[s] = Signed(First(s)) + SumOn(s \ {First(s)})[s \ {First(s)}]
      BY <2>2
    <3>. QED
      BY <2>2, <3>2, <3>3 DEF Step
  <2>. QED
    BY <2>1, <2>2
<1>5. g = [s \in SUBSET T |-> g[s]]
  OBVIOUS
<1>. HIDE DEF g
<1>6. IsSum(g, T)
  BY <1>4, <1>5 DEF IsSum
<1>7. IsSum(SumOn(T), T)
  BY <1>6 DEF SumOn
<1>. QED
  BY <1>1, <1>7

(* The quantity of a finite set of rows, row by row. *)
LEMMA QuantityStep ==
  ASSUME NEW S, IsFiniteSet(S)
  PROVE  /\ S = {} => QuantityOf(S) = 0
         /\ S # {} => QuantityOf(S) = Signed(First(S)) + QuantityOf(S \ {First(S)})
<1>1. SumOn(S)[S] = Step(SumOn(S), S)
  BY SumExists DEF IsSum
<1>2. SumOn(S)[S \ {First(S)}] = SumOn(S \ {First(S)})[S \ {First(S)}]
  <2>1. IsFiniteSet(S \ {First(S)}) /\ S \ {First(S)} \in SUBSET S
    BY FS_Subset
  <2>. QED
    BY <2>1, SumExists, SumsAgree
<1>. QED
  BY <1>1, <1>2, QuantityIsSum DEF Step

(* A row counts for an integer. *)
LEMMA SignedType == \A r \in Row : Signed(r) \in Int
<1>. SUFFICES ASSUME NEW r \in Row PROVE Signed(r) \in Int
  OBVIOUS
<1>1. r.quantity \in Nat
  BY LedgerAssumption DEF Row
<1>. QED
  BY <1>1 DEF Signed

(* What a finite set of rows adds up to is an integer. *)
LEMMA QuantityType ==
  ASSUME NEW S \in SUBSET Row, IsFiniteSet(S)
  PROVE  QuantityOf(S) \in Int
<1>. DEFINE Bad == {T \in SUBSET S : QuantityOf(T) \notin Int}
<1>. SUFFICES ASSUME Bad # {} PROVE FALSE
  OBVIOUS
<1>0. Bad \subseteq SUBSET S
  OBVIOUS
<1>. HIDE DEF Bad
<1>1. PICK T \in Bad : \A U \in Bad : U \subseteq T => U = T
  BY <1>0, SmallestSubset
<1>. USE DEF Bad
<1>2. IsFiniteSet(T)
  BY <1>1, FS_Subset
<1>3. T # {}
  <2>1. T = {} => QuantityOf(T) = 0
    BY <1>2, QuantityStep
  <2>2. QuantityOf(T) \notin Int
    BY <1>1
  <2>. QED
    BY <2>1, <2>2
<1>4. First(T) \in T
  BY <1>3, FirstInSet
<1>5. QuantityOf(T \ {First(T)}) \in Int
  BY <1>1, <1>4
<1>6. Signed(First(T)) \in Int
  BY <1>4, SignedType
<1>7. QuantityOf(T) = Signed(First(T)) + QuantityOf(T \ {First(T)})
  BY <1>2, <1>3, QuantityStep
<1>. QED
  BY <1>1, <1>5, <1>6, <1>7

(* Whatever row is taken out, the quantity changes by what it counts. *)
LEMMA QuantityWithout ==
  ASSUME NEW S \in SUBSET Row, IsFiniteSet(S), NEW r \in S
  PROVE  QuantityOf(S) = Signed(r) + QuantityOf(S \ {r})
<1>. DEFINE Bad == {T \in SUBSET S : \E x \in T : QuantityOf(T) # Signed(x) + QuantityOf(T \ {x})}
<1>. SUFFICES ASSUME Bad # {} PROVE FALSE
  OBVIOUS
<1>0. Bad \subseteq SUBSET S
  OBVIOUS
<1>. HIDE DEF Bad
<1>1. PICK T \in Bad : \A U \in Bad : U \subseteq T => U = T
  BY <1>0, SmallestSubset
<1>. USE DEF Bad
<1>2. PICK x \in T : QuantityOf(T) # Signed(x) + QuantityOf(T \ {x})
  BY <1>1
<1>. DEFINE y == First(T)
<1>3. IsFiniteSet(T) /\ y \in T
  BY <1>1, <1>2, FS_Subset, FirstInSet
<1>4. QuantityOf(T) = Signed(y) + QuantityOf(T \ {y})
  BY <1>2, <1>3, QuantityStep
<1>. HIDE DEF y
<1>5. x # y
  BY <1>2, <1>4
<1>. DEFINE rest == T \ {x, y}
<1>6. QuantityOf(T \ {y}) = Signed(x) + QuantityOf(rest)
  <2>1. T \ {y} \in SUBSET S /\ T \ {y} \subseteq T /\ T \ {y} # T /\ x \in T \ {y}
    BY <1>1, <1>3, <1>5
  <2>2. T \ {y} \notin Bad
    BY <1>1, <2>1
  <2>3. rest = (T \ {y}) \ {x}
    OBVIOUS
  <2>. QED
    BY <2>1, <2>2, <2>3
<1>7. QuantityOf(T \ {x}) = Signed(y) + QuantityOf(rest)
  <2>1. T \ {x} \in SUBSET S /\ T \ {x} \subseteq T /\ T \ {x} # T /\ y \in T \ {x}
    BY <1>1, <1>3, <1>5
  <2>2. T \ {x} \notin Bad
    BY <1>1, <2>1
  <2>3. rest = (T \ {x}) \ {y}
    OBVIOUS
  <2>. QED
    BY <2>1, <2>2, <2>3
<1>8. Signed(x) \in Int /\ Signed(y) \in Int /\ QuantityOf(rest) \in Int
  <2>1. IsFiniteSet(rest) /\ rest \in SUBSET Row
    BY <1>1, <1>3, FS_Subset
  <2>. QED
    BY <1>1, <1>3, <2>1, SignedType, QuantityType
<1>. HIDE DEF rest
<1>. QED
  BY <1>2, <1>4, <1>6, <1>7, <1>8

(* What a pair adds up to when a row comes or goes. *)
Part(r, bond, account) == IF r.bond = bond /\ r.account = account THEN Signed(r) ELSE 0
Position(S, bond, account) == QuantityOf(Pair(S, bond, account))

(* A position is an integer. *)
LEMMA PositionType ==
  ASSUME NEW S \in SUBSET Row, IsFiniteSet(S), NEW bond, NEW account
  PROVE  Position(S, bond, account) \in Int
<1>1. Pair(S, bond, account) \in SUBSET S
  BY DEF Pair
<1>. QED
  BY <1>1, FS_Subset, QuantityType DEF Position

(* Taking a row away changes the position of its pair, and no other. *)
LEMMA PositionWithout ==
  ASSUME NEW S \in SUBSET Row, IsFiniteSet(S), NEW r \in S, NEW bond, NEW account
  PROVE  Position(S, bond, account) = Part(r, bond, account) + Position(S \ {r}, bond, account)
<1>. DEFINE here == Pair(S, bond, account)
<1>1. here \in SUBSET Row /\ IsFiniteSet(here)
  <2>1. here \in SUBSET S
    BY DEF Pair
  <2>. QED
    BY <2>1, FS_Subset
<1>2. CASE r \in here
  <2>1. Pair(S \ {r}, bond, account) = here \ {r}
    BY DEF Pair
  <2>2. Part(r, bond, account) = Signed(r)
    BY <1>2 DEF Part, Pair
  <2>3. QuantityOf(here) = Signed(r) + QuantityOf(here \ {r})
    BY <1>1, <1>2, QuantityWithout
  <2>. QED
    BY <2>1, <2>2, <2>3 DEF Position
<1>3. CASE r \notin here
  <2>1. Pair(S \ {r}, bond, account) = here
    BY <1>3 DEF Pair
  <2>2. Part(r, bond, account) = 0
    BY <1>3 DEF Part, Pair
  <2>3. QuantityOf(here) \in Int
    BY <1>1, QuantityType
  <2>. QED
    BY <2>1, <2>2, <2>3 DEF Position
<1>. QED
  BY <1>2, <1>3

(* So does putting one there. *)
LEMMA PositionWith ==
  ASSUME NEW S \in SUBSET Row, IsFiniteSet(S), NEW r \in Row, r \notin S, NEW bond, NEW account
  PROVE  Position(S \cup {r}, bond, account) = Part(r, bond, account) + Position(S, bond, account)
<1>1. S \cup {r} \in SUBSET Row /\ IsFiniteSet(S \cup {r}) /\ (S \cup {r}) \ {r} = S
  BY FS_AddElement
<1>. QED
  BY <1>1, PositionWithout

=============================================================================
