--------------------------- MODULE MCCalculations ---------------------------
(* The calculations and the data they rest on, one after the other: `part` *)
(* says which of them a behaviour is about, the others rest.               *)
EXTENDS Netting, Solver, Calendar, SearchCache, CouponJobs

VARIABLE part

calculationVars == <<part, walkVars, solve, calendarVars, searchVars, couponVars>>

Floor == -4

SomeSchedules == {{}, {1, 4}, {2, 3, 5}}

SomeLists == {<<>>, <<1, 3>>, <<1, 2, 3>>, <<2, 3>>, <<1, 2, 3, 4>>}

(* Where a part rests that the behaviour is not about. *)
AnyRequest == CHOOSE request \in Requests : TRUE
AnyBond == CHOOSE bond \in Bond : TRUE

CalculationsInit ==
    /\ part \in {"netting", "solver", "calendar", "search", "coupons"}
    /\ NettingInit /\ SearchInit
    /\ IF part = "solver" THEN SolverInit ELSE solve = Called(AnyRequest)
    /\ IF part = "calendar" THEN CalendarInit ELSE held = [b \in Bonds |-> AnyBond] /\ Unread
    /\ IF part = "coupons" THEN CouponInit ELSE listed = <<>> /\ database = "sqlite" /\ NothingStored

CalculationsNext ==
    /\ UNCHANGED part
    /\ \/ /\ part = "netting" /\ NettingNext
          /\ UNCHANGED <<solve, calendarVars, searchVars, couponVars>>
       \/ /\ part = "solver" /\ SolverNext
          /\ UNCHANGED <<walkVars, calendarVars, searchVars, couponVars>>
       \/ /\ part = "calendar" /\ CalendarNext
          /\ UNCHANGED <<walkVars, solve, searchVars, couponVars>>
       \/ /\ part = "search" /\ SearchNext
          /\ UNCHANGED <<walkVars, solve, calendarVars, couponVars>>
       \/ /\ part = "coupons" /\ CouponNext
          /\ UNCHANGED <<walkVars, solve, calendarVars, searchVars>>

CalculationsSpec == CalculationsInit /\ [][CalculationsNext]_calculationVars
=============================================================================
