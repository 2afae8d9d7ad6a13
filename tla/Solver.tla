------------------------------- MODULE Solver -------------------------------
(***************************************************************************)
(* calculate_ytm: validation, the closed form, Newton-Raphson and the      *)
(* bisection it falls back to.  Rates are the points 0..Width of a grid    *)
(* over the bracket [-0.5, 2.0]; the pricing function is known by its      *)
(* levels: an amount within the tolerance is -1, 0 (exactly zero) or 1,    *)
(* any other is -2 or 2.  It is any function that falls as the rate rises, *)
(* but for coupons 730 days apart or more: their factor                    *)
(* 1 + r / periods_per_year is zero or negative at the low rates.          *)
(***************************************************************************)
EXTENDS Integers

CONSTANTS
    Width,              \* grid point of 2.0, 0 being -0.5
    NewtonMax,          \* grid point of 1.0, the highest rate Newton may visit
    Pole,               \* highest point where the factor of a long period is not positive
    MaxIterations,      \* bound: Newton's iterations (100 in the code)
    Prices, Nominals    \* what a caller may pass, invalid values included

ASSUME SolverAssumption ==
    /\ Width \in Nat \ {0} /\ NewtonMax \in 0..Width /\ MaxIterations \in Nat
    /\ Pole \in 0..NewtonMax
    /\ Prices \subseteq Int /\ Nominals \subseteq Int

VARIABLE solve

Rates == 0..Width
Levels == -2..2
Tolerated(level) == level \in -1..1

(* period: 1 stands for up to 729 days, 2 for 730 or more; days: 1 for a   *)
(* maturity within a lifetime, 2 for one centuries away.  Neither has an   *)
(* upper bound.                                                            *)
Requests == [price : Prices, rate : -1..1, period : -1..2, nominal : Nominals,
             days : 0..2, schedule : {"none", "empty", "rows"}]

Long(request) == request.period = 2
Distant(request) == request.days = 2

(* Payments are positive, so a higher rate never makes them worth more     *)
(* while the factor they are discounted by is positive.                    *)
Pricing(request) ==
    LET first == IF Long(request) THEN Pole + 1 ELSE 0
    IN  {f \in [Rates -> Levels] : \A r, s \in first..Width : r <= s => f[r] >= f[s]}

(* Rates where _present_value may raise, or be a complex number: by a      *)
(* factor that is not positive, or a power out of the range of a float.    *)
Undefined(request) ==
    (IF Long(request) THEN 0..Pole ELSE IF Distant(request) THEN {0} ELSE {})
        \cup (IF Distant(request) THEN {Width} ELSE {})

Called(request) ==
    [f |-> [r \in Rates |-> 0], undefined |-> {}, request |-> request, phase |-> "called",
     r |-> 0, low |-> 0, high |-> Width, fLow |-> 0, iterations |-> 0]

SolverInit == \E request \in Requests : solve = Called(request)

Ended(how) == solve' = [solve EXCEPT !.phase = how]
Found(rate) == solve' = [solve EXCEPT !.phase = "rate", !.r = rate]

-----------------------------------------------------------------------------
(* Fault: a bond on its maturity date is let through. *)
InvalidUnlessDated(request) ==
    \/ request.period < 0 \/ request.rate < 0 \/ request.nominal <= 0
    \/ ~(1 <= request.price /\ request.price <= 10 * request.nominal)

(* _validate_inputs *)
Invalid(request) ==
    \/ request.period < 0 \/ request.rate < 0 \/ request.nominal <= 0
    \/ ~(1 <= request.price /\ request.price <= 10 * request.nominal)
    \/ request.days <= 0

(* The closed form: (nominal / price) ** (365 / (days * ppy)) - 1. *)
ZeroCoupon(request) ==
    (request.period = 0 \/ request.rate = 0) /\ request.schedule # "rows"

(* "raised" is any exception but YtmCalculationError. *)
Validate ==
    /\ solve.phase = "called"
    /\ LET request == solve.request IN
        \/ Invalid(request) /\ Ended("YtmCalculationError")
        \/ /\ ~Invalid(request) /\ ZeroCoupon(request)
           /\ \/ request.days # 0 /\ request.price # 0 /\ Ended("closed form")
              (* A division by zero, or a power too large for a float. *)
              \/ /\ request.days = 0 \/ request.price < request.nominal
                 /\ Ended("raised")
        (* 365 / coupon_period_days *)
        \/ ~Invalid(request) /\ ~ZeroCoupon(request) /\ request.period = 0 /\ Ended("raised")
        (* The first guess divides by the years left; then it is clamped. *)
        \/ /\ ~Invalid(request) /\ ~ZeroCoupon(request) /\ request.period # 0
           /\ IF request.days = 0 THEN Ended("raised")
              ELSE \E f \in Pricing(request), undefined \in SUBSET Undefined(request),
                      guess \in 0..NewtonMax :
                      solve' = [solve EXCEPT !.phase = "newton", !.f = f,
                                             !.undefined = undefined, !.r = guess]

(* An iteration of _newton_raphson.  Where the tangent leads is any rate;  *)
(* one outside the range, a flat tangent, no progress or the last          *)
(* iteration leave the rest to the bisection.                              *)
Newton ==
    /\ solve.phase = "newton"
    /\ IF solve.iterations = MaxIterations THEN Ended("bracket")
       ELSE IF solve.r \in solve.undefined THEN Ended("raised")
       ELSE IF Tolerated(solve.f[solve.r]) THEN Found(solve.r)
       ELSE \/ \E next \in 0..NewtonMax \ {solve.r} :
                  solve' = [solve EXCEPT !.r = next, !.iterations = @ + 1]
            \/ Ended("bracket")

(* Fault: an end of the bracket where the price is met exactly is no root. *)
NoSignChangeStrict(fLow, fHigh) == fLow * fHigh >= 0

NoSignChange(fLow, fHigh) == fLow * fHigh > 0

(* _bisect: is there a sign change at all? *)
Bracket ==
    /\ solve.phase = "bracket"
    /\ IF solve.undefined \cap {0, Width} # {} THEN Ended("raised")
       ELSE IF NoSignChange(solve.f[0], solve.f[Width]) THEN Ended("None")
       ELSE solve' = [solve EXCEPT !.phase = "bisect", !.fLow = solve.f[0]]

(* Fault: the half that holds the root is the one dropped. *)
RootBelowSwapped(fLow, fMid) == fLow * fMid > 0

RootBelow(fLow, fMid) == fLow * fMid < 0

Bisect ==
    LET mid == (solve.low + solve.high) \div 2
        fMid == solve.f[mid]
    IN
    /\ solve.phase = "bisect"
    /\ IF mid \in solve.undefined THEN Ended("raised")
       ELSE IF Tolerated(fMid) \/ solve.high - solve.low < 2 THEN Found(mid)
       ELSE solve' = IF RootBelow(solve.fLow, fMid)
                     THEN [solve EXCEPT !.high = mid]
                     ELSE [solve EXCEPT !.low = mid, !.fLow = fMid]

SolverNext == Validate \/ Newton \/ Bracket \/ Bisect

SolverSpec == SolverInit /\ [][SolverNext]_solve

-----------------------------------------------------------------------------
(* What the bisection mistakes: a price met exactly at -0.5, where the     *)
(* product of the signs is zero and the low end moves away from the root,  *)
(* and the pole of a long period, where the price jumps.                   *)
Mistaken == solve.f[0] = 0 \/ Long(solve.request)

(* While it bisects, the price is crossed inside the bracket, which never  *)
(* loses the root it started with.                                         *)
BracketHoldsRoot ==
    solve.phase = "bisect" /\ ~Mistaken =>
        /\ solve.f[solve.low] > 0 /\ solve.f[solve.high] <= 0
        /\ solve.fLow = solve.f[solve.low] /\ solve.low < solve.high

(* A rate that is returned prices the bond within the tolerance, or the    *)
(* price is crossed within one grid step of it.                            *)
ResultIsRoot ==
    solve.phase = "rate" /\ ~Mistaken =>
        \/ Tolerated(solve.f[solve.r])
        \/ /\ solve.r < Width
           /\ solve.f[solve.r] > 0 /\ solve.f[solve.r + 1] <= 0

(* None is the answer only when no rate of the bracket meets the price,    *)
(* coupons 730 days apart or more left aside.                              *)
NoneMeansNoRoot ==
    solve.phase = "None" /\ ~Long(solve.request) => \A r \in Rates : solve.f[r] # 0

(* A request that validation lets through and that is none of these four   *)
(* is answered, with a rate or with None: stored coupons of a bond whose   *)
(* period is zero, a period of 730 days or more, a maturity centuries      *)
(* away, and the closed form of a bond below its nominal.                  *)
OrdinaryRequestsAnswered ==
    solve.phase = "raised" =>
        LET request == solve.request IN
        \/ request.period = 0 /\ request.schedule = "rows"
        \/ Long(request) \/ Distant(request)
        \/ ZeroCoupon(request) /\ request.price < request.nominal
=============================================================================
