------------------------------ MODULE Calendar ------------------------------
(***************************************************************************)
(* What a portfolio summary says about dates, and what a reader is told    *)
(* from a cached one: coupon grids stepped back from the maturity date,    *)
(* accrued coupons, the payments that a yield is computed from, and the    *)
(* sections rebuilt for the caller's horizon and limit.  Days are numbers; *)
(* amounts are left out but for who pays the principal.                    *)
(***************************************************************************)
EXTENDS Integers, Sequences, FiniteSets

CONSTANTS
    Bonds,          \* ids, numbers: payments of one day are listed by id
    Maturities, Periods,
    Schedules,      \* sets of days a provider may have stored as coupon dates
    Horizons, Limits,
    MinDate,        \* _MIN_COUPON_DATE
    LastDay         \* bound: the last day on which anything happens

ASSUME CalendarAssumption ==
    /\ Bonds \subseteq Nat /\ IsFiniteSet(Bonds) /\ Maturities \subseteq Int /\ Periods \subseteq Nat
    /\ Schedules \subseteq SUBSET Int /\ Horizons \subseteq Nat /\ Limits \subseteq Nat
    /\ MinDate \in Int /\ LastDay \in Nat

VARIABLES
    held,       \* the bonds of the user's transactions, open positions or not
    day,        \* date.today()
    cached,     \* the entry of _summary_cache
    answer      \* what the last reader was given

calendarVars == <<held, day, cached, answer>>

Bond == [maturity : Maturities, period : Periods, schedule : Schedules, quantity : {0, 1}]

Empty == [day |-> -1]

Unread == day = 0 /\ cached = Empty /\ answer = Empty

CalendarInit == held \in [Bonds -> Bond] /\ Unread

-----------------------------------------------------------------------------
(* The grids.                                                              *)
FutureCouponDates(bond, today) ==
    LET dates[current \in Int] ==
            IF current > today THEN {current} \cup dates[current - bond.period] ELSE {}
    IN  IF bond.period <= 0 THEN {} ELSE dates[bond.maturity]

NoDate == MinDate - 1

(* Fault: a coupon paid today counts as the last one. *)
LastCouponDateOrToday(bond, today) ==
    LET last[current \in Int] ==
            IF current <= today THEN current
            ELSE IF current - bond.period < MinDate THEN NoDate ELSE last[current - bond.period]
    IN  IF bond.period <= 0 THEN NoDate ELSE last[bond.maturity]

LastCouponDate(bond, today) ==
    LET last[current \in Int] ==
            IF current < today THEN current
            ELSE IF current - bond.period < MinDate THEN NoDate ELSE last[current - bond.period]
    IN  IF bond.period <= 0 THEN NoDate ELSE last[bond.maturity]

(* calculate_accrued_coupon, in days of the period's coupon. *)
AccruedDays(bond, today) ==
    LET since == today - LastCouponDate(bond, today) IN
    IF LastCouponDate(bond, today) = NoDate \/ since < 0 THEN 0
    ELSE IF since >= bond.period THEN bond.period ELSE since

(* build_coupon_schedule: a first coupon, then the grid after it. *)
CouponSchedule(bond, first) ==
    LET grid[current \in Int] ==
            IF current > first /\ current >= MinDate
            THEN {current} \cup grid[current - bond.period] ELSE {}
    IN  IF bond.period = 0 THEN {bond.maturity}
        ELSE {first, bond.maturity} \cup grid[bond.maturity - bond.period]

-----------------------------------------------------------------------------
(* The payments a yield is computed from.                                  *)
Payment(date, coupon, principal) == [date |-> date, coupon |-> coupon, principal |-> principal]

(* Fault: the synthetic maturity payment is added to every schedule. *)
PositionCashflowsAppending(bond) ==
    {Payment(date, TRUE, date = bond.maturity) : date \in bond.schedule}
        \cup {Payment(bond.maturity, FALSE, TRUE)}

(* _bond_position_cashflows *)
PositionCashflows(bond) ==
    {Payment(date, TRUE, date = bond.maturity) : date \in bond.schedule}
        \cup (IF bond.maturity \in bond.schedule THEN {} ELSE {Payment(bond.maturity, FALSE, TRUE)})

(* _cash_flows *)
YieldCashflows(bond, today) ==
    IF bond.schedule # {} THEN {p \in PositionCashflows(bond) : p.date > today}
    ELSE {Payment(date, TRUE, date = bond.maturity) : date \in FutureCouponDates(bond, today)}

-----------------------------------------------------------------------------
(* The summary and what a reader is given of it.                           *)
Flow(id, date, kind) == [bond |-> id, date |-> date, kind |-> kind]

(* _future_bond_cashflows: by the grid, whatever schedule is stored. *)
FutureCashflows(id, today) ==
    LET bond == held[id] IN
    IF bond.maturity <= today THEN {}
    ELSE {Flow(id, date, "COUPON") : date \in FutureCouponDates(bond, today)}
            \cup {Flow(id, bond.maturity, "MATURITY")}

(* By date, then bond; a bond's last coupon stands before its principal. *)
Before(a, b) ==
    \/ a.date < b.date
    \/ a.date = b.date /\ (a.bond < b.bond \/ (a.bond = b.bond /\ a.kind = "COUPON" /\ b.kind # "COUPON"))

InOrder(flows) ==
    [i \in 1..Cardinality(flows) |->
        CHOOSE flow \in flows : Cardinality({other \in flows : Before(other, flow)}) = i - 1]

OpenPositions == {id \in Bonds : held[id].quantity > 0}

Calendar(today) == InOrder(UNION {FutureCashflows(id, today) : id \in OpenPositions})

NextCouponDate(bond, today) ==
    LET dates == FutureCouponDates(bond, today) IN
    IF bond.maturity <= today \/ dates = {} THEN NoDate
    ELSE CHOOSE date \in dates : \A other \in dates : date <= other

(* _compute_summary *)
Summary(today) ==
    [day |-> today,
     positions |-> [id \in OpenPositions |-> NextCouponDate(held[id], today)],
     flows |-> Calendar(today)]

FirstOf(flows, limit) == SubSeq(flows, 1, IF limit < Len(flows) THEN limit ELSE Len(flows))

(* The flows of some kinds up to a day, in the order of the list. *)
Within(flows, kinds, end) ==
    LET kept[i \in 0..Len(flows)] ==
            IF i = 0 THEN <<>>
            ELSE IF flows[i].kind \in kinds /\ flows[i].date <= end
                 THEN Append(kept[i - 1], flows[i]) ELSE kept[i - 1]
    IN  kept[Len(flows)]

NextCoupons(summary, base, horizon, limit) ==
    FirstOf(Within(summary.flows, {"COUPON"}, base + horizon), limit)

Cashflows(summary, base, horizon, limit) ==
    FirstOf(Within(summary.flows, {"COUPON", "MATURITY"}, base + horizon), limit)

(* Fault: the cash flows are cut first, and the coupons taken from them. *)
AnsweredFromCut(summary, base, horizon, limit, flowsHorizon, flowsLimit) ==
    LET cut == Cashflows(summary, base, flowsHorizon, flowsLimit) IN
    [day |-> base, computed |-> summary.day, positions |-> summary.positions,
     horizon |-> horizon, limit |-> limit,
     next |-> NextCoupons([summary EXCEPT !.flows = cut], base, horizon, limit),
     flows |-> cut]

Answered(summary, base, horizon, limit, flowsHorizon, flowsLimit) ==
    [day |-> base, computed |-> summary.day, positions |-> summary.positions,
     horizon |-> horizon, limit |-> limit,
     next |-> NextCoupons(summary, base, horizon, limit),
     flows |-> Cashflows(summary, base, flowsHorizon, flowsLimit)]

-----------------------------------------------------------------------------
(* Midnight. *)
NextDay ==
    /\ day < LastDay
    /\ day' = day + 1 /\ answer' = Empty
    /\ UNCHANGED <<held, cached>>

(* recalculate, on an event *)
Recalculate ==
    /\ cached' = Summary(day) /\ answer' = Empty
    /\ UNCHANGED <<held, day>>

Serving == IF cached = Empty THEN Summary(day) ELSE cached

(* get_portfolio_summary without a date: a miss fills the cache. *)
Ask(horizon, limit, flowsHorizon, flowsLimit) ==
    /\ answer' = Answered(Serving, day, horizon, limit, flowsHorizon, flowsLimit)
    /\ cached' = Serving
    /\ UNCHANGED <<held, day>>

(* With a date, or for one account: computed for the caller, not cached. *)
AskAbout(date, horizon, limit) ==
    /\ answer' = Answered(Summary(date), date, horizon, limit, horizon, limit)
    /\ UNCHANGED <<held, day, cached>>

CalendarNext ==
    \/ NextDay
    \/ Recalculate
    \/ \E horizon, flowsHorizon \in Horizons, limit, flowsLimit \in Limits :
          Ask(horizon, limit, flowsHorizon, flowsLimit)
    \/ \E date \in 0..LastDay, horizon \in Horizons, limit \in Limits :
          AskAbout(date, horizon, limit)

CalendarSpec == CalendarInit /\ [][CalendarNext]_calendarVars

-----------------------------------------------------------------------------
(* The two grids of an unmatured bond fit together: today lies between the *)
(* last coupon and the next, a period apart, or two when a coupon is paid  *)
(* today; and what has accrued is never more than a full coupon, which it  *)
(* is on the day the coupon is paid.                                       *)
GridsMeet ==
    \A id \in Bonds :
        LET bond == held[id]
            last == LastCouponDate(bond, day)
            next == NextCouponDate(bond, day)
            paidToday == (bond.maturity - day) % bond.period = 0
        IN  bond.period > 0 /\ day < bond.maturity /\ last # NoDate =>
                /\ last < day /\ day < next
                /\ next - last = IF paidToday THEN 2 * bond.period ELSE bond.period
                /\ AccruedDays(bond, day) = IF paidToday THEN bond.period ELSE day - last
                /\ FutureCouponDates(bond, day)
                     = CouponSchedule(bond, last) \ {last, IF paidToday THEN day ELSE last}

(* Every future payment the yield of an unmatured bond is computed from    *)
(* lies ahead, and the principal is among them exactly once, at maturity,  *)
(* whether or not a schedule is stored and whatever dates it holds.        *)
PrincipalOnce ==
    \A id \in Bonds :
        LET bond == held[id]
            payments == YieldCashflows(bond, day)
        IN  day < bond.maturity /\ (bond.period > 0 \/ bond.schedule # {}) =>
                /\ \A p \in payments : p.date > day
                /\ {p.date : p \in {q \in payments : q.principal}} = {bond.maturity}
                /\ Cardinality({p \in payments : p.principal}) = 1

(* A summary read on the day it was computed names the first coupons of    *)
(* the open positions within the horizon, whatever the cash-flow section   *)
(* of this or an earlier reader was cut to.                                *)
NextCouponsComplete ==
    answer # Empty /\ answer.computed = answer.day =>
        LET due == {flow \in UNION {FutureCashflows(id, answer.day) : id \in OpenPositions} :
                        flow.kind = "COUPON" /\ flow.date <= answer.day + answer.horizon}
        IN  answer.next = FirstOf(InOrder(due), answer.limit)

(* Every coupon a reader is told to be next is still to come.              *)
NextCouponsAhead ==
    answer # Empty => \A i \in DOMAIN answer.next : answer.next[i].date > answer.day
=============================================================================
