----------------------------- MODULE CouponJobs -----------------------------
(***************************************************************************)
(* populate_coupons and its background runs: a bond's schedule is fetched  *)
(* page by page from a provider that may change it meanwhile, and replaces *)
(* the stored one in one transaction, whose DELETE and INSERTs other runs  *)
(* may come between; shutdown() cancels and awaits the runs before the     *)
(* HTTP client is closed.                                                  *)
(***************************************************************************)
EXTENDS Integers, Sequences

CONSTANTS
    Jobs,
    Lists,          \* schedules a provider may have: sequences of coupon dates
    PageSize,       \* rows of a page, whatever offset is asked for
    MaxPages,       \* _BONDIZATION_MAX_PAGES
    MaxChanges      \* bound: how often the provider changes its list

ASSUME CouponJobsAssumption ==
    /\ (\A list \in Lists : list \in Seq(Nat)) /\ PageSize \in Nat \ {0} /\ MaxPages \in Nat \ {0}
    /\ MaxChanges \in Nat

VARIABLES
    listed,         \* the provider's schedule
    changes,        \* how often it has changed
    database,       \* "postgresql" or "sqlite"
    stored,         \* run -> the rows of bond_coupons that it committed
    whole,          \* FALSE once a run has stored less than it should have
    job,            \* the runs of _run_populate_coupons
    down            \* how far the shutdown is, and the runs it awaits

couponVars == <<listed, changes, database, stored, whole, job, down>>
table == <<database, stored, whole>>

Idle == [phase |-> "idle"]

NothingStored ==
    /\ changes = 0
    /\ stored = [j \in Jobs |-> <<>>] /\ whole = TRUE
    /\ job = [j \in Jobs |-> Idle]
    /\ down = [phase |-> "up", awaits |-> {}]

CouponInit ==
    /\ listed \in Lists /\ database \in {"sqlite", "postgresql"}
    /\ NothingStored

Running(j) == job[j].phase \in {"fetching", "writing", "replacing"}

Leaves(j, how) == job' = [job EXCEPT ![j] = [phase |-> how]]

-----------------------------------------------------------------------------
ProviderChanges ==
    /\ changes < MaxChanges
    /\ listed' \in Lists \ {listed} /\ changes' = changes + 1
    /\ UNCHANGED <<table, job, down>>

(* schedule_populate_coupons: `since` and `clean` note what the schedule   *)
(* that is being collected is worth, `found` the runs whose rows the       *)
(* DELETE takes.                                                           *)
Schedule(j) ==
    /\ job[j] = Idle
    /\ job' = [job EXCEPT ![j] = [phase |-> "fetching", got |-> <<>>, offset |-> 0, pages |-> 0,
                                  since |-> changes, clean |-> TRUE, found |-> {}]]
    /\ UNCHANGED <<listed, changes, table, down>>

Page(offset) == SubSeq(listed, offset + 1,
                       IF offset + PageSize < Len(listed) THEN offset + PageSize ELSE Len(listed))

(* Fault: the cursor is taken to advance by full pages from the first one. *)
StopOnePageEarly(page, total, got) == page = <<>> \/ total = 0 \/ Len(got) + 1 >= total

Complete(page, total, got) == page = <<>> \/ total = 0 \/ Len(got) >= total

(* One turn of _fetch_bondization_coupons: the total may be missing.       *)
FetchPage(j) ==
    LET page == Page(job[j].offset)
        got == job[j].got \o page
    IN
    /\ job[j].phase = "fetching" /\ down.phase # "closed"
    /\ \E total \in {Len(listed), 0} :
          LET end == Complete(page, total, got) \/ job[j].pages + 1 >= MaxPages IN
          job' = [job EXCEPT ![j] =
                    [job[j] EXCEPT !.got = got, !.offset = @ + Len(page), !.pages = @ + 1,
                                   !.clean = @ /\ total = Len(listed),
                                   !.phase = IF end THEN "writing" ELSE "fetching"]]
    /\ UNCHANGED <<listed, changes, table, down>>

(* A provider error, a closed client, a database that is locked or fails,  *)
(* a date that is there already: rolled back, and swallowed by the run.    *)
RunFails(j) ==
    /\ Running(j)
    /\ Leaves(j, "done")
    /\ UNCHANGED <<listed, changes, table, down>>

(* An empty schedule is a no-op. *)
NothingListed(j) ==
    /\ job[j].phase = "writing" /\ job[j].got = <<>>
    /\ Leaves(j, "done")
    /\ UNCHANGED <<listed, changes, table, down>>

Deletes(j) ==
    /\ job' = [job EXCEPT ![j].phase = "replacing",
                          ![j].found = {k \in Jobs : stored[k] # <<>>}]
    /\ UNCHANGED <<listed, changes, table, down>>

(* Fault: an empty answer empties the table. *)
DeleteEvenEmpty(j) == job[j].phase = "writing" /\ Deletes(j)

(* The DELETE sees the rows committed when it is sent (READ COMMITTED); on *)
(* SQLite it also begins the one writing transaction there can be.         *)
Delete(j) ==
    /\ job[j].phase = "writing" /\ job[j].got # <<>>
    /\ database = "sqlite" => \A k \in Jobs : job[k].phase # "replacing"
    /\ Deletes(j)

Dates(dates) == {dates[i] : i \in DOMAIN dates}
Repeats(dates) == \E i, k \in DOMAIN dates : i # k /\ dates[i] = dates[k]

(* A bond has no two coupons of one date, the table's unique constraint. *)
Fits(j) ==
    /\ ~Repeats(job[j].got)
    /\ \A k \in Jobs \ job[j].found : Dates(stored[k]) \cap Dates(job[j].got) = {}

(* The provider listed exactly these rows, and nothing changed, no total   *)
(* was missing and the page limit was not met while they were read.        *)
Sure(j) == job[j].clean /\ job[j].since = changes /\ Len(listed) <= PageSize * MaxPages

(* The INSERTs and the commit: rows that were committed since the DELETE   *)
(* stay beside the new ones.                                               *)
Insert(j) ==
    /\ job[j].phase = "replacing" /\ Fits(j)
    /\ stored' = [k \in Jobs |-> IF k = j THEN job[j].got
                                 ELSE IF k \in job[j].found THEN <<>> ELSE stored[k]]
    /\ whole' = (whole /\ (Sure(j) => job[j].got = listed))
    /\ Leaves(j, "done")
    /\ UNCHANGED <<listed, changes, database, down>>

-----------------------------------------------------------------------------
(* shutdown(): what runs now is cancelled and awaited. *)
Shutdown ==
    /\ down.phase = "up"
    /\ down' = [phase |-> "settling", awaits |-> {j \in Jobs : Running(j)}]
    /\ UNCHANGED <<listed, changes, table, job>>

(* A cancelled run leaves at its next await; its transaction, if any, is   *)
(* rolled back, or had been committed already (Insert).                    *)
Cancelled(j) ==
    /\ j \in down.awaits /\ Running(j)
    /\ Leaves(j, "done")
    /\ UNCHANGED <<listed, changes, table, down>>

(* aclose(), once gather has returned. *)
Close ==
    /\ down.phase = "settling" /\ \A j \in down.awaits : ~Running(j)
    /\ down' = [down EXCEPT !.phase = "closed"]
    /\ UNCHANGED <<listed, changes, table, job>>

CouponNext ==
    \/ ProviderChanges \/ Shutdown \/ Close
    \/ \E j \in Jobs :
          \/ Schedule(j) \/ FetchPage(j) \/ RunFails(j) \/ NothingListed(j)
          \/ Delete(j) \/ Insert(j) \/ Cancelled(j)

CouponSpec == CouponInit /\ [][CouponNext]_couponVars

-----------------------------------------------------------------------------
(* What a run stores is all that a provider listed that held still and     *)
(* gave its totals, no page skipped or cut; and on SQLite the table holds  *)
(* the rows of one run, whatever runs beside it.  (On PostgreSQL a run     *)
(* that began to replace before another committed leaves the other's rows  *)
(* beside its own.)                                                        *)
StoredWhole ==
    /\ whole
    /\ database = "sqlite" => \A j, k \in Jobs : stored[j] # <<>> /\ stored[k] # <<>> => j = k

Scheduled == \E j \in Jobs : stored[j] # <<>>
OneDateEach ==
    /\ \A j \in Jobs : ~Repeats(stored[j])
    /\ \A j, k \in Jobs : j # k => Dates(stored[j]) \cap Dates(stored[k]) = {}

(* Once there is a schedule there always is one, without repeated dates,   *)
(* on either database: no run, failure, cancellation or empty answer       *)
(* leaves the table empty, nor do two that replace it at once.             *)
NeverEmptied == [][Scheduled => Scheduled' /\ OneDateEach']_couponVars
=============================================================================
