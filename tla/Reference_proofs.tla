-------------------------- MODULE Reference_proofs --------------------------
(***************************************************************************)
(* Theorems about what the reference service keeps: the results of its     *)
(* searches (SearchCache) and the schedules it stores (CouponJobs).        *)
(***************************************************************************)
EXTENDS SearchCache, CouponJobs, SequenceTheorems, TLAPS

-----------------------------------------------------------------------------
(* SearchCache                                                             *)

Entries == [stamp : Int, born : Int]

Call(c) ==
    \/ c \in [phase : {"idle"}]
    \/ c \in [phase : {"asked"}, key : Keys, now : Int] /\ c.now <= time
    \/ c \in [phase : {"answered"}, key : Keys, now : Int, born : Int] /\ c.now <= c.born

(* The clock is read before the provider is asked, so an entry is never    *)
(* dated later than what it holds.                                         *)
SearchInv ==
    /\ time \in Nat
    /\ entries \in [Keys -> Entries] /\ \A k \in Keys : entries[k].stamp <= entries[k].born
    /\ DOMAIN search = Searchers /\ \A s \in Searchers : Call(search[s])
    /\ served.from = "cache" => served.at - served.born < Ttl

(* A step keeps every entry dated in time. *)
LEMMA SearchStep ==
    ASSUME SearchInv, [SearchNext]_searchVars
    PROVE  SearchInv'
<1> USE SearchAssumption
<1>1. CASE Tick
  <2>1. time \in Nat /\ time' = time + 1 /\ time' \in Nat /\ search' = search
    BY <1>1 DEF Tick, SearchInv
  <2>2. ASSUME NEW s \in Searchers
        PROVE  Call(search[s])'
    BY <2>1 DEF SearchInv, Call
  <2> QED
    BY <1>1, <2>1, <2>2 DEF Tick, SearchInv
<1>2. ASSUME NEW s \in Searchers, NEW k \in Keys, Hit(s, k)
      PROVE  SearchInv'
  <2>1. entries[k] \in Entries /\ entries[k].stamp <= entries[k].born /\ time \in Nat
    BY DEF SearchInv
  <2>2. time - entries[k].born < Ttl
    BY <1>2, <2>1 DEF Hit, Fresh, Entries
  <2>3. served'.at - served'.born < Ttl
    BY <1>2, <2>2 DEF Hit, Served
  <2> QED
    BY <1>2, <2>3 DEF Hit, SearchInv, Call
<1>3. ASSUME NEW s \in Searchers, NEW k \in Keys, AskProvider(s, k)
      PROVE  SearchInv'
  <2>1. time' = time /\ time \in Nat
    BY <1>3 DEF AskProvider, SearchInv
  <2>2. search' = [search EXCEPT ![s] = [phase |-> "asked", key |-> k, now |-> time]]
    BY <1>3 DEF AskProvider
  <2>3. ASSUME NEW x \in Searchers
        PROVE  Call(search[x])'
    BY <2>1, <2>2 DEF SearchInv, Call
  <2> QED
    BY <1>3, <2>1, <2>2, <2>3 DEF AskProvider, SearchInv
<1>4. ASSUME NEW s \in Searchers, ProviderAnswers(s)
      PROVE  SearchInv'
  <2>1. /\ time' = time /\ time \in Nat
        /\ search' = [search EXCEPT ![s] = [phase |-> "answered", key |-> search[s].key,
                                            now |-> search[s].now, born |-> time]]
    BY <1>4 DEF ProviderAnswers, SearchInv
  <2>2. search[s] \in [phase : {"asked"}, key : Keys, now : Int] /\ search[s].now <= time
    BY <1>4 DEF ProviderAnswers, SearchInv, Call
  <2>3. ASSUME NEW x \in Searchers
        PROVE  Call(search[x])'
    BY <2>1, <2>2 DEF SearchInv, Call
  <2> QED
    BY <1>4, <2>1, <2>3 DEF ProviderAnswers, SearchInv
<1>5. ASSUME NEW s \in Searchers, Receive(s)
      PROVE  SearchInv'
  <2>1. /\ search[s] \in [phase : {"answered"}, key : Keys, now : Int, born : Int]
        /\ search[s].now <= search[s].born
    BY <1>5 DEF Receive, SearchInv, Call
  <2>2. /\ time' = time /\ served'.from = "provider"
        /\ search' = [search EXCEPT ![s] = [phase |-> "idle"]]
        /\ entries' = [Pruned(search[s].now) EXCEPT ![search[s].key] =
                          [stamp |-> search[s].now, born |-> search[s].born]]
    BY <1>5 DEF Receive, Served, Stamp
  <2>3. ASSUME NEW k \in Keys
        PROVE  Pruned(search[s].now)[k] \in Entries /\ Pruned(search[s].now)[k].stamp <= Pruned(search[s].now)[k].born
    <3>1. entries[k] \in Entries /\ entries[k].stamp <= entries[k].born
      BY DEF SearchInv
    <3>2. Nobody \in Entries /\ Nobody.stamp <= Nobody.born
      BY DEF Nobody, Entries
    <3>3. Pruned(search[s].now)[k] \in {Nobody, entries[k]}
      BY DEF Pruned
    <3> QED
      BY <3>1, <3>2, <3>3
  <2>4. DOMAIN Pruned(search[s].now) = Keys
    BY DEF Pruned
  <2>5. ASSUME NEW k \in Keys
        PROVE  entries'[k] \in Entries /\ entries'[k].stamp <= entries'[k].born
    BY <2>1, <2>2, <2>3, <2>4 DEF Entries
  <2>6. entries' \in [Keys -> Entries]
    BY <2>2, <2>4, <2>5 DEF Pruned
  <2>7. ASSUME NEW x \in Searchers
        PROVE  Call(search[x])'
    BY <2>2 DEF SearchInv, Call
  <2> QED
    BY <2>2, <2>5, <2>6, <2>7 DEF SearchInv
<1>6. ASSUME NEW s \in Searchers, ProviderFails(s)
      PROVE  SearchInv'
  <2>1. time' = time /\ search' = [search EXCEPT ![s] = [phase |-> "idle"]]
    BY <1>6 DEF ProviderFails
  <2>2. ASSUME NEW x \in Searchers
        PROVE  Call(search[x])'
    BY <2>1 DEF SearchInv, Call
  <2> QED
    BY <1>6, <2>1, <2>2 DEF ProviderFails, SearchInv
<1>7. CASE UNCHANGED searchVars
  BY <1>7 DEF searchVars, SearchInv, Call
<1> QED
  BY <1>1, <1>2, <1>3, <1>4, <1>5, <1>6, <1>7 DEF SearchNext

(* What is served from the cache is never older than the time to live,     *)
(* however long the provider took and whoever filled the entry.            *)
THEOREM ServedIsFresh == SearchSpec => []ServedWithinTtl
<1>1. SearchInit => SearchInv
  BY DEF SearchInit, SearchInv, Call, Entries, Nobody
<1>2. SearchInv /\ [SearchNext]_searchVars => SearchInv'
  BY SearchStep
<1>3. SearchInv => ServedWithinTtl
  BY DEF SearchInv, ServedWithinTtl
<1> QED
  BY <1>1, <1>2, <1>3, PTL DEF SearchSpec

-----------------------------------------------------------------------------
(* CouponJobs                                                              *)

RunFields == {"phase", "got", "offset", "pages", "since", "clean", "found"}

(* The rows a run has, read off `list` when it is undisturbed: full pages  *)
(* up to its offset, and all of them when it writes, unless the limit of   *)
(* pages is too low for the list.                                          *)
Collected(r, list) ==
    /\ r.phase = "fetching" =>
        /\ r.offset <= Len(list) /\ r.offset = r.pages * PageSize
        /\ r.got = SubSeq(list, 1, r.offset)
    /\ r.phase \in {"writing", "replacing"} => r.got = list \/ Len(list) > PageSize * MaxPages

RunInv(r, list, now) ==
    r.phase \in {"fetching", "writing", "replacing"} =>
        /\ DOMAIN r = RunFields
        /\ r.got \in Seq(Nat) /\ r.offset \in Nat /\ r.pages \in Nat /\ r.since \in Nat
        /\ r.since <= now
        /\ r.phase = "fetching" => r.pages < MaxPages
        /\ r.phase = "replacing" => r.got # <<>>
        /\ r.clean /\ r.since = now => Collected(r, list)

CouponInv ==
    /\ listed \in Lists /\ changes \in Nat
    /\ whole
    /\ DOMAIN stored = Jobs
    /\ OneDateEach
    /\ DOMAIN job = Jobs
    /\ \A j \in Jobs : RunInv(job[j], listed, changes)

(* SQLite lets one run write at a time, so no other has committed since    *)
(* its DELETE, and the table holds the rows of one run.                    *)
OneWriter ==
    database = "sqlite" =>
        /\ \A j, k \in Jobs : job[j].phase = "replacing" /\ job[k].phase = "replacing" => j = k
        /\ \A j, k \in Jobs :
              job[j].phase = "replacing" /\ stored[k] # <<>> => k \in job[j].found
        /\ \A j, k \in Jobs : stored[j] # <<>> /\ stored[k] # <<>> => j = k

(* A page: what the list holds from the offset on, no more than a page.    *)
LEMMA PageProperties ==
    ASSUME NEW offset \in Nat, listed \in Seq(Nat)
    PROVE  /\ Page(offset) \in Seq(Nat) /\ Len(Page(offset)) \in Nat
           /\ offset <= Len(listed) =>
                SubSeq(listed, 1, offset) \o Page(offset) =
                    SubSeq(listed, 1, IF offset + PageSize < Len(listed) THEN offset + PageSize
                                                                         ELSE Len(listed))
           /\ offset + PageSize < Len(listed) => Len(Page(offset)) = PageSize
<1> DEFINE end == IF offset + PageSize < Len(listed) THEN offset + PageSize ELSE Len(listed)
<1>1. PageSize \in Nat \ {0} /\ Len(listed) \in Nat
  BY CouponJobsAssumption
<1>2. end \in Nat /\ end <= Len(listed) /\ (offset <= Len(listed) => offset <= end)
  BY <1>1
<1>3. \A i \in (offset + 1)..end : listed[i] \in Nat
  BY <1>2
<1>4. Page(offset) = SubSeq(listed, offset + 1, end)
  BY DEF Page
<1> HIDE DEF end
<1>5. /\ Page(offset) \in Seq(Nat)
      /\ Len(Page(offset)) = IF offset + 1 <= end THEN end - (offset + 1) + 1 ELSE 0
  BY <1>2, <1>3, <1>4, SubSeqProperties
<1>6. offset <= Len(listed) => SubSeq(listed, 1, offset) \o Page(offset) = SubSeq(listed, 1, end)
  BY <1>1, <1>2, <1>4, ConcatAdjacentSubSeq
<1>7. offset + PageSize < Len(listed) => end = offset + PageSize
  BY DEF end
<1>8. offset + PageSize < Len(listed) => Len(Page(offset)) = PageSize
  BY <1>1, <1>5, <1>7
<1>9. Len(Page(offset)) \in Nat
  BY <1>5
<1> QED
  BY <1>5, <1>6, <1>8, <1>9 DEF end

(* A page that is added keeps an undisturbed run at its full pages, ends   *)
(* it with all the rows, or finds the limit of pages too low.              *)
LEMMA PageCollected ==
    ASSUME NEW r, NEW n, NEW total, listed \in Seq(Nat),
           r.offset \in Nat, r.pages \in Nat, r.pages < MaxPages, r.phase = "fetching",
           Collected(r, listed), total = Len(listed),
           n.got = r.got \o Page(r.offset), n.offset = r.offset + Len(Page(r.offset)),
           n.pages = r.pages + 1,
           n.phase = IF \/ Complete(Page(r.offset), total, n.got)
                        \/ r.pages + 1 >= MaxPages
                     THEN "writing" ELSE "fetching"
    PROVE  Collected(n, listed)
<1> DEFINE page == Page(r.offset)
           end == IF r.offset + PageSize < Len(listed) THEN r.offset + PageSize ELSE Len(listed)
<1>1. PageSize \in Nat \ {0} /\ MaxPages \in Nat \ {0} /\ Len(listed) \in Nat
  BY CouponJobsAssumption
<1>2. /\ r.offset <= Len(listed) /\ r.offset = r.pages * PageSize
      /\ r.got = SubSeq(listed, 1, r.offset)
  BY DEF Collected
<1>3. n.got = SubSeq(listed, 1, end)
  BY <1>2, PageProperties
<1>4. CASE r.offset + PageSize < Len(listed)
  <2>1. end = r.offset + PageSize
    BY <1>4
  <2>2. Len(page) = PageSize /\ n.offset = end
    BY <1>4, <2>1, PageProperties
  <2>3. n.offset = n.pages * PageSize
    BY <1>1, <1>2, <2>1, <2>2
  <2>4. Len(n.got) = end
    <3>1. \A i \in 1..end : listed[i] \in Nat
      BY <1>1, <1>4, <2>1
    <3>2. Len(SubSeq(listed, 1, end)) = IF 1 <= end THEN end - 1 + 1 ELSE 0
      BY <1>1, <2>1, <3>1, SubSeqProperties
    <3> QED
      BY <1>1, <1>3, <2>1, <3>2
  <2>5. ~Complete(page, total, n.got)
    <3>1. page # <<>>
      BY <1>1, <2>2
    <3>2. total # 0 /\ ~(Len(n.got) >= total)
      BY <1>1, <1>4, <2>1, <2>4
    <3> QED
      BY <3>1, <3>2 DEF Complete
  <2>6. CASE r.pages + 1 >= MaxPages
    <3>1. n.pages = MaxPages /\ n.phase = "writing"
      BY <1>1, <2>6
    <3>2. Len(listed) > PageSize * MaxPages
      BY <1>1, <1>4, <2>1, <2>2, <2>3, <3>1
    <3> QED
      BY <3>1, <3>2 DEF Collected
  <2>7. CASE ~(r.pages + 1 >= MaxPages)
    <3>1. n.phase = "fetching"
      BY <2>5, <2>7
    <3>2. n.offset <= Len(listed)
      BY <1>1, <1>4, <2>1, <2>2
    <3>3. n.got = SubSeq(listed, 1, n.offset)
      BY <1>3, <2>2
    <3> HIDE DEF page, end
    <3> QED
      BY <2>3, <3>1, <3>2, <3>3 DEF Collected
  <2> QED
    BY <2>6, <2>7
<1>5. CASE ~(r.offset + PageSize < Len(listed))
  <2>1. n.got = listed
    BY <1>3, <1>5, SubSeqFull
  <2>2. Len(n.got) >= total
    BY <1>1, <2>1
  <2>3. n.phase = "writing"
    BY <2>2 DEF Complete
  <2> QED
    BY <2>1, <2>3 DEF Collected
<1> QED
  BY <1>4, <1>5

(* One run changes, the provider and the table do not. *)
LEMMA OneRun ==
    ASSUME CouponInv, NEW j \in Jobs, NEW n, RunInv(n, listed, changes),
           job' = [job EXCEPT ![j] = n], UNCHANGED <<listed, changes, table>>
    PROVE  CouponInv'
<1>1. UNCHANGED <<listed, changes, stored, whole>>
  BY DEF table
<1>2. OneDateEach'
  BY <1>1, Zenon DEF OneDateEach, CouponInv
<1> QED
  BY <1>1, <1>2, Zenon DEF CouponInv

(* A run that has ended is nobody's business. *)
LEMMA EndedRun == \A list, now : RunInv([phase |-> "done"], list, now)
  BY DEF RunInv

(* A page keeps a run's rows right. *)
LEMMA FetchPageStep ==
    ASSUME CouponInv, NEW j \in Jobs, FetchPage(j)
    PROVE  CouponInv'
<1> DEFINE r == job[j]
           page == Page(r.offset)
           got == r.got \o page
           Next(total) ==
               [r EXCEPT !.got = got, !.offset = @ + Len(page), !.pages = @ + 1,
                         !.clean = @ /\ total = Len(listed),
                         !.phase = IF Complete(page, total, got) \/ r.pages + 1 >= MaxPages
                                   THEN "writing" ELSE "fetching"]
<1>1. listed \in Seq(Nat) /\ MaxPages \in Nat
  BY CouponJobsAssumption DEF CouponInv
<1>2. r.phase = "fetching" /\ UNCHANGED <<listed, changes, table>>
  BY DEF FetchPage
<1>3. PICK total : job' = [job EXCEPT ![j] = Next(total)]
  BY DEF FetchPage
<1>4. RunInv(r, listed, changes)
  BY DEF CouponInv
<1>5. /\ DOMAIN r = RunFields
      /\ r.got \in Seq(Nat) /\ r.offset \in Nat /\ r.pages \in Nat /\ r.since \in Nat
      /\ r.since <= changes /\ r.pages < MaxPages
      /\ r.clean /\ r.since = changes => Collected(r, listed)
  BY <1>2, <1>4, Zenon DEF RunInv
<1> DEFINE n == Next(total)
<1>6. /\ DOMAIN n = RunFields
      /\ n.got = r.got \o page /\ n.offset = r.offset + Len(page) /\ n.pages = r.pages + 1
      /\ n.since = r.since
  BY <1>5 DEF RunFields
<1>7. n.clean => r.clean /\ total = Len(listed)
  BY <1>5, Zenon DEF RunFields
<1>8. n.phase = IF Complete(page, total, n.got) \/ r.pages + 1 >= MaxPages
                THEN "writing" ELSE "fetching"
  BY <1>5 DEF RunFields
<1> HIDE DEF n, r
<1>9. /\ n.got \in Seq(Nat) /\ n.offset \in Nat /\ n.pages \in Nat /\ n.since \in Nat
      /\ n.since <= changes
  <2>1. page \in Seq(Nat) /\ Len(page) \in Nat
    BY <1>1, <1>5, PageProperties
  <2> HIDE DEF page
  <2>2. r.got \o page \in Seq(Nat)
    BY <1>5, <2>1
  <2> QED
    BY <1>5, <1>6, <2>1, <2>2
<1>10. n.phase = "fetching" => n.pages < MaxPages
  BY <1>1, <1>5, <1>6, <1>8
<1>11. n.clean /\ n.since = changes => Collected(n, listed)
  <2> SUFFICES ASSUME n.clean, n.since = changes
               PROVE  Collected(n, listed)
    OBVIOUS
  <2>1. Collected(r, listed) /\ total = Len(listed)
    BY <1>5, <1>6, <1>7, Zenon
  <2> QED
    BY <1>1, <1>2, <1>5, <1>6, <1>8, <2>1, PageCollected DEF r
<1>12. n.phase # "replacing"
  BY <1>8
<1>13. RunInv(n, listed, changes)
  BY <1>6, <1>9, <1>10, <1>11, <1>12, Zenon DEF RunInv
<1> QED
  BY <1>2, <1>3, <1>13, OneRun, Zenon DEF n

(* A list that changes leaves no run undisturbed. *)
LEMMA ProviderChangesStep ==
    ASSUME CouponInv, ProviderChanges
    PROVE  CouponInv'
<1>1. changes \in Nat /\ changes' = changes + 1 /\ changes' \in Nat
  BY DEF CouponInv, ProviderChanges
<1>2. listed' \in Lists /\ UNCHANGED <<stored, whole, job>>
  BY DEF ProviderChanges, table
<1>3. ASSUME NEW j \in Jobs
      PROVE  RunInv(job[j], listed', changes')
  <2> DEFINE r == job[j]
  <2>1. RunInv(r, listed, changes)
    BY DEF CouponInv
  <2> HIDE DEF r
  <2>2. SUFFICES ASSUME r.phase \in {"fetching", "writing", "replacing"}
                 PROVE  r.since <= changes' /\ r.since # changes'
    BY <2>1, <2>2, Zenon DEF RunInv, r
  <2>3. r.since \in Nat /\ r.since <= changes
    BY <2>1, <2>2, Zenon DEF RunInv
  <2> QED
    BY <1>1, <2>3
<1>4. OneDateEach'
  BY <1>2, Zenon DEF OneDateEach, CouponInv
<1> QED
  BY <1>1, <1>2, <1>3, <1>4, Zenon DEF CouponInv

(* A run starts with no rows and no page. *)
LEMMA ScheduleStep ==
    ASSUME CouponInv, NEW j \in Jobs, Schedule(j)
    PROVE  CouponInv'
<1> DEFINE n == [phase |-> "fetching", got |-> <<>>, offset |-> 0, pages |-> 0,
                 since |-> changes, clean |-> TRUE, found |-> {}]
<1>1. job' = [job EXCEPT ![j] = n] /\ UNCHANGED <<listed, changes, table>>
  BY DEF Schedule
<1>2. /\ changes \in Nat /\ listed \in Seq(Nat) /\ Len(listed) \in Nat
      /\ PageSize \in Nat /\ MaxPages \in Nat \ {0}
  BY CouponJobsAssumption DEF CouponInv
<1>3. /\ DOMAIN n = RunFields /\ n.phase = "fetching" /\ n.got = <<>> /\ n.offset = 0
      /\ n.pages = 0 /\ n.since = changes
  BY DEF RunFields
<1> HIDE DEF n
<1>4. Collected(n, listed)
  <2>1. SubSeq(listed, 1, 0) = <<>>
    BY SubSeqEmpty
  <2> QED
    BY <1>2, <1>3, <2>1 DEF Collected
<1>5. /\ n.got \in Seq(Nat) /\ n.offset \in Nat /\ n.pages \in Nat /\ n.since \in Nat
      /\ n.since <= changes /\ n.pages < MaxPages
  BY <1>2, <1>3
<1>6. RunInv(n, listed, changes)
  BY <1>3, <1>4, <1>5, Zenon DEF RunInv
<1> QED
  BY <1>1, <1>6, OneRun, Zenon DEF n

(* A run that fails or is cancelled writes nothing. *)
LEMMA LeavesStep ==
    ASSUME CouponInv, NEW j \in Jobs,
           RunFails(j) \/ NothingListed(j) \/ Cancelled(j)
    PROVE  CouponInv'
<1>1. job' = [job EXCEPT ![j] = [phase |-> "done"]] /\ UNCHANGED <<listed, changes, table>>
  BY DEF RunFails, NothingListed, Cancelled, Leaves
<1> QED
  BY <1>1, EndedRun, OneRun, Zenon

(* A run that goes on to replace has its rows still. *)
LEMMA DeleteStep ==
    ASSUME CouponInv, NEW j \in Jobs, Delete(j)
    PROVE  CouponInv'
<1> DEFINE r == job[j]
           taken == {k \in Jobs : stored[k] # <<>>}
           n == [r EXCEPT !.phase = "replacing", !.found = taken]
<1>1. r.phase = "writing" /\ r.got # <<>> /\ UNCHANGED <<listed, changes, table>>
  BY DEF Delete, Deletes
<1>2. RunInv(r, listed, changes)
  BY DEF CouponInv
<1>3. /\ DOMAIN r = RunFields
      /\ r.got \in Seq(Nat) /\ r.offset \in Nat /\ r.pages \in Nat /\ r.since \in Nat
      /\ r.since <= changes
      /\ r.clean /\ r.since = changes => Collected(r, listed)
  BY <1>1, <1>2, Zenon DEF RunInv
<1>4. job' = [job EXCEPT ![j] = n]
  BY <1>3, Zenon DEF Delete, Deletes, CouponInv, RunFields
<1> HIDE DEF taken
<1>5. /\ DOMAIN n = RunFields /\ n.phase = "replacing" /\ n.got = r.got /\ n.offset = r.offset
      /\ n.pages = r.pages /\ n.since = r.since
  BY <1>3 DEF RunFields
<1>6. n.clean => r.clean
  BY <1>3, Zenon DEF RunFields
<1> HIDE DEF n, r
<1>7. n.clean /\ n.since = changes => Collected(n, listed)
  BY <1>1, <1>3, <1>5, <1>6 DEF Collected
<1>8. RunInv(n, listed, changes)
  BY <1>1, <1>3, <1>5, <1>7, Zenon DEF RunInv
<1> QED
  BY <1>1, <1>4, <1>8, OneRun, Zenon

(* What a run stores is whole when it was undisturbed, and repeats no date *)
(* of its own or of rows that stay.                                        *)
LEMMA InsertStep ==
    ASSUME CouponInv, NEW j \in Jobs, Insert(j)
    PROVE  CouponInv'
<1> DEFINE r == job[j]
<1>1. /\ r.phase = "replacing" /\ UNCHANGED <<listed, changes>>
      /\ job' = [job EXCEPT ![j] = [phase |-> "done"]]
      /\ stored' = [k \in Jobs |-> IF k = j THEN r.got
                                   ELSE IF k \in r.found THEN <<>> ELSE stored[k]]
      /\ whole' <=> whole /\ (Sure(j) => r.got = listed)
      /\ ~Repeats(r.got)
      /\ \A k \in Jobs \ r.found : Dates(stored[k]) \cap Dates(r.got) = {}
  BY Zenon DEF Insert, Leaves, Fits
<1>2. Sure(j) => r.got = listed
  <2> SUFFICES ASSUME Sure(j)
               PROVE  r.got = listed
    OBVIOUS
  <2>1. r.clean /\ r.since = changes
    BY Zenon DEF Sure
  <2>2. RunInv(r, listed, changes)
    BY DEF CouponInv
  <2>3. Collected(r, listed)
    BY <1>1, <2>1, <2>2, Zenon DEF RunInv
  <2>4. r.got = listed \/ Len(listed) > PageSize * MaxPages
    BY <1>1, <2>3 DEF Collected
  <2>5. Len(listed) <= PageSize * MaxPages
    BY Zenon DEF Sure
  <2>6. Len(listed) \in Nat /\ PageSize * MaxPages \in Nat
    BY CouponJobsAssumption DEF CouponInv
  <2> HIDE DEF r
  <2> QED
    BY <2>4, <2>5, <2>6
<1>3. whole'
  BY <1>1, <1>2, Zenon DEF CouponInv
<1> HIDE DEF r
<1>4. OneDateEach'
  <2>0. ~Repeats(<<>>) /\ Dates(<<>>) = {}
    BY DEF Repeats, Dates
  <2>1. ASSUME NEW k \in Jobs
        PROVE  ~Repeats(stored'[k]) /\ (stored'[k] = stored[k] \/ stored'[k] = <<>> \/ k = j)
    BY <1>1, <2>0, <2>1, Zenon DEF CouponInv, OneDateEach
  <2>2. ASSUME NEW k \in Jobs, k # j
        PROVE  Dates(stored'[k]) \cap Dates(stored'[j]) = {}
    <3>1. stored'[j] = r.got
      BY <1>1
    <3>2. CASE k \in r.found
      <4>1. stored'[k] = <<>>
        BY <1>1, <2>2, <3>2
      <4> QED
        BY <2>0, <4>1
    <3>3. CASE k \notin r.found
      <4>1. stored'[k] = stored[k]
        BY <1>1, <2>2, <3>3
      <4> QED
        BY <1>1, <3>1, <3>3, <4>1
    <3> QED
      BY <3>2, <3>3
  <2>3. ASSUME NEW i \in Jobs, NEW k \in Jobs, i # k
        PROVE  Dates(stored'[i]) \cap Dates(stored'[k]) = {}
    <3>1. CASE i = j
      BY <2>2, <2>3, <3>1
    <3>2. CASE k = j
      BY <2>2, <2>3, <3>2
    <3>3. CASE i # j /\ k # j
      <4>1. /\ stored'[i] = stored[i] \/ stored'[i] = <<>>
            /\ stored'[k] = stored[k] \/ stored'[k] = <<>>
        BY <2>1, <3>3
      <4>2. Dates(stored[i]) \cap Dates(stored[k]) = {}
        BY <2>3, Zenon DEF CouponInv, OneDateEach
      <4> QED
        BY <2>0, <4>1, <4>2
    <3> QED
      BY <3>1, <3>2, <3>3
  <2>4. OneDateEach' <=> /\ \A k \in Jobs : ~Repeats(stored'[k])
                         /\ \A i, k \in Jobs : i # k => Dates(stored'[i]) \cap Dates(stored'[k]) = {}
    BY Zenon DEF OneDateEach, Repeats, Dates
  <2> QED
    BY <2>1, <2>3, <2>4, Zenon
<1>5. \A k \in Jobs : RunInv(job'[k], listed, changes)
  BY <1>1, EndedRun, Zenon DEF CouponInv
<1>6. DOMAIN job' = Jobs /\ DOMAIN stored' = Jobs
  BY <1>1, Zenon DEF CouponInv
<1> QED
  BY <1>1, <1>3, <1>4, <1>5, <1>6, Zenon DEF CouponInv

(* Every step keeps the runs and the table right. *)
LEMMA CouponStep ==
    ASSUME CouponInv, [CouponNext]_couponVars
    PROVE  CouponInv'
<1>1. CASE UNCHANGED <<listed, changes, stored, whole, job>>
  <2>1. OneDateEach'
    BY <1>1, Zenon DEF OneDateEach, CouponInv
  <2> QED
    BY <1>1, <2>1, Zenon DEF CouponInv
<1>2. CASE Shutdown \/ Close \/ UNCHANGED couponVars
  BY <1>1, <1>2, Zenon DEF Shutdown, Close, couponVars, table
<1> QED
  BY <1>2, ProviderChangesStep, ScheduleStep, FetchPageStep, LeavesStep, DeleteStep, InsertStep,
     Zenon DEF CouponNext

(* A run that is not replacing after the step, while the table stands. *)
LEMMA OtherRun ==
    ASSUME CouponInv, OneWriter, NEW j \in Jobs, NEW n, n.phase # "replacing",
           job' = [job EXCEPT ![j] = n], UNCHANGED table
    PROVE  OneWriter'
<1>1. UNCHANGED <<database, stored>>
  BY DEF table
<1>2. job'[j] = n /\ \A k \in Jobs : k # j => job'[k] = job[k]
  BY Zenon DEF CouponInv
<1> QED
  BY <1>1, <1>2, Zenon DEF OneWriter

(* One run writes at a time on SQLite. *)
LEMMA WriterStep ==
    ASSUME CouponInv, OneWriter, [CouponNext]_couponVars
    PROVE  OneWriter'
<1>1. CASE ProviderChanges \/ Shutdown \/ Close \/ UNCHANGED couponVars
  <2>1. UNCHANGED <<database, stored, job>>
    BY <1>1, Zenon DEF ProviderChanges, Shutdown, Close, couponVars, table
  <2> QED
    BY <2>1, Zenon DEF OneWriter
<1>2. ASSUME NEW j \in Jobs, Schedule(j)
      PROVE  OneWriter'
  BY <1>2, OtherRun DEF Schedule
<1>3. ASSUME NEW j \in Jobs, FetchPage(j)
      PROVE  OneWriter'
  <2>1. job[j].phase = "fetching" /\ UNCHANGED table
    BY <1>3 DEF FetchPage
  <2>2. RunInv(job[j], listed, changes)
    BY DEF CouponInv
  <2>3. DOMAIN job[j] = RunFields
    BY <2>1, <2>2, Zenon DEF RunInv
  <2> DEFINE r == job[j]
             page == Page(r.offset)
             got == r.got \o page
             Next(total) ==
                 [r EXCEPT !.got = got, !.offset = @ + Len(page), !.pages = @ + 1,
                           !.clean = @ /\ total = Len(listed),
                           !.phase = IF Complete(page, total, got) \/ r.pages + 1 >= MaxPages
                                     THEN "writing" ELSE "fetching"]
  <2>4. PICK total : job' = [job EXCEPT ![j] = Next(total)]
    BY <1>3 DEF FetchPage
  <2>5. Next(total).phase # "replacing"
    BY <2>3 DEF RunFields
  <2> QED
    BY <2>1, <2>4, <2>5, OtherRun
<1>4. ASSUME NEW j \in Jobs, RunFails(j) \/ NothingListed(j) \/ Cancelled(j)
      PROVE  OneWriter'
  BY <1>4, OtherRun DEF RunFails, NothingListed, Cancelled, Leaves
<1>5. ASSUME NEW j \in Jobs, Delete(j)
      PROVE  OneWriter'
  <2> DEFINE taken == {k \in Jobs : stored[k] # <<>>}
             n == [job[j] EXCEPT !.phase = "replacing", !.found = taken]
  <2>1. RunInv(job[j], listed, changes) /\ job[j].phase = "writing"
    BY <1>5 DEF CouponInv, Delete
  <2>2. DOMAIN job[j] = RunFields
    BY <2>1, Zenon DEF RunInv
  <2>3. job' = [job EXCEPT ![j] = n]
    BY <1>5, <2>2, Zenon DEF Delete, Deletes, CouponInv, RunFields
  <2>4. n.found = taken
    BY <2>2 DEF RunFields
  <2>5. job'[j] = n /\ \A k \in Jobs : k # j => job'[k] = job[k]
    BY <2>3, Zenon DEF CouponInv
  <2>6. \A k \in Jobs : stored[k] # <<>> => k \in n.found
    BY <2>4
  <2> HIDE DEF n, taken
  <2>7. /\ UNCHANGED <<database, stored>>
        /\ database = "sqlite" => \A k \in Jobs : job[k].phase # "replacing"
    BY <1>5 DEF Delete, Deletes, table
  <2> QED
    BY <2>5, <2>6, <2>7, Zenon DEF OneWriter
<1>6. ASSUME NEW j \in Jobs, Insert(j)
      PROVE  OneWriter'
  <2> DEFINE r == job[j]
  <2>1. /\ r.phase = "replacing" /\ database' = database
        /\ job' = [job EXCEPT ![j] = [phase |-> "done"]]
        /\ stored' = [k \in Jobs |-> IF k = j THEN r.got
                                     ELSE IF k \in r.found THEN <<>> ELSE stored[k]]
    BY <1>6, Zenon DEF Insert, Leaves
  <2>2. SUFFICES ASSUME database = "sqlite" PROVE OneWriter'
    BY <2>1 DEF OneWriter
  <2>3. \A k \in Jobs : job'[k].phase # "replacing"
    BY <2>1, <2>2 DEF OneWriter, CouponInv
  <2>4. \A k \in Jobs : k # j => stored'[k] = <<>>
    BY <2>1, <2>2, Zenon DEF OneWriter
  <2> QED
    BY <2>3, <2>4, Zenon DEF OneWriter
<1> QED
  BY <1>1, <1>2, <1>3, <1>4, <1>5, <1>6, Zenon DEF CouponNext

(* Both hold of every run of the jobs. *)
LEMMA CouponAlways == CouponSpec => [](CouponInv /\ OneWriter)
<1>1. CouponInit => CouponInv /\ OneWriter
  <2> SUFFICES ASSUME CouponInit
               PROVE  CouponInv /\ OneWriter
    OBVIOUS
  <2>1. /\ listed \in Lists /\ changes = 0 /\ stored = [j \in Jobs |-> <<>>] /\ whole
        /\ job = [j \in Jobs |-> Idle]
    BY Zenon DEF CouponInit, NothingStored
  <2>2. \A j \in Jobs : RunInv(job[j], listed, changes) /\ job[j].phase = "idle"
    BY <2>1 DEF Idle, RunInv
  <2>3. \A j \in Jobs : stored[j] = <<>>
    BY <2>1
  <2>4. ~Repeats(<<>>) /\ Dates(<<>>) = {}
    BY DEF Repeats, Dates
  <2>5. OneDateEach
    BY <2>3, <2>4 DEF OneDateEach
  <2>6. changes \in Nat /\ DOMAIN job = Jobs /\ DOMAIN stored = Jobs
    BY <2>1
  <2>7. OneWriter
    BY <2>2, <2>3 DEF OneWriter
  <2> QED
    BY <2>1, <2>2, <2>5, <2>6, <2>7, Zenon DEF CouponInv
<1>2. CouponInv /\ OneWriter /\ [CouponNext]_couponVars => (CouponInv /\ OneWriter)'
  BY CouponStep, WriterStep
<1> QED
  BY <1>1, <1>2, PTL DEF CouponSpec

(* What a run stores is all that a provider listed that held still and     *)
(* gave its totals, for lists and pages of any length; and on SQLite the   *)
(* table holds the rows of one run, however many replace it.               *)
THEOREM SchedulesAreWhole == CouponSpec => []StoredWhole
<1>1. CouponInv /\ OneWriter => StoredWhole
  BY Zenon DEF CouponInv, OneWriter, StoredWhole
<1> QED
  BY <1>1, CouponAlways, PTL

(* Once there is a schedule there always is one, without repeated dates,   *)
(* on either database.                                                     *)
THEOREM TableIsNeverEmptied == CouponSpec => NeverEmptied
<1>1. ASSUME CouponInv, CouponInv', [CouponNext]_couponVars, Scheduled
      PROVE  Scheduled' /\ OneDateEach'
  <2>1. OneDateEach'
    BY <1>1, Zenon DEF CouponInv
  <2>2. CASE stored' = stored
    BY <1>1, <2>1, <2>2, Zenon DEF Scheduled
  <2>3. ASSUME NEW j \in Jobs, Insert(j)
        PROVE  Scheduled'
    <3>1. job[j].phase = "replacing" /\ RunInv(job[j], listed, changes)
      BY <1>1, <2>3 DEF Insert, CouponInv
    <3>2. job[j].got # <<>>
      BY <3>1, Zenon DEF RunInv
    <3>3. stored'[j] = job[j].got
      BY <2>3 DEF Insert
    <3> QED
      BY <3>2, <3>3 DEF Scheduled
  <2>4. stored' = stored \/ \E j \in Jobs : Insert(j)
    BY <1>1, Zenon DEF CouponNext, couponVars, table, ProviderChanges, Shutdown, Close, Schedule,
       FetchPage, RunFails, NothingListed, Delete, Deletes, Cancelled
  <2> QED
    BY <2>1, <2>2, <2>3, <2>4
<1>2. CouponInv /\ CouponInv' /\ [CouponNext]_couponVars
        => [Scheduled => Scheduled' /\ OneDateEach']_couponVars
  BY <1>1
<1> QED
  BY <1>2, CouponAlways, PTL DEF CouponSpec, NeverEmptied

=============================================================================
