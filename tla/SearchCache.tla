---------------------------- MODULE SearchCache -----------------------------
(***************************************************************************)
(* BondReferenceService.search: results kept per (query, limit) for a time *)
(* to live.  The clock is read once, before the provider is awaited, and   *)
(* that reading both dates the entry and prunes the cache afterwards.      *)
(***************************************************************************)
EXTENDS Integers

CONSTANTS
    Searchers, Keys,
    Ttl,            \* cache_ttl_s
    LastTime        \* bound: the last reading of the clock

ASSUME SearchAssumption == Ttl \in Nat /\ LastTime \in Nat

VARIABLES
    time,           \* time.monotonic()
    entries,        \* _cache: when stamped, and when the provider had it so
    search,         \* the call each searcher is in
    served          \* the last result given out

searchVars == <<time, entries, search, served>>

Nobody == [stamp |-> -1, born |-> -1]

SearchInit ==
    /\ time = 0
    /\ entries = [k \in Keys |-> Nobody]
    /\ search = [s \in Searchers |-> [phase |-> "idle"]]
    /\ served = [from |-> "nothing"]

Fresh(k) == entries[k] # Nobody /\ time - entries[k].stamp < Ttl

Served(from, born) == served' = [from |-> from, born |-> born, at |-> time]

Tick ==
    /\ time < LastTime
    /\ time' = time + 1
    /\ UNCHANGED <<entries, search, served>>

(* A hit. *)
Hit(s, k) ==
    /\ search[s].phase = "idle" /\ Fresh(k)
    /\ Served("cache", entries[k].born)
    /\ UNCHANGED <<time, entries, search>>

(* A miss: `now` is kept over the await. *)
AskProvider(s, k) ==
    /\ search[s].phase = "idle" /\ ~Fresh(k)
    /\ search' = [search EXCEPT ![s] = [phase |-> "asked", key |-> k, now |-> time]]
    /\ UNCHANGED <<time, entries, served>>

(* The provider reads its registry; the answer is on its way. *)
ProviderAnswers(s) ==
    /\ search[s].phase = "asked"
    /\ search' = [search EXCEPT ![s] = [phase |-> "answered", key |-> search[s].key,
                                        now |-> search[s].now, born |-> time]]
    /\ UNCHANGED <<time, entries, served>>

(* Fault: the entry is dated when the answer is there. *)
StampLate(s) == time

Stamp(s) == search[s].now

Expired(entry, now) == now - entry.stamp >= Ttl

(* _prune_expired *)
Pruned(now) == [k \in Keys |-> IF Expired(entries[k], now) THEN Nobody ELSE entries[k]]

Receive(s) ==
    /\ search[s].phase = "answered"
    /\ entries' = [Pruned(Stamp(s)) EXCEPT ![search[s].key] =
                      [stamp |-> Stamp(s), born |-> search[s].born]]
    /\ Served("provider", search[s].born)
    /\ search' = [search EXCEPT ![s] = [phase |-> "idle"]]
    /\ UNCHANGED time

(* A timeout or an error of the provider: nothing is cached. *)
ProviderFails(s) ==
    /\ search[s].phase # "idle"
    /\ search' = [search EXCEPT ![s] = [phase |-> "idle"]]
    /\ UNCHANGED <<time, entries, served>>

SearchNext ==
    \/ Tick
    \/ \E s \in Searchers :
        \/ \E k \in Keys : Hit(s, k) \/ AskProvider(s, k)
        \/ ProviderAnswers(s) \/ Receive(s) \/ ProviderFails(s)

SearchSpec == SearchInit /\ [][SearchNext]_searchVars

-----------------------------------------------------------------------------
(* What is kept was true when it was dated or later, so what is served     *)
(* from the cache is never older than the time to live, however long the   *)
(* provider took and whoever's search filled the entry.                    *)
ServedWithinTtl ==
    /\ served.from = "cache" => served.at - served.born < Ttl
    /\ \A k \in Keys : entries[k].stamp <= entries[k].born
=============================================================================
