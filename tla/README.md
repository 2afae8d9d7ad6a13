# Stocktaking in TLA+

TLA+ models, TLC runs and TLAPS proofs for `bond-accounting`, a bond portfolio
server in Python (asyncio, SQLAlchemy, FastAPI, NiceGUI). Paths below are
relative to `src/src/bond_accounting/`.

## The system

One process holds the services, an in-process event bus that connects them, and
a database (PostgreSQL, or SQLite by default). A service call opens a database
session, checks, writes, commits and publishes an event; the portfolio commits
before it publishes, bonds, brokers and accounts publish before they commit,
operations and coupon schedules publish nothing. The analytics service subscribes
to four topics and keeps a cache of per-user summaries. REST endpoints and web
pages call the services from an event loop that a worker thread runs; the bus
dispatches on the loop of the main thread.

| Component | State | Operations | Talks to | What is hard, what must hold |
|---|---|---|---|---|
| event bus (`event_bus/`) | subscriptions per topic, a bounded queue and a dispatcher task each, reply futures, running | subscribe, unsubscribe, publish, request, start, stop | calls handlers from dispatcher tasks | tasks suspended in `put`, `get`, futures; drains by stop and unsubscribe; timeouts racing replies. Nobody sleeps beside a free slot, nobody waits for a dead future, replies reach their own request, one sender's messages keep their order |
| portfolio (`portfolio/service.py`) | table `transactions`; positions are sums over it | add, update, delete, queries | database, publishes | read-check-write by concurrent calls; row lock on PostgreSQL only. No position below zero, checks true when acted on, every lock released |
| netting (`portfolio/netting.py`) | none | average-cost walk | used by portfolio and analytics | histories the checks allow but the walk does not expect (backdated exits). What is held has an average, and an average is of what is open |
| analytics (`analytics/service.py`) | summary cache | get summary, recalculate, handlers | reads database, subscribes | reads and stores of several dispatchers and readers in any order; midnight. Changes reach the cache; sections cut for one reader do not cut those of the next |
| bonds, brokers, accounts, operations | their tables | CRUD | publish inside the transaction | checks that are stale when the flush runs: counts, owners, names. Foreign keys hold, owners agree, holders are told; an event may be out although its change is rolled back |
| market data (`market_data/`) | search cache, background tasks | search, populate coupons, shutdown | HTTP client, database | clocks and ids kept across awaits, pages of a list that changes, shutdown beside running tasks |
| yield calculation (`yield_calc/`) | none | yields, coupon dates, accrued coupons | used by analytics | roots at the ends of the bracket, zero periods, coupons that fall on today |
| database (`db/`) | tables, keys, cascades | - | all services | what a cascade takes along, which statements wait for which, ids that come back on SQLite |
| composition root (`main.py`) | loops, threads | start, serve, shut down | everything | nothing is used after it was closed; shutdown ends |
| REST API, auth (`api/`, `auth/`) | tokens | one endpoint per call | services | what a client may conclude from a status |
| web UI (`ui/`) | page state, dialogs, search tasks | click, type, save, delete, search | services | a screen behind the page, handlers that come back late |

`PROJECT.json` lists every component with its status, and every hazard at the
line where it bites.

## The modules

| Module | Models |
|---|---|
| `EventBus` | `AsyncQueueEventBus`, every operation and task step |
| `Ledger` | what the portfolio promises: one transaction at a time, none passed to another user, no negative position |
| `Portfolio` | `PortfolioService`'s add, update and delete as interleaved database transactions; implements `Ledger` |
| `AnalyticsCache` | writers (portfolio and bonds), the bus as `EventBus` shows it to work, the recalculating dispatchers and the readers of the cache |
| `Catalogue` | what the tables promise: one insert, amendment or removal at a time, references that are live, keys given once, owners that stay |
| `Registry` | the calls on brokers, accounts, bonds, operations, transactions and coupon schedules as interleaved database transactions; implements `Catalogue` |
| `Netting` | the average-cost walk |
| `Solver` | `calculate_ytm`: validation, closed form, Newton, bisection |
| `Calendar` | coupon grids, accrued coupons, the payments of a yield, the dated sections of summaries and what a reader is given of a cached one |
| `SearchCache` | the search of the bond reference with its cache |
| `CouponJobs` | the download and the replacement of a coupon schedule, background runs, shutdown |
| `Server` | `main()`: start-up, two event loops, signals, shutdown |
| `Api` | a REST request from its token to its status |
| `Pages` | a directory page: table, form, confirmation, create dialog |
| `IsinSearch` | the search as the ISIN of a new bond is typed |
| `MC*` | instances for TLC, one `.cfg` per run; `MCCalculations` and `MCServing` put several modules side by side |
| `EventBus_proofs`, `AnalyticsCache_proofs`, `Registry_proofs` | the theorems about these modules |
| `Ledger_proofs`, `Portfolio_proofs` | what sums over the table are; the theorems about `Portfolio` that rest on it |
| `Calculations_proofs` | the theorems about `Netting`, `Solver` and `Calendar` |
| `Reference_proofs` | the theorems about `SearchCache` and `CouponJobs` |
| `Serving_proofs` | the theorems about `Server`, `Api`, `Pages` and `IsinSearch` |

Definitions marked *Fault* in a comment are not part of the specification: each
is a plausible bug beside the definition it would replace, and the run of the
property named in `PROJECT.json` ("mutants") finds it.

### EventBus

A step is what one asyncio task does between two suspensions. `registry` is
`_subscriptions`; `queue`, `dispatcher`, `warned` are the fields of a
`_Subscription`; `handling` is the local `message` of `_dispatch`; `call[c]` is
where task `c` is inside `publish()` or `request()`; `future[c]` is its entry in
`_reply_futures`.

* `Publish` and `Request` run `_route` until a queue is full; then the client
  sleeps in `putters`. `Dispatch` (the `get`) wakes the first sleeper, which goes
  on with `Resume` - by then a newcomer may have taken its slot, and it sleeps
  again, at the end of the line. This is what `asyncio.Queue` does.
* `HandlerReturnsReply`, `HandlerReturnsNone` and `HandlerRaises` end a handler;
  `Timeout` and `Return` end a request.
* `Stop` is `stop()` up to the `gather` of the cancelled dispatchers, `StopFinish`
  the rest: drain, fail the pending futures. Between the two, clients run.
  `Unsubscribe` cancels and drains at once.

Ids stand for `message_id` and grow in the order of the calls. A call that is
refused without effect is not a step. The owner awaits `start()` and `stop()`, as
`main.py` does, so the two do not overlap. Queues are bounded (the
shipped configuration says 10000; an unbounded queue has no backpressure).
Handlers do not publish to their own topic: none in the repository does. A publisher
whose own task is cancelled while it sleeps is not modelled. `report` is for the properties:
whether the last warning about a queue was made for a fill that goes on or for one that a drain
has cut short, which the code's flag `warned` cannot tell apart.

### Portfolio

The variable `transactions` is the committed table. A call goes from `locking`
(the `SELECT ... FOR UPDATE` of the user's row) over `checking` (its reads and
its decision) to `writing` (flush and commit). With `RowLocks` the first step
waits for the lock; without, as on SQLite, it does nothing: the dialect drops
the clause, and the driver opens the database transaction at the first write.
`Merge` is what the session's flush does: it writes the columns that differ
from the row as loaded. `Reject` is the `IntegrityError` of a write that a foreign key
refuses. `ShiftAllowed` is `_validate_transaction_shift` as it is
written, including the comparison with the moved quantity. The reads of one
check are a single step: under the lock nobody else writes these rows, and
without it the split would only add behaviours to a run that fails already.

### AnalyticsCache

Data are versions: `ledger[u]` counts the committed changes of u's transactions,
`bond` those of a bond that all users hold. `WriteTransaction` commits and then
announces (`Announced`: `transaction.created` and `position.updated` for an add,
`position.updated` for an update or a delete); `BeginBond` flushes, announces to
every holder, and `Finish` commits. A publisher finds the bus running (`Enter`) and puts its
event on the queue (`Publish`); `stop()` may come between. `CallFails` is each way a call ends
short of that: a stopped bus, a full queue (a put from the server's loop raises there instead of
waiting), the position that is read before a transaction's events, the commit of a bond. It
rolls back a bond, also when events are out, but not a transaction. A dispatcher takes an event (`Take`),
reads the transactions (`HalfRead`), then the bonds (`AllRead`), and stores
(`Store`), or fails and forgets (`RecalculationFails`). A reader that misses does
the same reads and stores unconditionally (`Fill`). The order in which several
publishers get onto one queue is left open; `EventBus` shows that it is not the
order of their calls. No fairness is assumed: publishers and dispatchers run on different loops,
where a put wakes nobody (`server_loops`), so the properties are about what gets lost, not about
when it arrives. `announced`, `refreshed` and `forgone` are for the properties: the newest change
of each user that the bus took an event about, that a recalculation has stored, and that was lost
with a failing handler or a stop.

### Catalogue and Registry

A row is a kind, an id, an owner, a key (a broker's name, a bond's ISIN; for a
stored schedule the ISIN it was fetched for) and the rows it refers to. A call
goes through `Begin` (its checks; a refused call is no step), for a delete
`Load` (`session.delete` loads what the ORM's cascade takes along; for a coupon schedule, its
`DELETE` is sent), `Flush` (the statements run; the database may have to wait, `Granted`, or refuse,
`Refused`), `Tell` for each user to be told (the holders of a bond, one by one; other events are
about no user) and `Commit`. `Fails` ends a flushed call at any of these points, after any number
of events and at the commit too. Between two steps every other call runs.

`Conflict` says what waits for what: on SQLite a flush for every other one; on
PostgreSQL the rows written, rows referred to against rows removed, and equal unique
keys. Two replacements of one schedule do not wait for each other unless they remove the same
rows, and a `DELETE` takes only rows it went by (`Replaced`): so a bond may have two stored
schedules on PostgreSQL, which `SchedulesKept` leaves open. `NewId` gives the next id of a
sequence (PostgreSQL) or the largest in use plus one (SQLite without
`AUTOINCREMENT`, where ids come back). `Sound` is what foreign keys and unique
columns allow. `Merged` writes only the columns the call changed. The refinement
mapping is the table `rows` itself: the content of `CatalogueSpec` is that after
every commit the database is one the schema allows and the commit is one change.

### Netting

`Buy`, `Exit` and `ExitNothing` are the branches of `_netting`'s loop; `walk` holds
its locals, with money as fractions over the common denominator `over`, so that
averages are exact. `seen` keeps what the history said, for the properties to
compare with. Rows come in any order of types and quantities: the checks of the
portfolio do not look at dates, the walk goes by date.

### Solver

Rates are grid points of the bracket [-0.5, 2.0]; the price as a function of the
rate is any falling function, known by five levels (exactly zero, within the
tolerance on either side, beyond). With a coupon period of 730 days or more the discount factor is
zero or negative at the rates up to `Pole`, where the function may do anything. At the rates
`Undefined` the pricing may raise: up to the pole, and at the ends of the bracket for a maturity
so far away that a power overflows. `Validate` is everything up to the first guess,
with the divisions that may fail and the closed form that may overflow; `Newton` leads anywhere,
because a tangent may; `Bracket` and `Bisect` are exact. Where the price is met exactly at the low
end, or the factor has its pole in the bracket, the code may return a rate that is no root
(`Mistaken`); the properties say so and "findings" quotes the docstring.

### Calendar

Days are numbers. `FutureCouponDates`, `LastCouponDate`, `CouponSchedule` step back
from the maturity date as the code does, with its strict and non-strict
comparisons. `Summary` is `_compute_summary` as far as dates go; `Ask` answers from the
cache or fills it, `AskAbout` computes for a date; `Answered` cuts the sections to the
caller's horizon and limit; `NextDay` is midnight. `Within` is the list comprehension of
the sections, as a recursive function: `SelectSeq` of the library cannot be expanded in
a proof.

### SearchCache and CouponJobs

In `SearchCache` an entry carries its stamp and, for the property, the time at which
the provider had it so. `AskProvider`, `ProviderAnswers` and `Receive` are apart, so
the clock moves and other searches fill and prune between them.

In `CouponJobs` `FetchPage` is one turn of `_fetch_bondization_coupons`; the total the
provider names may be missing, the list may change between pages. `Delete` and
`Insert` are the two halves of a replacement, between which other runs delete, insert and commit:
`found` are the rows a run's `DELETE` saw, `stored` keeps apart which run committed what, and
`Fits` is the unique constraint on bond and date. On SQLite the `DELETE` begins the one writing
transaction there can be. `RunFails` ends a run anywhere; `Shutdown`, `Cancelled` and `Close` are
`shutdown()` and the client's `aclose()`.

### Server

`main`, `server`, `bus`, `jobs`, `http`, `engine` are the stages of the parts that
`main()` starts and closes. `awake` says whether the main loop is out of its
selector: a signal, its own timers and the end of the server thread wake it, a `put`
from the server's loop does not. `GiveUp` is the timeout of the wait for the server.
`Settle` is the reference service's `shutdown()`, which fails on tasks of the other
loop.

### Api

An endpoint is its name, the exceptions its service call raises, whether it
answers 404 for a missing row, and whether and when its change is announced.
`StatusOf` is `register_exception_handlers`. `Commits` and `Publishes` come in the order of the
service behind the endpoint, and each may fail: `Publishes` on a stopped bus, at a full queue or at
the read of the position before it, on a running bus too; `Commits` and `DatabaseFails` with the
database. `Arithmetic` is what `Solver` shows the yields to raise, which no handler knows.
`BusStops` is a shutdown with requests under way. An answer keeps the exception it stands for
(`raised`), so that a named error that came out as a 500 would show.

### Pages and IsinSearch

`page` is what the handlers see and set, `screen` what the browser shows; `Deliver`
brings it up to date at any later moment, and the user acts on the screen only.
`handler[h]` is a handler suspended in a service call, `Resume` the code after the
await. A new row's id is above those in use and may be that of a row deleted before (`Fresh`), so
`ActsOnWhatIsSeen` is about the id that a call is sent for.

In `IsinSearch` `changes` are the change events whose handlers have not run,
`searches` the delayed searches that are alive, `applied` the ISIN whose next change
is to be passed over.

## The runs

| Run | Question | Bounds and why they are enough |
|---|---|---|
| `bus_safety` | 7 invariants and action properties, with restarts, removals and timeouts | 3 clients, 2 request handlers, queues of 1, 3 messages: two sleepers at one queue and a newcomer, two handlers for one request, a drain with more sleepers than slots |
| `bus_silence` | is every fill of a queue reported? **No** | 2 clients, 1 removable handler, queues of 3 with the threshold at 2, 6 messages: filled, drained by a stop and filled again |
| `bus_liveness` | routing ends, everybody is served, timed requests return | 2 clients, 2 subscriptions, queues of 1, 4 messages; no unsubscribe, no stop |
| `portfolio_locked` | positions, checks, ownership, refinement of `Ledger`, every call ends | 2 calls, 2 accounts of one user and a user without any, 2 rows, quantities 1 and 2: a row moved between accounts, grown, shrunk, deleted under another call |
| `portfolio_sqlite` | the same positions without row locks? **No** | 3 rows of quantity 1 |
| `cache_safety` | does a recalculation see what its event tells of, and is no announced change forgotten? | 2 users, 2 writers, 1 reader, 2 changes, queues of 1, failures, stop |
| `cache_stale` | is a quiet cache fresh? **No** | 1 user, 1 writer, 1 reader |
| `registry` | refinement of `Catalogue`, owners, schedules and told holders, on both databases | 2 calls at a time and any number one after the other, 2 users, 2 names, 2 ISINs. A behaviour uses one of five `Scopes` of tables and ids: two brokers and two accounts; an operation that moves between two accounts; a transaction on one of two accounts; two bonds with their schedules; one row of every table. They meet a check made before, and a flush made after, another call's whole life, an id that comes back, a cascade of three levels, two replacements of one schedule, and a failure after any number of events |
| `registry_schedules` | is a bond's schedule that of its ISIN, on both databases? **No** | the same |
| `calculations` | `Netting`, `Solver`, `Calendar`, `SearchCache`, `CouponJobs` | 5 rows of 2 quantities and prices: open, overdrawn, flat and opened again; 5 grid points, so every falling function with roots at the ends, between points and nowhere, the lowest of them the pole of a long period; 2 bonds, with and without period and schedule, over 5 days that include coupon days and maturities; 2 searchers, 2 keys, a time to live shorter than the run; 2 runs with pages of 2, one change of the list, lists longer and shorter than a page, so that two runs with different dates delete and insert in any order on both databases |
| `serving` | `Server`, `Api`, `Pages`, `IsinSearch` | 2 populate tasks, a queue of 2; 1 client, whose requests do not meet in the model; 2 rows and 2 handlers that come back in either order; 3 texts and 5 edits: an ISIN applied, changed and typed again |
| `server_loops` | does a published message get the main loop to handle it? **No** | 2 populate tasks, a queue of 2 |

The modules in `calculations` and `serving` share no state. A behaviour is about one of
them, chosen by `part` in the initial state; the others rest.

The runs marked **No** are disagreements between the code and its documentation;
`PROJECT.json` ("findings") quotes both sides. Findings without a run are
differences met while reading for the models.

Some statements of the documentation that the code does not keep stand in the
modules without a run of their own, because the run of a neighbouring property
already explores the same states. To see the counterexample, put the name into
the `.cfg` given:

| Statement | Module | Into |
|---|---|---|
| `PublishOrder`: delivery order is publish order | `EventBus` | `MCEventBus_safety.cfg`, INVARIANT |
| `StoppedBusIsEmpty`: a stopped bus holds no message | `EventBus` | `MCEventBus_safety.cfg`, INVARIANT |
| `TimedRequestReturns` when handlers may be removed | `EventBus` | `MCEventBus_safety.cfg` with FairSpec and without SYMMETRY, PROPERTY |
| `RefusalsJustified`: a refusal has a position that would go below zero | `Portfolio` | `MCPortfolio_locked.cfg`, PROPERTY |
| `HoldersTold` without `database = "sqlite"`: holders are told on PostgreSQL, too | `Registry` | `MCRegistry_pass.cfg`, INVARIANT, after dropping the antecedent |
| `DeletionsAlone`: nothing else goes with a deleted row | `Registry` | `MCRegistry_pass.cfg`, PROPERTY |
| `Agree`: owners agree on SQLite, too | `Registry` | `MCRegistry_pass.cfg`, INVARIANT |
| `NextCouponsAhead`: the next coupons lie ahead | `Calendar` | `MCCalculations_pass.cfg`, INVARIANT |

`MoneyConserved`, `ResultIsRoot` and `FormMatchesSelection` hold; they are proved and need no
run.

`CHECK_DEADLOCK FALSE` stands where the system may stop: the bound on messages,
changes, days or rows is used up, a computation has its result, the bus is stopped
for good, or `main()` has ended. The bounds inside the models are named in their
CONSTANTS (`MaxMessages`, `MaxChanges`, `Ids`, `LastId`, `MaxRows`, `LastDay`, `LastTime`,
`MaxEdits`, `MaxIterations`); the number of tasks, the capacities, the quantities and
the page limits are parameters.

**Fairness.** An asyncio task that can go on is run by the loop: weak fairness of
client steps, of dispatcher steps and of the end of `stop()`. Nobody is obliged to
publish, to subscribe or to stop. Handlers end (a handler that hangs holds its
queue by design). A routing client that is woken competes with newcomers for its
slot, but newcomers are bounded by `MaxMessages`. In `Portfolio` the row lock is
granted to each waiter in turn (strong fairness), a running call goes on (weak
fairness). `bus_liveness` is about a bus used from one loop, as its class supposes; as `main.py`
composes the program, publishers and dispatchers are on two loops, and `AnalyticsCache`, which
models that, assumes no fairness and has no liveness property. In `Server` the steps of `main()` and the dispatcher, when the main
loop is awake, are weakly fair: a loop runs what is ready and its timers expire. A
signal need not come, and the server thread need not stop when asked to. That is
why `ShutdownEnds` rests on `GiveUp`, and `EventsHandled` fails.

## The proofs

TLAPS checks these for every value of the constants that satisfies the assumptions
the modules name (`ConstantsAssumption`, `LedgerAssumption`, `PortfolioAssumption`,
`AnalyticsCacheAssumption`, `RegistryAssumption`, `BoundAssumption`, `NettingAssumption`,
`SolverAssumption`, `CalendarAssumption`, `SearchAssumption`, `CouponJobsAssumption`,
`ServerAssumption`, `PagesAssumption`, `IsinAssumption`: sets of the right kind; capacities
and pages of at least one; a table of bonds that is finite; "nobody" is not a task, 0 is
not a row, and no bond has the empty ISIN). Every safety invariant and action property
that a run checks is the statement of a theorem.

`EventBus_proofs`:

* `TypeInvHolds`: `TypeOK` needs `CallsHoldMessages` to be inductive; `RouteTypes`
  and `DrainTypes` carry the two operators that move messages. `TypeCorrect`
  includes that no queue outgrows its capacity.
* `FuturesHold` ties a future to the phase of its request. From it come
  `StopReleases`, `FirstWins` and `RepliesMatch`.
* `Watermark`: `RouteWarns` and `DrainWarns` show that a queue reaches the
  threshold only in steps that warn or that find the flag set; the flag is set only while the last
  report is of this fill or of one that a drain cut short. So the silence of `bus_silence` is the
  only one.
* `DispatchersHold`, `Served`: `DispatcherInv` adds to the property that no
  subscription is registered twice (else `unsubscribe()` would leave one behind) and
  that a `stop()` under way means a stopped bus.
* `InSenderOrder`: `OrderInv` adds that a client inside a call holds a message of its
  own, that nothing queued or handled is newer than the last message issued, and
  that what a held-back routing has yet to reach names no subscription twice. With
  these a message that is put at the end of a queue is newer than all of its sender's
  in it, and the drain, which lets several sleepers put at once, lets each put once.
  `TodoOnce` is where `DispatcherInv` is needed: a routing starts with the registry.
* `WakeupsKept`: `WakeInv` adds that a sleeper sleeps once and on the head of what it has
  yet to reach, and that the clients inside a routing are finitely many, so that
  those awake at one queue can be counted for any number of clients. Each action is
  a case of bookkeeping: a `get` adds a free slot and takes the first sleeper from
  the line; a put or a return to sleep uses one of both up.

`Portfolio_proofs`:

* `TypeInvHolds`, `TypeCorrect`, with row locks and without.
* `LocksHold` (with row locks): the inductive invariant `LockInv` says that a call
  past its lock holds it, that there is one row for a key, that what a writing
  call is about to take out or put in belongs to its user and its check is still
  true, and that pending inserts have keys of their own. The argument: two
  writers hold different users' locks; a write touches its own user's rows only
  (`WriteEffect`); the sums a check compared are over accounts of one user, so
  another user's write leaves them alone (`ClaimKept`).
* `ChecksStayValid` and `OwnersWrite` follow.
* `LedgerHolds`, `PositionsNonNegative`: `LedgerInv` is `LockInv` with a table that is finite
  and positions that are not negative. A write replaces at most one row by at most one, and the
  check that is still true says what the sum is without and with it.
* `ImplementsLedger`: every step leaves the table alone or is an add, an amendment or a
  removal of `Ledger`; that the positions are non-negative after it is
  `PositionsNonNegative`, primed.

`Ledger_proofs` is what these sums need. `QuantityOf` is a fold of the library: a recursive
function that takes the rows in an order nobody knows. `SumExists` shows that there is
such a function, `QuantityStep` that a row may be taken out first or last. Both go by a
smallest counterexample, a set of rows none of whose proper subsets is one (`SmallestSubset`).

`Registry_proofs`:

* `TablesHold` on both databases: `TableInv` has the rules of the tables and what a
  flushed call has found (`Founding`): the rows it refers to are there, no other row has its
  key, whatever refers to a row that goes, goes as well. What keeps this true until
  the commit are the locks of `Conflict`: `Apart` says that two calls that have flushed do
  not conflict. `Numbered`: no sequence is behind an id in use.
* `ImplementsCatalogue`: a commit of a call with `Founding` is one change of `Catalogue`;
  no other step touches `rows`.
* `RegistryHolds`: `PostgresInv` says of PostgreSQL that what a call remembers of a row
  stays true of every row of that id, because ids do not come back (`Settled`).
  `AccountsAgree` and the PostgreSQL half of `SchedulesHold` follow; on SQLite both are false
  (`Agree` below the runs, the run `registry_schedules`), for just this reason. The SQLite half of
  `SchedulesHold`, one schedule for a bond, rests on `Conflict`: nobody inserts between the `DELETE`
  that begins a writing transaction and its commit.
* `HoldersAreTold` on SQLite: while a call has flushed nobody else commits, so who holds the bond
  at the commit held it when the holders were read (`AudienceInv`).

`AnalyticsCache_proofs`:

* `TypeInvHolds`: a version stays within its bound because it is at most the number
  of calls (`Counted`); for the bond this needs that only the holder of the lock is
  about to change it. `TypeCorrect` follows.
* `EventsVouched`: `RecentInv` follows an event from the writer over the queue to the
  recalculation. In each place the change it tells of is committed (except on
  `bond.updated`), and no step takes a commit back (`LedgerGrows`); a recalculation
  that has read has seen it. `RecalculationsSeeTheChange` follows. Without
  the first two parts the property is not inductive: an arbitrary event in a queue
  might run ahead of its commit.
* `ChangesAreKept`: an event that enters a queue raises `announced` and is owed from then on; a
  get moves the debt to the recalculation, which by `RecentInv` stores what it owes; a failing
  handler and `stop()` are the only steps that drop one, and both write it down.

`Calculations_proofs`:

* `HeldHasAverage`, `AverageIsOfOpenPurchases`, `ProfitsBalance` for histories of any length,
  quantities and prices. `WalkInv` has the types, that a position that is closed
  has no cost, and that no more is held than is open; the average between two purchases p and q stays there
  because a purchase adds a price of the set and an exit scales cost and units alike.
  The products are nonlinear, so each step is a lemma about one branch.
* `BracketKept`, `ResultPricesBond`, `NoneIsTrue`, `OrdinaryIsAnswered` for a grid of any width, a pole
  anywhere and any function that falls above it. `SolveInv` adds to the properties that the bracket is whole until the bisection starts; `NoneIsTrue` needs that the function
  falls: two ends on one side leave no root between.
* `GridsFit`, `PrincipalIsOnce` for any maturity, period, stored schedule and day. The grids are
  recursive functions; each is shown to be the set of days that are a multiple of the
  period away from the maturity date (`GridIs`, `LastFound`): the closed form satisfies the
  equation, so the function exists, and a smallest distance at which the two differ
  leads to a smaller one (`LeastNatural`). What is left is arithmetic of remainders.
* `NextAreComplete` for any number of bonds and any order of readers, recalculations and
  midnights. `CalendarInv`: what is cached is the summary of some day. The rest is about
  lists: ranks of payments are those of a sequence (`RanksTaken`), a last payment
  goes to the end (`OrderedLast`), so keeping some of an ordered list gives the ordered
  list of those kept (`WithinIsDue`).

`Serving_proofs`:

* `ShutdownIsOrderly` for any number of populate tasks and any capacity. `ServerInv` ties
  the stage of `main()` to the parts: past the wait the server has ended or was given
  up, past `StopBus` nothing is queued, and a client that is closed had no tasks left.
* `StatusIsHonest` for any number of clients. `ApiInv` says for every phase of a request whether it
  has committed; an answer after a commit that is no success is that of a call on a transaction.
* `NamedErrorsAreMapped`: every error that a service names is known to a handler (`KnownStatus`),
  whose status is never 500, and is raised before anything is committed. It is about the exception
  behind the answer, so that a 500 of a writing endpoint does not pass for something else.
* `FormIsOfSelection`, `HitsWhatIsSeen` for any rows, values and handlers. `PagesInv` says that
  what the screen may still show of a form is of the selected row, or that nothing is
  selected: a click needs a screen without dialogs, a reload only clears.
* `CandidatesAreOfField`, `ClosedIsQuiet` for any texts and edits. `SearchInv`: a search that is alive
  is the one that `_cancel_isin_search` would cancel, and the last change that has not
  been handled is what stands in the field.

`Reference_proofs`:

* `ServedIsFresh` for any searchers, keys and time to live. `SearchInv`: a stamp is not later
  than the moment at which the provider had it so, for entries and for answers on
  their way.
* `SchedulesAreWhole`, `TableIsNeverEmptied` for lists and pages of any length. `CouponInv`: while the
  provider holds still, what a run has got is the prefix of the list up to its
  cursor (`PageProperties`, `PageCollected`), and it ends early only at the end of the list or
  at the page limit. `OneWriter`: on SQLite no run commits between another's `DELETE` and its
  commit. That the table is not emptied on PostgreSQL, where runs do commit in between, is seen from
  a run's own rows: it deletes only when it has rows to insert.

Only model-checked: liveness (`RoutingEnds`, `EverySubscriberServed`, `TimedRequestReturns`,
`CallsEnd`, `ShutdownEnds`), which is out of the prover's reach, as is ENABLED. The library's induction theorems have an operator as
parameter, which the provers cannot instantiate; where a proof needs induction (sums,
grids, lists) it goes by a smallest counterexample instead, with the theorem `WFMin`.

## Not modelled

`PROJECT.json` ("components") has the reason beside every part. In short:

* amounts of money in summaries, values of closed forms, floating-point rounding;
* the shapes of requests, answers and provider rows (parsing, validation, formatting),
  the merge of two provider payloads into a search result;
* password hashing and the encoding of tokens;
* the pages that only show what a service returns (home, analytics), cookies, the login
  form, the commission hint of the transactions page;
* settings, log records, the engine factory, running the migration tool: no behaviour of
  their own; the external bus has no implementation;
* unbounded queues (the shipped configuration bounds them) and coupon versions in
  `AnalyticsCache`;
* the cancellation of a task that publishes or requests (the repository cancels dispatchers and
  populate runs only), a commit whose acknowledgement is lost.

## Plan

1. Done: the core (`EventBus`, `Ledger` and `Portfolio`, `AnalyticsCache`) with its theorems.
2. Done: tables and their calls, calculations, reference data, serving and pages, with the
   theorems of `Calculations_proofs`, `Serving_proofs` and `Reference_proofs`.
3. Done: `Registry_proofs`, `Ledger_proofs`, the sums and the refinement in `Portfolio_proofs`, order
   and backpressure in `EventBus_proofs`, what the cache keeps in `AnalyticsCache_proofs`, errors and the ISIN search in `Serving_proofs`, dates in
   `Calculations_proofs`.
4. Proofs of what liveness rests on: that in `Portfolio` a waiting call is waited for by
   no call it waits for, that a woken publisher of `EventBus` finds its slot unless a
   newcomer has put one more message.
