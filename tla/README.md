# Trade tracker in TLA+

Specifications, model-checking runs and proofs for the trade database of this
repository: the FastAPI application `trade-tracker/` (with its React frontend)
and the event recorder `ingestion-service/`.

## 1. The system

Two programs share a PostgreSQL server, in a database each.

*trade-tracker/api* is one asyncio process. Its handlers and background tasks
are coroutines, and every `await` on the asyncpg pool, on a worker thread or on
a lock is a point where others run. No handler opens a transaction: each
statement commits by itself, and a handler that fails half way leaves what it
has written. *ingestion-service* is one process that receives batches of events
over ZeroMQ and writes each event to PostgreSQL and QuestDB.

| Component | State | Operations | What makes it correct |
|---|---|---|---|
| **IBKR trade sync** (`routers/ibkr.py`, `services/ibkr_client.py`) | table `trades`, `_sync_lock`, `_last_sync_result`, `_last_sync_at` | `sync_ibkr_trades` from start-up, cron, `update-all` and the endpoint | one sync at a time; no order id twice; every reported row counted once and recorded in the end |
| **Fidelity imports** (`routers/imports.py`, `trades.py`, `FidelityUpdateWizard.tsx`) | `trades`, `imported_positions`, `fidelity_imports`, `_preview_cache` | preview, commit, upload, delete positions, reset | no trade twice; the positions of an account come from one file; success means complete |
| **Ingestion service** (`ingestion-service/`) | `orders`, `positions`, three QuestDB tables, the socket's queue | receive, route, five writes | both stores agree; history in order; nothing waits for ever |
| **Position values and NAV snapshots** (`main.py`, `routers/portfolio.py`, `services/portfolio_metrics.py`) | `imported_positions.current_value`, `portfolio_snapshots` | refresh loop, `update-all`, backfill, generate | late prices change no holdings; values settle; each day recorded; live NAV kept |
| **IBKR session** (`services/ibkr_client.py`, `main.py`) | OAuth headers, `_session_healthy`, throttle time stamp, conid cache | connect, tickle, reauthenticate, reconnect, GET with 429 retry | heals by itself, tears down nothing that works; requests spaced; no data only for a cause |
| **Market data** (`services/market_data.py`, `first_rate_data.py`, `routers/market.py`) | quote and history caches | quotes, history, batches, provider fallback | one provider that answers is enough; that there is no history is remembered for a cause and not for ever |
| **Performance and FIFO** (`portfolio_metrics.py`, `portfolio.py`) | none (functions of `trades`, `cash_flows` and closes) | return series, period windows, drawdown, win rate, FIFO matching | a return is what prices earned; periods agree; sales meet the oldest shares |
| Database start-up (`db.py`) | pool, schema | connect with retry, create database, schema, migrations, readiness | ready only when all tables exist; safe to repeat |
| Google authentication (`services/auth.py`, middleware) | key cache | verify, refresh keys | key rotation is followed, an outage tolerated |
| Parsers | none | CSV and XLSX to trades | — |
| Dashboard | request state | load summary, analytics, update | the answer shown belongs to the period and tab selected |
| Configuration, schemas, deployment | none | — | — |

How they interact: the import and `update-all` start a backfill; `update-all`
calls the trade sync; the snapshot-cron container posts to
`/portfolio/snapshots/generate` and `/ibkr/sync/trades` every five minutes;
imports, the refresh loop and `update-all` all write `imported_positions`;
the four snapshot writers all upsert `portfolio_snapshots`; `DELETE
/trades/reset` empties what all of them write. Everything that asks the broker
(the sync, positions, quotes, bars) goes through the one client, whose session
the keepalive task looks after; everything that values a position goes through
the caches of the market data, which ask that client and Yahoo.

Hard to get right, and the reason for the models: check-then-insert without a
unique index, handlers that interleave between their statements, statements
that fail in the middle of a handler, restarts, quotes and session flags that
are stale when used, writes to two stores, and several writers of one row.
`PROJECT.json` lists each such hazard at its line.

## 2. Modules

| Module | Models | Composed with |
|---|---|---|
| `TradeLedger` | what the table of IBKR trades promises | implemented by `TradeSync` |
| `TradeSync` | the trade sync | `TradeLedger` (`INSTANCE ... WITH rows <- trades`) |
| `TradeSyncProofs` | theorems about `TradeSync` | |
| `ImportWizard` | imports, deletion, reset | |
| `ImportWizardProofs` | theorems about `ImportWizard` | |
| `Ingestion` | the ingestion service | |
| `IngestionProofs` | theorems about `Ingestion` | cites `FoldTheorems` |
| `Snapshots` | pricing and snapshots | imports and the sync appear in it by their effect |
| `SnapshotsProofs` | theorems about `Snapshots` | cites `FoldTheorems` |
| `IbkrSession` | the broker's client, its session and its keepalive | |
| `IbkrSessionProofs` | theorems about `IbkrSession` | |
| `MarketData` | quotes and bars, their caches and providers | |
| `MarketDataProofs` | theorems about `MarketData` | |
| `Performance` | FIFO matching, the replay of trades, drawdown | |
| `PerformanceProofs` | theorems about `Performance` | cites `FoldTheorems` |
| `FoldTheorems` | lemmas about sums over finite sets and folds over sequences | |
| `MC...` | instances for TLC | one per component |

Definitions marked *Mutant* in a comment are deliberate errors, used by no
behaviour; replacing the definition after them by one must break the property
that `PROJECT.json` pairs it with.

### TradeSync

`lock` and `waiters` are the `asyncio.Lock` (first come, first served);
`pc[c]` is where caller `c` stands: waiting for the lock, fetching on the
worker thread, between rows, or between SELECT and INSERT. `todo` and `current`
are the rows still to handle and the one in hand, `tally` the counters,
`lastResult` and `fresh` the shared result and whether it is younger than 30
seconds (the clock is reduced to this flag). `executed` and `recent` are the
broker: the Portfolio Analyst report lists the fills of contracts held now, the
iserver report the recent ones. `OrderId` says under which id a row is stored;
this is where two reports of one fill differ and where equal fills of one day
coincide. `trades` counts rows per id. `Call`, `Wake`, `Fetch`, `SkipRow`,
`CheckRow`, `Insert` and `Finish` are the code between two awaits; `FetchPart`
is a client that answers failed requests with empty lists, `FetchRaises`,
`CheckFails`, `InsertFails` and `Restart` are what else goes wrong. A failing
INSERT may have been executed.

`sync_ibkr_trades` holds the lock across its awaits; so the statements of two
syncs never interleave and the check-then-insert is safe within one process.
The deployment runs one.

### ImportWizard

An operation (commit, upload, deletion, reset) is a number; for imports it is
the id `fidelity_imports` returns. `pc` and `job` hold where it stands and its
local variables; every action is one SQL statement. `previews` is
`_preview_cache` with expiry. `Bodies` is what the wizard may send back after
one edit, including quantity 0 and a symbol the file no longer lists.
`overlap` is a history variable: the pairs of operations that ran at the same
time. The properties say that what goes wrong needs such an overlap. A
failing statement has no effect, but for the INSERT of a trade, which the
handler survives and which may have been executed. Dedup compares the columns
the SQL compares, which leave out the side: a sale equal to a purchase of the day
is skipped. `IsLostTo` names this loss, and the properties compare whole trades,
side included. Prices and quantities are small numbers, so
the SQL's tolerance is equality.

### Ingestion

`queue` holds the messages sent and not received, `at` and `step` the event in
hand and the store that comes next. Which events each writer accepts
(`OrderAccepts`, ...) comes from the fields it reads with `[]` and the NOT NULL
columns. `disturbed` remembers which events a fault touched: properties about
agreement of the stores are about the other events. `End` is the process's end,
which loses the rest of the batch and any prefix of the queue the socket had
taken; `Crash` is one anywhere, `ReceiveGarbage` the exception of a message that
is no JSON object, with the `socket.close()` that follows. `Start` is somebody
starting the container again.

### Snapshots

Four kinds of job share two slots: the refresh loop, and one request at a time
(update-all, backfill or generate). Jobs interleave with imports, deletions and
resets (their statements are in `ImportWizard`; here one action), with midnight
and with the IBKR session going up and down. A price is constant and so are the
holdings at IBKR; what varies is when they are read and written. Only
`total_nav` and `daily_pnl` of a snapshot are kept. `LiveReadFails` is a session
lost in the middle of a live read, which then gives 0, or the rows priced one by
one or as they are stored. An import is of another account than the one at IBKR.

### IbkrSession

`pc` is where each thread's request stands: due, asleep in `_throttle_ibkr`,
about to be sent, in flight, backing off after a 429. `age` is the time since
`_last_ibkr_request_at`, counted up to the delay; `ReadStamp` and `WriteStamp`
are the two accesses the throttle makes without a lock. A worker's call is a
sequence of such requests, with the lead request for the accounts and the
retries of `get_positions` and of the snapshot poll (`lead`, `tries`). The
keeper is the event loop: the start-up handler, then `_ibkr_keepalive_loop`.
`ensure_session` calls `requests` on the event loop itself, so that the keeper
does one request at a time; the worker threads run beside it, and `Reconnect`
takes `_oauth_headers` away from them until the handshake is done. The broker
is up, up with positions that are not loaded yet (only `portfolio2` answers),
busy (429) or down; its brokerage session may end and its bearer token expire.
An exception of the handshake at start-up ends the process: `connect_oauth`
raises and `main.py` does not catch it. Nothing brings it back, as the service
`trade-tracker` has no restart policy in `docker-compose.yml` and
`railway.toml:8-9` gives up after three retries; `StartUp` is somebody doing so,
and is never assumed to happen. `calm` and `smooth` are history variables:
no trouble at the broker in this round, and during this call.

### MarketData

`quotes` and `bars` are `_price_cache` and `_hist_cache`; expiry is an event
that may come at any time. A call looks into the cache and then asks the
providers of `Route` in turn; each answer is an action of its own, so that
other threads, expiry, outages and recoveries come in between. The portfolio's
overlay of Yahoo's prices on the broker's positions is a kind of call of its own
(`YahooKinds`), which no quote of another source serves. `get_latest_prices`
first warms the cache and then gets each quote again; the batch asks the cache,
the FirstRateData files, Yahoo (twice, in one download), each symbol by itself
if that failed, and IBKR for what is still missing. A download may answer with
some of the symbols, with columns without values (which the code stores as an
empty history), or break off after some symbols were stored. `trouble[t]` is a
history variable: the providers that failed at some time in the call.

### Performance

The state is what the database and the market hold, day by day, built by any
sequence of trades, payments and closes; the code's loops are folds over it.
Amounts are whole numbers and a return is a pair of gain and base, so that
nothing is rounded. What the figures should be is defined without following
the code: `Profit` and `Bought` list single shares in the order bought,
`Gain` multiplies price changes by holdings, a drawdown is the deepest fall
between any two days.

Three things the code does make its returns differ from gains, and the
properties except exactly these (without the exception TLC finds each):
a list of lots (no sale yet) with recorded payments counts a deposit as a flow
though it adds it to no NAV (`portfolio_metrics.py:650-652`); a purchase with
cash below zero writes that debt off (`:522-523`), and a day whose NAV is not
positive drops its flow (`:656-657`); a position without a close of its own day
keeps the last one it had while it was held (`:541-545`). Payments before the
first trade are read by the period that begins before them and not by a shorter
one (`:594`, `:603`), so `WindowsAgree` excepts them. A recorded deposit and the
implied one of a purchase the same day both enter the NAV: the trade is
replayed before the deposit is booked (`:624-652`); this changes the NAV, but
not the return.

## 3. Runs

| Run | Specification | Bounds | Result |
|---|---|---|---|
| `sync` | `Spec` | 3 callers, two equal purchases of a contract, 1 fault | passes |
| `sync_live` | `FairSpec` | 2 callers, a purchase and the event that closes the position, 1 fault | passes |
| `sync_twice` | `Spec` | 1 caller, two equal purchases, no fault | `OneRowPerFill` violated |
| `wizard` | `Spec` | 2 operations, 2 previews and faults together, 4 files (a workbook and an export that share an account and a trade, the export with a purchase and a sale the duplicate check confuses; an unreadable file and one the parser raises on), at most 1 fault | passes |
| `wizard_upload` | `Spec` | one file | `UploadsSkipDuplicates` violated |
| `ingestion` | `FairSpec` | 3 messages, 2 faults | passes |
| `ingestion_fill` | as above | | `FilledOrdersShowTheFill` violated |
| `snapshots` | `FairSpec` | 2 accounts, 1 symbol, 2 jobs, any of 1 import, reset, fault, session change or midnight | passes |
| `snapshots_live` | `Spec` | the same without the outside event | `LiveNavIsKept` violated |
| `session` | `FairSpec` | 1 worker and the keeper, any 2 events at the broker, 1 retry, 2 polls | passes |
| `market` | `FairSpec` | 2 threads, a stock both services know and a contract only IBKR knows, 1 outage or bad download | passes |
| `figures` | `Spec` | 3 days, 3 trades of 4 kinds in 2 symbols, 1 payment | passes |

Why the bounds are enough. Three callers are one inside, one queued and one
that arrives. Two operations suffice for every hazard of the imports, all of
which are about pairs. Equal fills, a closed position, a file with a purchase
and an equal sale, an unreadable file and incomplete events are in the
instances because they are the inputs on which the code branches. One fault
reaches each single-failure state; two in the ingestion let a second one meet
the recovery from the first. In `snapshots` the database starts with positions
or without, so that a single import is enough to make a job's rows stale. In
`wizard` previews and faults share the bound `MaxPreviews`: a preview the cache
lost and a fault are never needed in one scenario with two files. In `session`
the keeper itself is the second thread of the throttle, and the theorems say
the same of any number of workers; two events are trouble and its end, or two
kinds of trouble at once. In `market` two threads share every entry, calls about
quotes and about bars are separate behaviours because their caches have nothing
in common, and providers start up or down in any combination, so that the one
outage is a second one. In `figures` three days are one before the window, its
first day and a later one; the orders buy one lot and two, sell part of a lot,
across lots and more than is held; `CHECK_DEADLOCK FALSE` there, as the history
ends with its days. The counters bounded are `MaxFaults`, `MaxOps`,
`MaxPreviews`, `MaxSent`, `MaxEvents`, `MaxDays`, `MaxTrades` and `MaxFlows`;
the fills and the callers are finite sets. Symmetry is not used.
Deadlock checking is off where all the bounded events may be used up.

### Properties

- `SingleFlight`, `FetchesAreSpaced`, `UniqueOrderId`, `Accounted`: the
  comment over `_sync_lock` (`ibkr.py:181-189`), the dedup of `_insert_trade`,
  and the counts the endpoint reports. `ImplementsLedger`: the sync refines
  `TradeLedger`.
- `CallersAreAnswered`, `ReportsAreRecorded`: liveness. A fill is recorded
  *or no report lists it any more*: a position closed before a sync, whose
  fills aged out of iserver, is lost, and the formula says so.
- `CommitsSkipDuplicates`, `OneImportPerAccount`, `PreviewUsedOnce`,
  `OrphansNeedOverlap`: each bad state needs operations that overlap.
  `LastSnapshotIsWhole`, `SuccessMeansRecorded`: what a status of success
  promises, after failures and retries as well.
  An import that reports success has each trade of its file in the table, side
  included, but for those lost to an opposite trade that was there before.
- `HistoryInOrder`, `PositionsMatchExecutions`, `OrdersShowLastEvent`,
  `MessagesAreReceived`: the ingestion's stores. `OrdersShowLastEvent` is about
  orders whose last event reports a status; what becomes of the others is the
  disagreement below. A service that is down receives nothing.
- `PricingKeepsHoldings`, `ValuesSettle`, `TodayIsRecorded`: the refresh.
- `SpacedUnlessOverlapping`: what a throttle without a lock is worth.
  `OneRoundHeals` and `SessionHeals`: the docstring of `ensure_session`, "heals
  on its own"; a round of the keepalive without trouble at the broker ends with
  a session that works, and once the broker serves for good the client is
  connected for good, as long as its process runs. `LiveSessionIsKept`: no
  reconnect of a session that a reauthentication would have restored.
  `session`'s `EmptyForCause`: callers read "no data" as an empty account, so it
  must not happen without trouble or a reconnect. `EveryCallReturns`: no retry
  goes on for ever.
- `MissingForCause`: a call without an answer met trouble at every provider
  that knows the symbol. `market`'s `EmptyForCause`: so did the call that stored
  that there is no history, unless a batch is still at work; this is where a
  batch that shows its provisional entries to others is excepted.
  `EmptyReplacesOnlyNewer`: an empty answer overwrites bars only if they
  were stored after its call had looked. `HistoryRecovers`: an outage is
  forgotten.
- `FirstInFirstOut`, `ReturnsAreGains`, `WindowsAgree`, `DrawdownIsDeepest`:
  the figures against their definitions.

### Disagreements the runs show

- `OneRowPerFill`: a fill listed by both reports is stored twice
  (`ibkr.py:83` composes an id, `ibkr.py:100` takes the execution id), in the
  table the schema calls the source of truth.
- `UploadsSkipDuplicates`: `POST /import/trades` looks for
  `source='portfolio'`, its parser writes `'fidelity'`; its docstring promises
  that duplicates are skipped.
- `FilledOrdersShowTheFill`: an execution carries no status, fill quantity or
  average price (`tests/comprehensive_test.py` sends one after the order's
  `SUBMITTED`), and the `ON CONFLICT` branch of `update_order` writes the
  defaults over the row: an executed order ends with the status `UNKNOWN`
  and without a fill, against `README.md:138`. (One first seen by its execution has
  no fill either, as the INSERT has no fill columns.)
- `LiveNavIsKept`: the refresh loop overwrites the IBKR account's live NAV by
  a sum of stored values, which mirrored rows do not have, against the comment
  in `docker-compose.yml`. In the trace the live row comes from the backfill of
  `update-all`; `generate` writes the same row.

### Fairness

`sync_live` assumes weak fairness of each caller's next step (the event loop
runs every ready coroutine, requests have timeouts), of waking the lock's first
waiter (asyncio), of the clock, and of one caller, the cron, calling again and
again: the container `snapshot-cron`, the one service of `docker-compose.yml` with
`restart: unless-stopped` (line 115). `Restart` of `TradeSync` is a process that dies
and is started again in one step; the liveness says nothing of one that stays
down. `ingestion` assumes it
of the receive loop, never of the restart: compose has no restart policy for
that service. `snapshots` assumes it of the steps of each job and of the loop's
waking up (`while True` in `main.py`); no request has to come. Broker, imports,
faults, midnights and session changes are under no fairness. `session` assumes
it of each thread's requests (they have timeouts of 30 seconds), of the clock and of
the keepalive's minute (`while True`, with every exception caught), never of
`StartUp`, and of nothing at the broker.
`market` assumes it of the steps of each call and of expiry, of no provider and
of no request. `figures` has no liveness.

## 4. Proofs

`TradeSyncProofs` proves, for any finite set of fills, any callers and any
number of faults:

| Theorem | Property |
|---|---|
| `TypeCorrect` | `[]TypeOK` |
| `MutualExclusion` | `[]SingleFlight` |
| `NoDuplicateOrder` | `[]UniqueOrderId` |
| `Refinement` | `ImplementsLedger` |
| `EveryRowIsCounted` | `[]Accounted` |
| `BurstsShareAFetch` | `FetchesAreSpaced` |

`UniqueOrderId` is not inductive: an INSERT adds a row whatever is there, so
one has to know that nothing was inserted since the SELECT. The invariant of
`Invariance` adds that whoever is past the lock's acquisition holds the lock
(`LockInv`), that the row in hand between SELECT and INSERT parses and its id
has no row in the table yet (`PendingInv`), and that rows in hand or to do come
from executed fills (`TodoInv`). The first part keeps every other caller from inserting, the last gives
the refinement its `Record` step: `Insert` and an `InsertFails` that was
executed map to `Record`, `ExecuteFill` to `ExecuteFill`, `ResetTrades` to
`Wipe`, everything else to a stutter. `Accounted` needs that a caller has a row
in hand only between SELECT and INSERT (`NoneInHand`), where that row is in
neither `todo` nor the tally; together they are `CountInv`. `FetchesAreSpaced`
follows step by step: only `Call` and `Wake` enter a fetch, and both with the
lock free and the last result not fresh. The only assumption is `SyncAssumption`
of the module, which TLC evaluates in the runs.

`IbkrSessionProofs` proves, for any set of workers and any delay, retries and
polls:

| Theorem | Property |
|---|---|
| `TypeCorrect` | `[]TypeOK` |
| `RequestsAreSpaced` | `SpacedUnlessOverlapping` |
| `RoundsHeal` | `[]OneRoundHeals` |
| `LiveSessionsAreKept` | `LiveSessionIsKept` |
| `EmptyAnswersHaveACause` | `[]EmptyForCause` |

`RequestsAreSpaced` rests on `SpacingInv`: of a thread that sleeps in the
throttle alone, the time it has left and the time since the last request add up
to the delay. `RoundsHeal` and `LiveSessionsAreKept` share
`RoundInv`, which follows a round without trouble step by step: the broker
serves (`CalmInv`), the request in flight carries the headers of the moment
(`CarriedInv`), after the handshake the session is authenticated (`BootInv`),
after an answered reauthentication too (`RestoredInv`), and a reconnect comes
only after a round in which the token had expired or something went wrong (`DropInv`).
`SmoothInv` says that while a call meets no trouble the session works, its
request in flight carries the valid headers, and it does not end empty: with
cold positions, because the last attempt is the one at `portfolio2`.

`ImportWizardProofs` proves, for any files, any number of operations and any
number of faults:

| Theorem | Property |
|---|---|
| `TypeCorrect` | `[]TypeOK` |
| `CommitsNeverDuplicate` | `[]CommitsSkipDuplicates` |
| `AccountsAreOfOneImport` | `[]OneImportPerAccount` |
| `PreviewsAreUsedOnce` | `[]PreviewUsedOnce` |
| `SuccessIsComplete` | `[]SuccessMeansRecorded` |
| `SnapshotsAreWhole` | `[]LastSnapshotIsWhole` |
| `OrphansNeedReset` | `[]OrphansNeedOverlap` |

All of them say that something is so unless two operations overlapped; so all
rest on `OverlapInv`: an operation that does not overlap a later one ended
before that one started. What each adds is what a handler may rely on between
two statements. After the SELECT of a commit that found nothing, a row with the
same key is of an operation that runs beside it (`SelectInv`, without which the
INSERT breaks the property); past the DELETE of an account, so is every foreign
row in it (`ClearInv`); while a reset runs, so is every trade (`ResetInv`).
`SnapshotInv` and `LinesInv` say how much of a file an import has written so
far, or lost to an opposite trade, which `RowsInv` places before it (a row comes
from a line its import is through with); `SuccessInv` that success leaves nothing
to write, `PreviewInv` that the preview of a commit that ended never comes back.
`JobInv` ties the place of an operation to its local variables, `BodyInv` the
positions of a body to the accounts of its file, for which its DELETE clears the
way. Where a commit skips a line, its SELECT has found a row with the line's key:
of the same side it is the trade itself, of the other it is the loss
`SuccessIsComplete` names (`SkippedIsHandled`).

`IngestionProofs` proves, for any messages and any number of faults:

| Theorem | Property |
|---|---|
| `TypeCorrect` | `[]TypeOK` |
| `TablesKeepTheOrder` | `[]HistoryInOrder` |
| `LastEventIsShown` | `[]OrdersShowLastEvent` |
| `PositionsAreExecutions` | `[]PositionsMatchExecutions` |

The socket's queue is always the rest of what was sent (`QueueInv`), and the
event in hand is later than all that the tables hold (`HistoryInv`); an event
that is appended is therefore new and the last. The other two properties speak
of the moments between events; in the middle of one, a position is one event
ahead of QuestDB and an order shows the event in hand. `PositionInv` and
`OrderInv` say so for every step, and `PastChar` what a step, a fault or a crash
adds to the past.

`SnapshotsProofs` proves, for any finite sets of accounts and symbols, any
jobs, and any imports, resets and faults between their statements:

| Theorem | Property |
|---|---|
| `TypeCorrect` | `[]TypeOK` |
| `HoldingsAreKept` | `PricingKeepsHoldings` |

Both the NAVs of `Snapshots` and the positions of `Ingestion` are sums over
sets that grow one element at a time. `FoldTheorems` proves that such a sum is a
number and that the order of adding up does not matter (`SumOfType`,
`SumOfAdd`): by induction over the subsets of a finite set, stated for a set of
subsets instead of a predicate, so that it stays first-order. What this module
proves is mathematics the theorems cite, and says nothing of the program itself.

`MarketDataProofs` proves, for any threads and symbols, whatever each provider
knows and however often one fails:

| Theorem | Property |
|---|---|
| `CallsKnow` | `[]IInv`, the inductive invariant |
| `TypeCorrect` | `[]TypeOK` |
| `MissingMeansTrouble` | `[]MissingForCause` |
| `EmptyMeansTrouble` | `[]EmptyForCause` |
| `EmptyNeverOverwritesOlder` | `EmptyReplacesOnlyNewer` |

Not even `TypeOK` is inductive, as the place in the route must not run past its
end (`AskFine`). `LoopFine` and `BatchFine` say at every line of the code what a
call knows of the symbols it is through with: found, in the cache, or missing
with trouble at each provider asked so far; a batch at first knows this only of
the files, then of Yahoo, in the end of IBKR. Other threads do not change what a
call knows, only the cache. So `EmptyInv` says of the cache that who stored an
empty history is excused or still going to ask, and `MovedInv` that bars a call
may overwrite arrived after it looked. `IInv` is the conjunction of these.

`PerformanceProofs` proves, for any finite set of symbols and every history of
trades, payments and closes:

| Theorem | Property |
|---|---|
| `DrawdownIsDeepestFall` | `IsDeepest(MaxDrawdown(navs), navs)` for every series of positive NAVs |
| `DrawdownsAreDeepest` | `[]DrawdownIsDeepest` |
| `PeriodsAgree` | `[]WindowsAgree` |
| `SalesMeetOldest` | `[]FirstInFirstOut` |
| `ChartShowsGains` | `[]ReturnsAreGains` |

The code's loops are folds here, which the community modules define by
recursion over sets of indices. `FoldIsWalk` of `FoldTheorems` turns each into a
walk: values that begin with the base and follow from each other by one element
each, the last of which is the fold. What a loop does is then an induction over
an interval of numbers (`IntervalInduction`, again for a set instead of a
predicate). The loop of `_max_drawdown` keeps the highest NAV so far (`IsPeak`)
and the deepest fall so far (`IsDeepestTo`); `DeeperStep` needs that of two
falls to one NAV the one from the higher peak is deeper, and that comparing
fractions is transitive. That the NAVs of a chart are positive is a type lemma
of the replay (`ReplayType`).
`PeriodsAgree` runs two replays in step. Until the first trade, with nothing
paid, the longer one stays as it began (`IdleTurn`); from there on both have the
same in hand, and the shorter one shows what the longer one shows after a cut
(`Agree`, `TurnAgrees`).
`SalesMeetOldest` is two walks, one inside the other. Within a sale (`Met`), what
is left of it, the lots kept and the profit so far always say that it has met as
many of the oldest open shares as it could; `TakeStep` adds one lot, and
`MatchTakesOldest` is its end. From row to row (`BooksFit`), the open lots of a
symbol are the shares bought less the first ones, as many as were sold, and the
profits stand in the order of the sales. That a lot's cost per share is the price
and its part of the commission needs commissions that are multiples of the
quantity, which `PerformanceAssumption` states.
`ChartShowsGains` follows what the account is worth at the closes of the day, less
what flowed in (`Own`). Each row changes that by what prices earn on it, unless a
purchase writes off a debt (`ReplayedOwn`, four cases of `ApplyTradeCash`), and
the shares by what it trades, so that the rows of a session add up
(`ReplayedRowsOwn`). From session to session (`Stands`) the shares are the net of
all rows so far, and a sound session is the last point of the chart, with its NAV
in `prev`: without that a return would be measured from another day than the one
shown before it. With `GainIs`, the gain as the difference of two valuations, the
return follows (`SessionEarns`). This needs lemmas about sums: over a set with one
value changed, of differences, over an interval in two parts.

The invariants were model-checked before they were proved: `ImportInv`, the
parts of `StoredInv`, `OrderInv` and `PositionInv`, and `IInv` (on two instances
of two threads, the larger of 4.5 million states).

Assumptions on the constants are those of the modules, which TLC evaluates. The
proofs need of them, besides types, that the values for "nothing" are none of
the things they stand beside: `NoPreview # Gone`, `NoOrder` is no row of
`orders`, `NoRow` no row of positions (in the code these are `None` or the
absence of a row), and that accounts and symbols are finite.

Out of the prover's reach and left to TLC: all liveness (`CallersAreAnswered`,
`ReportsAreRecorded`, `MessagesAreReceived`, `ValuesSettle`, `TodayIsRecorded`,
`SessionHeals`, `EveryCallReturns`, `HistoryRecovers`) and ENABLED. Every
safety invariant and action property of the passing runs is a theorem.

## 5. Not modelled

`PROJECT.json` lists every part. Left out for good: floating-point statistics
(beta, volatility, factor regressions), text formats of the files and their
parsers, signature checks of a library, rendering, configuration. Left out so
far: the database start-up, the key cache of the authentication and the
dashboard's overlapping requests (section 6).

Within the modelled parts: exceptions that leave a call of the market data
instead of falling through to the next provider (an unreadable FirstRateData
file, `market_data.py:265`, `:317` and `:488`, or IBKR's quote, `:494-495`): the
properties there are about calls that answer; the guard of `_max_drawdown` for a
peak of zero (`portfolio_metrics.py:166-167`), which the positive NAVs of the
replay never meet; the gateway mode of the client, which has no session
of its own, and its conid cache; the throttle in front of Yahoo, which is the
twin of the broker's (`market_data.py:94-101`); the download of the FirstRateData
bundle; the return series taken from stored snapshots and from Portfolio
Analyst, which convert what is stored; the benchmark's own return. Abstracted in
the modules: amounts and prices beyond what the code compares, labels and notes,
logging, and the clocks of the caches and loops (30 seconds, 1, 5 and 30
minutes), which appear as events that may happen at any time; only the throttle
counts time.

## 6. Plan

Modelled so far: the four parts that write the tables, the broker's session,
the market data and the figures. What could follow, the most exposed first:

1. `DbInit`: connection retry, database and schema creation by two processes.
2. `JwksCache`: rotation, expiry and outage of the key set.
3. `Dashboard`: overlapping requests of two periods and tabs.
4. `DailyPnl`, on top of `Snapshots`: what a later writer does to daily P&L.
5. Composition of `ImportWizard` and `Snapshots`: the backfill an import
   starts, against a second import.

Proofs: all invariants and action properties of the runs are theorems. A module of
the list above would come with its own.
