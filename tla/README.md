# TLA+ models of poly-asian-data

poly-asian-data is a Go agent for Polymarket prediction markets. Batch jobs pull
markets, tags and trades through a pipeline of worker pools into PostgreSQL; an
edge scanner scores the open markets and writes a *board*; a WebSocket listener
subscribes to the assets of the board, keeps their order books in memory, writes
features and snapshots and emits paper signals; offline evaluators replay signals
under a risk policy; a registry decides which strategy version is live.

This directory holds TLA+ modules translated from that code, TLC configurations
that check them on small instances, and TLAPS proofs of the results that hold for
every instance. `PROJECT.json` maps each definition to the lines it models and
lists the runs, the seeded mutations each property detects, the hazards, the
findings and the theorems.

Run a model with `tlc -config pool.cfg MCWorkerPool`, a proof with
`tlapm WorkerPoolProofs.tla`.

## Inventory

| component (src/) | state | operations | hard behaviour |
|---|---|---|---|
| `internal/workerpool` | input and output channel, four atomic counters, stopped flag, contexts | Submit, SubmitWait, worker loop, Stop, StopNow, Bridge, Drain | callers racing Stop; full channels; counters read by others |
| `internal/pipeline` | router inflight counter, requeue channel, overflow list, cursor map | RunBatch, routeProcessorOutput, enqueueFetch, requeue workers, WaitUntilIdle, Stop; the jobs | a cycle of bounded queues; idleness read from counters that are not read together |
| `internal/fetcher` | page limit of the process, HTTP client | Fetch with retries, BuildNextPageRequest, FetchPaginated, keyset pages | retries of requests that share a limit |
| `internal/processor` | processed conditions, pending sport tags, open-interest merges | one handler per request type, derived requests, next page | what is remembered before the derived request succeeded |
| `internal/saver` | sync cursors (database) | 22 table writers, cursor read/set/reset/complete | cursor and rows are not written together |
| `internal/ws/market` BookStore | book per token: levels, top, dirty flag, last flush and last snapshot marks | Apply (book, price_change, best_bid_ask, last_trade_price), PeekDirty, MarkFlushed, TakeChangedForSnapshot, RemoveTokens | writes to the database happen between two critical sections |
| `internal/ws/market` Client | desired, subscribed, connection | SetDesired, RemoveAssets, Run, session | three goroutines change one subscription; reconnects |
| `internal/ws/market` ResolveQueue | pending resolutions | Enqueue (merge), TakeAll | re-queue after a failed flush, shutdown |
| `cmd/ws-listener` | board metadata, resolved assets and conditions | board poll, event handler, features flush, snapshot flush, resolve flush, signal loop, status line | seven goroutines over the shared state above |
| `internal/signals`, `internal/alloc` | last emit per condition | Evaluate, alloc.Run, SelectTaken, BlockedByCooldown, Commit | the cooldown is checked before the insert and recorded after it |
| `internal/risk` | equity, peak, day open, halt state, positions | Accept, OnOpen, OnClose, ApplyPnL | halts, day roll, caps |
| `internal/signaleval` | trades, open trade per condition, equity curve | Simulate, closeDue, flattenAll | iteration order of a Go map, windows that reorder signals |
| `internal/edgescan`, `edge` | board and its history (database) | RunCycle, both cuts, scoring, ReplaceEdgeBoard | a partly failed scan must not replace the board; two scanners |
| `internal/enrich`, `cmd/top-markets` | price history (database), time of the last cycle | EnsurePrices; submitEnrichment | two writers with different ideas of what is stored |
| `internal/catalog`, `sportstags`, `tagagg`, the sports job | tags and their parents, watermark (database) | catalog cycle, sports sync, top-markets' cycle | four sources of parents, two programs, a watermark set early |
| `internal/strategyreg`, `internal/db/strategy_versions.go` | versions, statuses, live pointer, promotions (database) | register, candidate, retire, promote, rollback | check-then-act across statements; row locks; operators that die |
| `internal/eval`, `datagap` | artifact | RunDBOnly, FillPrices, FillBooks, EvaluateGates | what was known when; windows at their edges |
| `internal/db`, `services`, `config`, `logging`, `utils`, remaining `cmd/*` | - | statements, request builders, set-up | - |

How they interact: `pipeline.New` builds three pools (fetcher, processor, saver),
bridges the fetcher's output channel into the processor and lets the router turn
each processor output into saver records and into new fetcher requests; the jobs
call RunBatch and WaitUntilIdle and then Stop. `edge-scan` writes `edge_board`;
`ws-listener` polls it and calls `Client.SetDesired`; the client calls `OnEvent` on
its reader goroutine, which applies the event to the BookStore or, for
`market_resolved`, queues the resolution, removes the books and calls
`Client.RemoveAssets`; the flush loops read the BookStore. `edge-scan` and
`ws-listener` read the live strategy version that the registry's commands change.

What makes each part correct, in a sentence:

- worker pool: an accepted job is processed once and its result delivered, every
  call returns, the pending counter is exact, shutting down terminates and never
  panics;
- pipeline: the cycle never deadlocks, WaitUntilIdle returns, and the counters it
  reads count all the work there is;
- subgraph sync: the durable cursor never passes rows that were not saved, a run that
  is complete has read everything, every run ends;
- books: the top of a book is that of its levels, a book that is not dirty has its
  state in the database;
- subscriptions: the exchange streams the board's assets, and after the board comes to
  rest exactly those that are not resolved;
- resolutions: the label of a market is not lost or overwritten by an older one;
- signals: no two of one market and side within the cooldown;
- risk and paper simulation: positions, trades and equity tell one story, the budget
  holds, a drawdown halt is neither late nor lost, the final one is never lifted;
- edge scan: readers always see a whole board, and a failed scan leaves it alone;
- price history: what is behind a high-water mark is there;
- tags: a tree in which sports parents win, of which the watermark tells the truth;
- backtest: a decision uses nothing later than itself, and every window was loaded;
- registry: pointer, statuses and audit trail agree, only gated versions go live,
  rollback restores what promote replaced.

The hazards behind these, each with its line, are the `hazards` of PROJECT.json.

## How the models are checked

Every module is parameterised by CONSTANTS; an `MC` module defines small values for
them and a `.cfg` picks one instance. Properties are safety invariants, action properties
(`[][...]_vars`) and liveness under the fairness written in the module's `FairSpec`.
`TypeOK` is no property of a run: it is proved, or is part of the inductive invariant, for
every component with a proof module.
Each property has a mutated definition (`X_Mutant...`, just before `X`) that stands for a
plausible slip in the code and violates it; the mutated definitions are used by nothing
else.

Where the code gives a promise up in some schedule, the passing property says exactly
when. A *history variable* (written by the actions, read only by properties) records that
such a schedule happened: `hurried` in WorkerPool, `loose`, `kept` and `missed` in
BookStore, `tangled` in Subscription, `raced` and `missed` in Resolution, `touched` in
PriceHistory, `clean` in SubgraphSync, `overlaid` and `dropped` in TagTree, `overtaken`
and `overwritten` in StrategyRegistry. So "the row is durable unless an event arrived
during its upsert" is checked on every behaviour, and the proofs hold without assuming
such schedules away. The disagreements that matter most have a run of their own that ends
in a counterexample (`expect: violation`); the others are listed under *Known
divergences*.

Components that meet only in the database are checked in one run where that keeps it
small: the MC module declares the variables of all of them, and lets each move only while
the others have not begun. Their variables are disjoint and each takes every content of
the tables it reads as an initial state, so nothing is lost against a run for each. Where
the parts belong to one program a module above them says so, and holds their theorems:
PaperTrading (PaperSim, `Res!` Resolution, `Sig!` Signals), MarketChannel (BookStore,
`Sub!` Subscription), TopMarkets (TagTree, `P!` PriceHistory) and StrategyLife (Backtest,
`Reg!` StrategyRegistry). Each EXTENDS the first and has an INSTANCE of the others, under
the prefix their definitions and theorems have there, and states their assumptions.

| run | MC module | instance | distinct states |
|---|---|---|---|
| pool | MCWorkerPool | 3 callers (1 non-blocking), 2 workers, queue of 1 | 268 099 |
| pipe | MCPipeline | 1 seed, 3 follow-ups, single-place queues, 2 requeue workers, overflow of 1 | 498 918 |
| pipe_strand | MCPipeline | as pipe, larger overflow | (counterexample) |
| book | MCBookStore | 1 token, prices 1, 2, 4, 2 changes, both flushes, reconnects | 6 558 911 |
| book_race | MCBookStore | 1 token, 2 prices, features flush only | (counterexample) |
| sub | MCSubscription | 3 assets, cap 2, 2 boards, 2 connections, 1 resolution | 598 593 |
| sync | MCSubgraphSync | 4 items, 2 of one condition, pages of 2, 1 retry, crash and restart | 447 375 |
| paper | MCPaper | simulation: 3 markets, 2 positions, 3 instants, 3 orders; resolutions: 1 market named in two ways, 3 messages; signals: 2 markets, 3 ticks, 1 restart | 3 939 776 |
| scan | MCEdgeScan | scan: 3 markets, one group, 2 scanners, 3 cycles; pipeline: 11 requests, one more than the cycle holds | 1 656 223 |
| top | MCTop | tags: every pair of short league rows, both programs, 2 cycles; prices: 2 tokens, 5 hours | 2 115 443 |
| strategy | MCStrategy | registry: 2 operators, 3 versions (1 ungated), 5 commands; backtest: 2 markets, 7 hours, synthetic fill or not | 319 424 |
| made_up | MCStrategy | as strategy | (counterexample) |

## Modules

### WorkerPool and JobPool (`internal/workerpool/workerpool.go`)

One job per call of Submit or SubmitWait, each by its own goroutine, `Workers`
worker goroutines, one consumer of the output channel, and the goroutine that runs
Stop or StopNow. `st[j]` is the place of job `j` (checked, counted, queued, running,
sending, out, taken, refused, lost); the channels are the sets of jobs at `queued`
and `out`. Every statement other goroutines can see is an action: the read of
`stopped`, the increment of `Submitted`, the select, the counters of processItem, the
select of sendResult, and the steps of Stop. A send on a closed channel sets
`panicked`.

JobPool is what the interface promises, without workers, queues or counters: a job is
refused or taken, what is taken is run once and handed over once, only a pool cut short
loses a job, Stop returns when all that was taken has been run. `Refines` says that
WorkerPool implements it under the mapping `View` (of a job's place) and `Gate` (of how
far Stop is).

`pool` checks that Pending is exact (PendingExact), that a graceful Stop loses nothing
(GracefulStopKeepsAccepted), that every shutdown returns (StopTerminates), that only a
call already in flight when Stop began can panic (OnlyHurriedStopPanics), and Refines.

Bounds: three jobs against one queue place and two workers let each channel be full with
a caller waiting, which is where the interleavings differ; more jobs repeat it.
Fairness: each goroutine that can run eventually does, processFunc returns, the
consumer keeps reading; nobody is obliged to call Stop or to cancel. Deadlock checking
is off because the pool legitimately ends.

Proved for every finite set of jobs and workers and every queue size
(`WorkerPoolProofs`, from `PoolAssumption`): TypeCorrect, PendingIsExact, StopDrains,
QuiescedNeverPanics, NeverStuck, PoolRunsOut, and ImplementsJobPool, the safety half of Refines: the initial state
maps to an initial state and every step to a step of JobPool or a stutter. PendingExact is
not inductive: the invariant adds that each worker holds exactly the job that is running or
being sent (Holding), that Submitted is the sum of the other counters and the pending jobs
(Counting), how far each shutdown sequence is (Sequencing, Waited), and that no worker
leaves before the queue is empty (Draining). NeverStuck says that some goroutine can move
(`CanMove`, what each of them waits for) until the pool is at rest, every call answered and
every shutdown returned, and PoolRunsOut that every step lowers a natural number (`Work`):
StopTerminates, but for the fairness that makes goroutines take the steps they can. With it
the liveness half of Refines stays with TLC.

### Pipeline (`internal/pipeline`, with the pools, BuildNextPageRequest and the processor's outputs as they act on the cycle)

Requests are counted by place (`at`), since nothing distinguishes them. Actions: the
seeds of RunBatch, the three pools' receive, finish and send, Bridge, the router's steps
(receive, nil output, saver submits, follow-ups, overflow), the requeue workers, and
WaitUntilIdle with its reads of one counter at a time.

`pipe` checks that each counter the idle test reads equals the work it stands for
(CountersExact) and that the wait returns unless an overflow entry stays
(WaitReturnsOrStranded). `scan` fills the cycle with more requests than it can hold
and checks that no reachable state is stuck (NeverWedged). `pipe_strand` shows the entry
that stays: a requeue worker looks at the overflow list once and then blocks on a
channel, so what the router appends after that waits for a later follow-up that may
never come.

Bounds: `Budget` follow-ups, one place per queue, one or two of the four identical
requeue workers, `MaxOverflow` for the code's 50 000. Fullness, the only thing capacities
change, occurs at once with capacity one. Fairness: every goroutine is scheduled, remote
calls return, the poller polls. The remote data is finite, hence `Budget`.

Proved for all pool sizes, capacities and volumes (`PipelineProofs`, from
`PipelineAssumption`): TypeCorrect, CountersAreExact, QuietIsHandoffOnly,
CycleNeverWedges, BatchRunsOut. CountersExact is inductive once types and the poller's
count of stable reads are added; the lemmas say what one step of a requeue worker does to
the number of workers in a set of states. CycleNeverWedges is the substance of NeverWedged:
`CanMove` spells out what each goroutine waits for, and when none can move everything
downstream of each full queue is full, up to the router, which never waits for the fetcher;
so all is done but what the overflow list may keep. BatchRunsOut bounds a batch: `Work`
weighs every request by the steps it may still take from where it is, every follow-up and
payload to come included, and each step but a poll lowers it. Together: the cycle neither
stops early nor turns for ever, whatever the schedule; what is left to fairness is that
steps are taken at all, and that the poller sees them.

### SubgraphSync (`jobs_subgraph.go`, the account sync of `jobs_whale.go`, the subgraph paths of fetcher, processor, router and saver)

One entity: accounts, whose pages carry their rows, or fpmms, whose pages lead to requests
for the markets of their conditions. The state is what the subgraph has, the `sync_state`
row, the durable keys, the page limit of the process, the page request with its retries,
the processor's output while the router hands it on, the requests and row batches not
answered yet, and the processed conditions. Retries lower the page limit (Clamped), a page
may be cut by it, a request, a save or the process may fail at any point, and a new process
resumes from the row. New items appear anywhere in the order, since ids are hashes.

`sync` checks ReadIsKept (the cursor runs ahead of the rows, but never of the process:
until something fails, what was read is stored or on its way), CompleteUnlessCut (a run
that ends without a failure has stored everything, unless the page limit was lowered or the
cap of the account sync reached) and RunEnds. The exceptions are the code's: a page
shortened by the lowered limit counts as the last one, and the run is then marked complete.

Bounds: four items in pages of two are a full page, a second one and an end on the page
boundary; one retry distinguishes the first attempt from the last. Fairness: every stage
works and requests are answered or fail; crashes are not obliged. At this commit
RunSubgraphSync has no caller among the commands; the account sync runs from `whale-sync`.

Proved for every number of items and conditions, page, chunk and limit size, number of
retries and cap (`SubgraphSyncProofs`, from `SyncAssumption`): TypeCorrect, ReadStaysInHand
(ReadIsKept), RunsAreComplete (CompleteUnlessCut), RunNeverStalls, RunIsFinite. What was
read is kept because the router gets an output only when the page is gone (OneHand) and a
condition the processor will not ask for again is stored or on its way (ProcessedKept).
Completeness needs where each request is: a request is ahead of all that was read, with
only full pages behind it (Ahead), an answer has the next items, and all of them when it is
short (Answered), unless the limit was lowered (LimitKept); a run that stops cleanly has
nothing left under way (Ended).

The last two are RunEnds but for the fairness. RunNeverStalls: a process that is up always
has a step other than dying open to it (from OneHand: nobody in the chain waits for the one
behind him). RunIsFinite: every step but the start of a job lowers `Work`, in which a page
weighs its attempts, its market requests and their batches, and the pages that can still
follow it. It needs that an answer has only items after its cursor (Advances), also in a run
that failed, where Answered no longer holds: the next page lies behind one more item at least.

### BookStore (`internal/ws/market/book.go`, `types.go`, the flush loops of `cmd/ws-listener/main.go`)

A book is its price levels, the stored top, the dirty flag, the marks of the last flush
and of the last snapshot; the exchange's own levels (`srv`) and the database rows (`feat`,
`snap`) stand beside it. Prices are small integers; a mid is compared at twice its
value, as `Mid2`, so that it stays an integer. Sizes and depth are left out, no property
is about them. The features flush is three steps (PeekDirty, upsert, MarkFlushed), the
snapshot flush two, with exchange messages in between; the upsert can fail after writing
any part of its batch, the insert can fail, the session can end and begin again with a
dump.

`book` checks TopMirrorsUnlessKept, StaleMeansLoose and SkippedMeansStored against every
message order, `book_race` shows the update lost by an event during the upsert
(CleanMeansDurable).

Bounds: `MaxChanges` changes on the exchange from any uncrossed start; prices 1, 2, 4
with Epsilon 2 put a move below, at and above the threshold.

Proved for every set of tokens and prices, threshold and size of a flush
(`MarketChannelProofs`, from `BookAssumption`): TopMirrors, StaleIsLoose, SkippedIsStored.
The invariant says that the book of a streamed token has the exchange's levels but for the
one change under way (Mirror), that a clean book is near its marks and the features row has
them (Flushed), that a book being flushed stays dirty until it is marked and is what was
copied unless an event came (Peeks: the step from the upsert to the marks needs it), and
that the snapshot marks are those of the last row or of the one being inserted (Snapped).

### Subscription (`internal/ws/market/client.go`, `subscribe.go`, board poll and market_resolved handler)

Two callers share the client: the poller (board poll, then SetDesired) and the session
(dial, initial subscribe, reading, market_resolved with RemoveAssets). Each critical
section and each message is an action; `streamed` is what the exchange streams on the
current link; `tangled` says that two calls overlapped on this connection.

`sub` checks DesiredIsStreamed, DesiredSettles, whatever the callers did to each other,
and StreamSettlesOrTangled. Fairness: the poll ticks, Run reconnects, the reader reads.
Bounds: two boards, two connections and one resolution are enough for a stale poll, a late
record and a re-subscribe.

Proved for every set of assets, cap and number of boards, connections and resolutions
(`MarketChannelProofs`, from `Sub!SubscriptionAssumption`): DesiredAssetsAreStreamed. The
invariant (Untangled) says, for a live connection on which no calls overlapped, what each
caller in the middle of its diff still has right: what it took is what is on record, what it
wants covers what is desired, and the exchange streams what the diff has left.

### Resolution (`resolve_queue.go`, `db/market_resolve.go`, the handler, refresh and flush of `cmd/ws-listener`)

A message names its market by condition or by Gamma id, may lack the winner or the tokens,
and may come twice or late. Actions: the handler, the board refresh in its two halves
(filter, SetDesired), TakeAll, the database update of one resolution, its failure with
the re-queue of the rest, the saver's upsert of the market, and a restart, which loses the
queue. `paper` checks LabelsAreKept (the winner announced last waits, is being applied, or
is in the database, unless the market had no row) and ResolvedOffStream (a resolved market
stays off the stream, but for a refresh caught between its two halves, until the next).
One market with two keys and three messages are what the merge and the re-queue can tell
apart. A market has one winner (OneWinner): mergeResolution keeps the newer of two
messages, and of two with one timestamp and different winners a re-queue may keep either,
which announcements of one market never bring about.

Proved for every set of markets, messages and boards (`PaperTradingProofs`, from
OneWinner): NoLabelLost (LabelsAreKept), ResolvedLeaveStream (ResolvedOffStream). Queue and
batch hold one resolution of a key (Keyed), none newer than the newest message
(NoneNewer), and the winner of the newest waits in one as recent or has landed (Kept),
which the re-queue after a failure in the middle of a batch must restore.

### Signals (`internal/signals`, `internal/alloc`, `risk/rank.go`, the signal loop)

A tick scores every live market from its board row and book, allocates over the board or
takes each market alone, drops what is in its cooldown, and stores the rest; the insert may
fail, or its answer be lost. `paper` checks SpacedSignals: two stored signals of one market
and side, the first of which the process knows of, are a cooldown apart or differ by the
reissue delta. A restart forgets cooldowns and resolved markets.

Proved for every board, book, cooldown and delta (`PaperTradingProofs`, from
`Sig!SignalsAssumption`): SignalsAreSpaced. The invariant connects the three copies of the
truth: what the tick is about to insert is out of its cooldown (OutIsFree), the emitter
remembers the last signal that it heard stored (LastIsLast), and a tick stores once
(StoredOnce).

### RiskManager and PaperSim (`internal/risk`, `internal/signaleval`)

RiskManager is the manager's state (equity, peak, day open, day, halt state, positions)
with one operator per method: RollDay, Checked, ApplyPnL, OnClose, LookAt and Accepts
(the two halves of Accept), OnOpen. PaperSim EXTENDS it with Simulate: the next window of
signals, the auction's budget test, processOne (close what is due, flatten under the
max-drawdown halt, accept or reject), and the closes at the end. Closing walks a Go map,
so any order of the due trades is a behaviour. Fill prices and sizes are data: a profit is
any member of `PnLs`, a size any up to the limit. There is no concurrency here; what is
hard is the order.

`paper` checks that the manager's positions, the index and the open trades are one book
(BooksAgree), that the budget holds at every step and, in strict order, at every instant
of simulated time (BudgetHolds), and that halts are neither late nor lost
(OKMeansWithinLimits).

Bounds: three markets against two positions, two days of two instants, horizons of one
and two, profits that breach no limit, the daily limit and both. Markets are
interchangeable (symmetry; the run has no liveness property).

Proved for every set of markets, budget, limit, window, horizon and profit
(`PaperTradingProofs`, from `RiskAssumption`, which Normalize guarantees, and
`SimAssumption`): TypeCorrect, BooksBalance, LimitsAreWatched, BudgetIsKept, HaltStays (the
final halt is never lifted and nothing is opened under it), FlatInTheEnd (nothing is held
under it, nor at the end). OKMeansWithinLimits is not inductive: a new day lifts a day halt
and resets the day's opening equity, not the peak, so the invariant (HaltsAgree) must say
that a manager under a day halt is within the max-drawdown limit too. The budget in the
manager's view (WithinBudget) follows from what Accept leaves room for; in simulated time
(AlwaysFits, at every instant, not only at those the signals name) it needs that in strict
order every trade with a passed exit is closed by the time the next is opened (InOrder).
Both speak of a sum over trades, a fold of the library: that it exists, is unique, and
grows by what is added is proved in the first lemmas from a smallest counterexample.

### EdgeScan and EdgeScore (`internal/edgescan`, `internal/edge`, `ReplaceEdgeBoard`)

EdgeScore is the cost, fair value, score and order of candidates in integers: prices in
cents, mids in half cents, edges in basis points, divisions round down. EdgeScan is the
cycle: read the sticky set (it may fail), fetch, cut to Stage1MaxN, expand by group, score,
cut to BoardMaxN, replace the board in one transaction and append its history in a second.
Anything may fail, and a process may die, between them. Fetching to cutting is one step: it
touches nothing shared.

`scan` checks NeverEmptied, WholeRuns (two scanners on one table never show a mixed
board), StickyKept (a member of the board in force that passes the filters survives both
cuts) and HistoryWasLive. Bounds: three markets, two of one group, cuts to two, four kinds
of books (good, cheap, too extreme, one-sided), three cycles of two scanners.

Proved for every set of markets, features, groups, size of the cuts and number of scanners
and cycles (`EdgeScanProofs`, from `ScanAssumption` and `ScoreAssumption`): BoardStays,
ReadersSeeWholeRuns, HistoryIsOfLiveRuns, NoStickyOneIsLost. WholeRuns is not inductive: one
scanner deletes the rows it saw while another inserts its own, so the invariant says that
what a cycle is about to delete holds all rows of a run that the board has or none
(DeletesWhole), that what it is about to write is a whole run (Ready), that runs are
numbered apart (Numbered) and rows come from committed ones (FromCommitted). That a cycle's
result is a whole run rests on lemmas about the cuts: scores are integers (the sum over a
group and the square root exist), so candidates are totally ordered and ranks are 1..n.

### PriceHistory (`enrich/prices.go`, the price requests of `cmd/top-markets`)

The hours stored for each token, the requests EnsurePrices has still to make, the time of
top-markets' last cycle and its requests in the pipeline. EnsurePrices asks from an hour
before the oldest high-water mark of a batch, top-markets from its own last cycle.
`top` checks HolesOnlyByTopMarkets (a token only the edge scan writes has no hole behind
its mark) and RankedThroughoutIsWhole (a token ranked in every cycle of a process, with no
failure, has every point). top-markets does leave holes for others: its write moves the
mark past hours nobody stored, and EnsurePrices never goes back there.

Proved for every set of tokens, lookback, batch size and pause between two cycles
(`TopMarketsProofs`, from `P!PriceAssumption`): NoHoleByEnsurePrices,
TopMarketsCyclesOverlap. The invariant says that no batch that is planned starts above what
its tokens have (Planned: marks only grow, windows only shrink), and that every point of a
token ranked throughout, up to the last cycle, is stored or asked for (Requested).

### SportsHierarchy and TagTree (`internal/sportstags`, `catalog/tags.go`, `tagagg`, `db/tags.go`, the sports job, `cmd/catalog-markets`, `cmd/top-markets`)

SportsHierarchy has the pure functions from league rows and teams to parents; TagTree the
table, the watermark, the catalog cycle (watermark, sports sync, walk, overlay,
aggregation, UpdateTags), the saver behind the sports sync, and top-markets' cycle.
`top` checks EdgesAreTree over every pair of short league rows, FreshMeansStored,
SportsParentsWin and StaysATree; the last two speak of a cycle of catalog-markets that
nobody interrupted, which is what the code's order of writes can give. Left out: reads of
the table that fail, definitions of known tags that are refreshed, more than one discovered
tag for each event. The walk may come upon any of `WalkTags`; the system moves for one pair
of leagues, `MaxCycles` counts the cycles of both programs.

Proved for every answer of /sports and /teams, walk and failure (`TopMarketsProofs`, from
`TagAssumption`, part of which is about the environment: no answer puts the root under
another tag): SportsEdgesAreATree, WatermarkKeepsItsWord, HierarchyWins, NoTagAboveItself.
The edges of the leagues lead from every tag of /sports to Sports in one or two steps
(SportsEdges); every catalog, of either program, has no cycle outside those tags (Catalog)
and the table has none (Rest); between the merge and the write the catalog follows the
edges (Merged), after it the table does (Written). A parent map is without cycles if every
set of its tags has one with its parent outside (Grounded), which needs no induction: the
lemmas GroundedOver, GroundedBoth and SubtreeOf say when two maps keep that when one is
written over the other. FreshMeansStored needs that nothing but definitions of those
tags waits in the saver (Definitions).

### Backtest (`internal/eval`, `internal/datagap`)

One run of edge-eval: load, fill gaps, choose boards at every decision time, label, decide.
Time is in ticks of the hourly grid, a market has one token, prices are in half cents. The
walk of the universe map is any order. `strategy` checks PointInTime (without synthetic
fill the universe of a decision is the one the history up to it gives), WindowsAreLoaded
(every window and label lies in what was loaded) and DrawdownIsWorst (the drawdown is the
largest loss of any stretch). `made_up` shows FillBooks making up books that venue books
cover. Left out: the random baseline and the strata, each of which only decides a gate of
its own; a table that cannot be read counts as empty. Loops over a slice (the search for a
book, the books appended one by one, the equity curve) are functions of the number of steps.

The universe is that of the day of the run (the markets active now), and group membership
falls back to the board of now where no snapshot has it: what the backtest replays has
survived. The label of a horizon uses the last price at or before it, however old.

Proved for every content of the tables, period, set of horizons, board size and age of
books (`StrategyLifeProofs`, from `BacktestAssumption`): NoLookahead (PointInTime),
EveryWindowIsLoaded (WindowsAreLoaded), ReportedDrawdownIsWorst (DrawdownIsWorst). The
invariant of a run without synthetic fill is that memory holds what Load read and the
snapshots and labels are those of that memory (RunInv). A decision at t reads a series
through the samples up to t only: each reader gives the same of the series cut at t (the
lemmas Cut..., up to CutPoints), and the period reaches far enough back and forward for
every window and horizon. ReportedDrawdownIsWorst rests on DrawdownIsLargestLoss, about
MaxDrawdown for any sequence of integers: after k returns the peak is the largest gain and
the worst fall the largest loss so far. That the returns of a run are integers is its other
half (MemInv, with synthetic fill or without): prices and books stay typed through loading,
filling, the search for a book and the sort by time; finite sets can be numbered
(OneToOneIsOnto, which InOrder and ByTime need), a sum over a finite set is an integer
(SumIsInt), and the labels are finitely many (ReplayTyped).

### StrategyRegistry (`internal/db/strategy_versions.go`, `internal/strategyreg`)

Operators run commands against one strategy family. A command outside a transaction is
one action per statement; inside, each statement takes the row locks PostgreSQL takes
(READ COMMITTED, external) and changes become visible at Commit. `Die` ends an operator
anywhere, `DeadlockVictim` is the server's resolution of a lock cycle, `moves` is the
audit table, `Eligible` what the gates of Backtest answer.

`strategy` checks AgreesUnlessOverwritten and AuditNamesActive in every state,
RollbackRestoresPrev on every step, and CommandsEnd. Five commands of two operators on
three versions suffice for promote, promote, rollback with a candidate or retire in
between. Fairness: a live process goes on, the server breaks deadlocks.

Proved for any number of operators, versions and commands (`StrategyLifeProofs`, from
`Reg!RegistryAssumption`): RegistryTypes, AuditIsComplete, OnlyGatedVersionsGoLive,
PointerAgrees, RollbackRestores, NoWaitIsForEver, RegistryRunsOut. The invariant behind
PointerAgrees says that the unique index lets one transaction at a time past its status
update, and which other rows can still be active then (MovesAgree); the one behind the gate
adds the target of every command that is under way (GateInv).

The last two are what CommandsEnd rests on. NoWaitIsForEver: while commands are under way,
one of them can go on, or they all wait on a row lock of one another, which PostgreSQL sees
and ends; nobody waits on a process that is gone. RegistryRunsOut: every step lowers `Work`,
the commands left and what is left of each (this one takes finitely many processes,
OperatorsFinite). What stays with TLC is that a process which can go on does so.

## Findings and known divergences

The three runs that end in a counterexample (pipe_strand, book_race, made_up) are
`findings` in PROJECT.json. Met on the way, and covered by the exception a passing property
names rather than by a run of their own:

- Stop closes the input queue while a Submit that passed the stopped check may still send
  on it: the send panics (`hurried`). Pipeline.Stop reaches this when its drain wait runs
  into its timeout.
- isIdle reads its counters one after the other, and a result between two pools is in
  none of them; WaitUntilIdle's repeated polls make an early return unlikely, not
  impossible (theorem QuietIsHandoffOnly states the blind spot).
- best_bid_ask compares the ask with nothing: an ask that moves alone never makes a book
  dirty (`loose`); a zero best bid or ask in a message is ignored, which keeps the top of an
  emptied side (`kept`); the snapshot marks advance before the insert (`missed`).
- Two SetDesired calls diff against one snapshot: a board asset can stay unsubscribed until
  the next reconnect, or the cap can be exceeded; a call can record its set after the
  session ended (`tangled`).
- A resolution that is applied before its market has a row is lost, and so is what waits in
  the queue at shutdown (`missed`; Restart).
- A page cut short by the lowered page limit ends the subgraph sync, which is then marked
  complete; a derived request that fails is not repeated (`clean`, CompleteUnlessCut).
- The price requests of top-markets leave holes behind a high-water mark (`touched`).
- The tags of a refresh are stored after the watermark is set (`pending`, `due`).
- candidate and retire check a version's status in one statement and write it in another: a
  promote in between is overwritten (`overwritten`). rollback reads prev outside its
  transaction (`overtaken`). The first two promotes of a family may both see no pointer, and
  then no prev is recorded.
- closeDue books exits out of time order, and a re-ranked window may open a trade before
  the exit that made room for it (hence "strict order" in BudgetHolds).

Observed while translating, stated by no property: the auction judges a bound budget before
the trades that are due have been closed (`signaleval/sim.go:147`); with `--synth-fill` a
price is interpolated from a later one while the no_lookahead gate passes on flags the
runner sets (`eval/surface.go:181`, `eval/runner.go:336`); a SELL signal pays its costs in
the wrong direction, since they are subtracted from the signed residual
(`signals/paper.go:107`).

## What is only model-checked, and what is not modelled

Checked by TLC only:

- liveness (StopTerminates, the liveness half of Refines, WaitReturnsOrStranded, RunEnds,
  DesiredSettles, StreamSettlesOrTangled, CommandsEnd): the prover has no rules for it. For
  the worker pool, the pipeline, the subgraph sync and the registry the parts that need no
  fairness are proved: some step is always open until the work is done (NeverStuck,
  CycleNeverWedges, RunNeverStalls, NoWaitIsForEver), and a natural number falls with each
  (PoolRunsOut, BatchRunsOut, RunIsFinite, RegistryRunsOut);
- that `CanMove` is what ENABLED says of the pipeline, the other half of NeverWedged, for
  the same reason.

External, modelled from how the code uses it: the exchange and its messages, PostgreSQL
(atomic statements, row locks, READ COMMITTED), the remote services, the package
`internal/artifacts`, which the repository does not contain.

Not modelled: HTTP and WebSocket wire formats, SQL text, decoding and text normalisation,
rate limits and waiting times, the JSON artifacts and reports, statistics and logging,
flags and configuration, the playground. `Pipeline.Stop` is a wait followed by the pools'
Stop and not composed with them. Account increments (`saver.go:1463`) are counted twice
when a page is read again; the model keeps stored rows as sets, in which that leaves no
trace. External fair values, open interest and order flow enter scores as features no
module computes. Each component of PROJECT.json has its status and reason.
