# AlphaForge: a TLA+ verification project

AlphaForge is a Python trading runtime that scans markets, decides, records
simulated (PAPER) fills and collects evidence for a burn-in campaign, all on a
few SQLite files. What makes it hard is less the arithmetic than that several
tasks, threads and processes share the flags and rows that decide *whether a fill
may happen at all*, *how often it is counted* and *what the evidence says
afterwards*. The promise of the code is to be **fail-closed**: when the exchange
state is unknown, evidence was lost, the lease belongs to somebody else or
recovery is pending, nothing is filled. This project models that promise and the
bookkeeping around it, checks both with TLC and proves the central parts with
TLAPS.

## 1. Inventory

Paths are relative to `src/src/alphaforge/`, the package directory of the
repository. `PROJECT.json` lists the same components with what is left out of each.

| component | state it keeps | operations | what makes it correct |
|---|---|---|---|
| execution ownership (`execution_ownership.py`) | one lease row per account: owner, fencing token, expiry | acquire, validate, release | at most one runtime is past the final check; a token is one owner; nobody disturbs a live lease |
| snapshot reader (`readonly_snapshot_reader.py`) | the pending provider thread, `closed` | read, cancellation, close | one provider thread at a time; a cancelled read's result is never used |
| runtime orchestrator (`runtime.py`) | nine gate flags, provider failures, task positions, the scan's memory of candles, setups, episodes and open positions | start, reconciliation, scan, `_process_symbol`, `_execute`, heartbeat, shutdown | every fill rests on committed CLEAN evidence; a candle is decided once; exposure stays within its limit; the gate reopens |
| decision pipeline (`symbol_selector.py`, `universe_evidence.py`, `multi_timeframe.py`, `signal_geometry.py`, `execution.py`, `execution_safety.py`, `order.py`, ...) | caches with leases, candles kept per interval, the selection, one candidate's execution context | scan, select, fetch and judge candles, persist evidence, cost and safety gates, sizing | only tradable symbols on fresh evidence; signals on closed candles; an accepted order is safe by its true costs |
| portfolio risk (`portfolio_risk.py`) | open positions, today's history, cooldowns | allocate a scan, judge a candidate | caps and pace hold through restarts and late closings |
| reconciliation (`reconciliation.py`, `readonly_reconciliation_provider.py`) | snapshot, clock offset, rate-limit wait | read the account, compare | what stands on the exchange is found; a silenced reader is silent |
| campaign runner and commands (`burnin_campaign.py`, `burnin_cli.py`, `burnin_ops.py`) | campaign and run rows, terminal causes, worker processes | start/resume, launch, attach, pause, terminalize, watch, drill | a continuation ends once, for one recorded cause; its worker ends with it |
| burn-in resolver and position management (`burnin_resolver.py`, `expectancy_evidence.py`) | positions with versions, slices, reject labels | tick, manage, close, label | money balances; exits and labels are those of the whole market; settled stays settled |
| qualification and release (`burnin_qualification.py`, `release_gates.py`, evidence scripts) | evidence rows, aggregate run, verdict, decision | record, qualify, finalize | no qualification over a mutation attempt; a decision rests on the evidence of its moment |
| runtime control (`runtime_control.py`, the POST handlers of `dashboard/app.py`) | control row, supervisor task | set mode, kill switch, start, stop | one runtime at most; RUNNING is true; a stop ends |
| control center (`dashboard/control_center.py`) | a lease directory | guarded pause and resume | one operation at a time; a takeover deletes only what is dead |
| remote control (`remote_control/`) | Telegram offset, outbox, confirmations, replay store | poll, deliver, retry, confirm, execute | a confirmation is used at most once; a stored answer is not lost |
| storage policy (`storage_policy.py`) | cycles, checkpoints, archive, tombstones | check, compact, prune, archive, remove | nothing leaves without its record or copy; cleaning ends |
| schema and its doctor (`persistence.py`, `schema_doctor.py`) | the database file: tables, status columns, a schema mark | open, create, inspect, migrate | whoever has it open reads its exposure as it is; a doubtful file is left alone |
| runtime state and recovery (`runtime_state.py`, `preflight`) | state rows, reconciliation events, kill switch | evaluate, reconcile, verify, start, end | a runtime operates on evidence of the account and of its predecessors |
| system audit (`system_audit_store.py`) | an append-only store of envelopes, outcomes, shadows | ingest | what it holds is the source's evidence at one moment |
| backtester (`backtest_order.py`) | guardrail, portfolio and rescue counters, result rows | replay | the totals are those of the rows |
| alerts, agents, learning and research, configuration, dashboards | reports, files, HTTP | pure computation or input/output | not modelled (section 6) |

How they interact. One process runs one asyncio loop with the market-scan,
reconciliation, heartbeat and reject-outcome tasks of the orchestrator and, when
a campaign is attached, the runner's resolver and maintenance loops. Tasks
interleave only at awaits. The provider read, the resolver tick and the storage
check run in worker threads. Other processes (a second runtime, an operator's
command line, the dashboard, the Telegram service, an evidence tool) share the
SQLite files. Writers retry a BUSY database a bounded number of times and then
give up, each in its own way.

The hard behaviours are the `hazards` of `PROJECT.json`, each at its line and with
the property about it: a flag read before an await and relied on after it; a read
that outlives its timeout; evidence observed but not yet committed; a recovery
flag that several writers share with one reason string; a clock read before a
transaction that waits; a lease checked in one transaction and relied on in the
next; several databases committed one after the other; a scan that works from its
own memory of positions another process closes; a death at any of these points.

## 2. Modules

| module | models | |
|---|---|---|
| `AccountAuthority` | abstract: one owner per epoch, every fill by the owner of its epoch | specification |
| `ExecutionOwnership` | the lease row, the calls of `execution_ownership.py`, `_execute` between acquire and fill | implements `AccountAuthority` |
| `SnapshotReader` | `ReadonlySnapshotReader` | the abstract view of the reader inside the runtime |
| `RuntimeGate` | the gate flags and every task that sets or clears one | implements `SnapshotReader` |
| `SignalPipeline` | a scan, the gates of one candidate, its rejection or fill, restarts | |
| `SchemaBootstrap` | `init_db` with the doctor before and after it, by several programs at once | |
| `RuntimeRecovery` | state rows and events, starts, ends and deaths of runtimes, the preflight | |
| `BurninCampaign` | the rows of one campaign, its workers and the operators' commands | |
| `BurninResolver` | the ledger of positions and labels under overlapping ticks | |
| `RuntimeControl` | the control row, the supervisor, the dashboard's four handlers | |
| `CampaignState` | the campaign row as the next two see it | shared |
| `OperationLease` | the control center's lease directory, one file operation at a time | extends `CampaignState` |
| `RemoteControl` | the Telegram service over its four databases | extends `CampaignState` |
| `StorageRetention` | retention, ledger and archive of a campaign's evidence | |
| `ReleaseQualification` | evidence tools, qualification, finalization | |
| `ReconciliationRead` | one snapshot of the account, request by request, and the engine's findings | |
| `BacktestReplay` | the replay of several symbols | |
| `SystemAudit` | audits of a database that is being written | |
| `UniverseSelection`, `MultiTimeframe`, `OrderDecision`, `PortfolioAllocation` | the gates in front of an order | |
| `...Proofs` | the theorems about the modules they are named after; `RuntimeControlProofs` is also about `SchemaBootstrap`, `RuntimeRecovery` and `StorageRetention`, `SignalPipelineProofs` about `MultiTimeframe`, `BurninCampaignProofs` about `BurninResolver`, `RuntimeGateProofs` about `SnapshotReader`, `OperatorToolsProofs` about `BacktestReplay`, `ReleaseQualification`, `ReconciliationRead`, `OperationLease`, `SystemAudit` and `RemoteControl`, and `TradeGatesProofs` about `PortfolioAllocation`, `UniverseSelection` and `OrderDecision` | TLAPS |
| `SumLemmas` | what their proofs need of sums over finite sets and of orders of them | TLAPS |
| `MC...` | the instances TLC runs; `MCRuntimeStart`, `MCHost`, `MCOperatorTools` and `MCTradeGates` hold several models each | |

Components that hand each other results (a gate's verdict, a failure class, a
closed position) are composed by taking that result as an input that may be
anything the other can produce; components that share state are one module
(`RuntimeGate`, `SignalPipeline`) or share a module (`CampaignState`).

### ExecutionOwnership
`lease` is the row of `execution_account_leases`; its key, an account scope, is
left out because leases of different accounts do not meet. `ts[r]` is the
`time.time()` a call reads *before* its transaction runs, so a decision may use an
old reading. A runtime is one `(runtime_instance_id, startup_id)`: a restart is
another member of `Runtimes`. `pc` follows `_execute`: acquire, gate, validate,
fill. Refused and fenced runtimes raise, which ends the scan loop and the run as
FAILED, without a release. The fill's transaction never reads the lease again
(`runtime.py` 4993-5207). What makes that safe is time alone: the final check
demands `MinValidity` seconds of remaining lease, and the synchronous stretch from
its clock reading to the commit takes at most `FillDelay`. The bounded BUSY
retries take about half a second against a default margin of 5 seconds. The
configuration accepts a margin of 0, and then nothing covers the stretch: this is
why `FillDelay <= MinValidity` is a named assumption (`DelayAssumption`) and not a
fact. All runtimes share one host and one clock that does not go back.

### SnapshotReader and RuntimeGate
A read starts a thread unless one is still pending or the reader is closed; a
cancelled `read` leaves the thread pending until its result has been discarded;
`close` waits a bounded time. `own` records whether the pending result belongs to
the caller that waits, which is what a late result would violate.

`RuntimeGate` is PAPER mode with a persistence engine, a provider and an attached
campaign. One action is the code between two awaits. `gate` holds exactly the
flags `_execution_reconciliation_blocked` reads; `reason` is `_fail_closed_reason`.
`world` is *foul* while the provider may fail or hang and SQLite may stay BUSY
beyond the retries of the writers in `BusyWriters`; in a *fair* world calls
succeed. `runner` is the campaign runner; the campaign row may also be ended by
its resolver thread, its maintenance thread or an operator's process while the
runtime's gate is still open. Abstractions:
- the reasons ORPHAN_ORDER, ORPHAN_POSITION and UNRECONCILED are one `FINDING`.
  No complete read clears it, but an incomplete one replaces it;
- a finding is *stale* (recommendation only) or *orphan* (fail-closed); its
  signature is remembered before its report is awaited, as in the code;
- the failure count saturates at 3, the only threshold it is compared with;
- the grace period is a choice (`GraceExpires`), because nothing else depends on
  how long it is;
- `_runtime_status`, metrics, log lines and the contents of rows are left out;
- the signal pipeline is reduced to what it does to the gate: rejects, lifecycle
  events, ownership, position and decision rows persisted or given up, a fill, a
  fatal exception;
- the evidence a read brings belongs to the cycle that reads it;
- stop lets a scan iteration that has begun go on until the tasks are cancelled.

### SignalPipeline
One scan at a time takes its candidates through `_process_symbol` and `_execute`.
`mem` is what the process remembers (candles, setups, episodes, open positions),
`rows` what SQLite has; a crash loses the first. What a gate judges is an input:
the gate passes or rejects. The resolver closes positions between any two steps.
`LookupFaults` names the lookups whose failure the code swallows (previous
decision, previous setup, previous episode).

### SchemaBootstrap, RuntimeRecovery
`file` is the database as `init_db` can tell it apart: its shape, the mark, the
columns of the exposure table and, per row, what they say; `truth[w]` is what was
really open when row `w` was written. DDL commits statement by statement, the
doctor's migration is one transaction that decides from earlier reads, and a program
may die between any two commits. positions and orders are handled alike and stand as
one table; this code only reads and migrates them. The second doctor pass's verdict is
ignored, as in the code.

`latest` is the newest state row, `event` the newest reconciliation event, `stage[s]`
where a startup is. Row, event, switch and positions are read by statements of their
own and the account by a slow call after them, while other runtimes and a
preflight go on. No row, a clean one and a RECONCILED one are judged alike, so `RowWords`
has one word for them. A RECONCILED row counts as a clean end although a runtime at work
writes one with every clean periodic reconciliation. The process of the row is asked for
with `process_is_alive`, which need not recognise it: a process that runs counts as dead if it
was created more than two minutes away from the row's `last_start_time`
(`process_liveness.py` 356-369), or if its command line lacks "alphaforge" or the campaign id
(371-385; `runtime_state.py` 271-277 asks for both). A runtime in a dashboard that has been up
for a while is such a one. The startups in `Hosted` are these; any answer is possible for them, and
also for a dead process, whose pid may be that of a host that goes on, or one given again. Left out: the two exposure tables
(nothing here writes them), stale pending orders, the diagnostic mode, and the
functions of the recovery drill and of the historical recovery that nothing calls.

### BurninCampaign
`db` holds the rows of one campaign: its status, `active_run_id`, `worker_pid`, and
per continuation the status (of `burnin_runs` and `burnin_campaign_runs`, always
written together) and the terminal cause. `worker[w]` is a process that runs
`run_foreground`, `op[o]` a command in progress. pause and resume are one
transaction each and need no record; foreground commands become a worker.
SQLite gives the atomicity. A command that bootstraps the schema first holds the
write lock from its UPDATE on, so its reads and writes are one step. The worker's
exception handler, heartbeat recovery, provider pause, the watchdog (which commits
its incident first) and the launcher's failure path read the campaign without the
lock: `hold` is what they have read and not yet acted on, and any other
process may step in between. `lock` is the write lock of a drill whose connection
stays open; other writers wait for it, and a worker whose wait runs out raises
(`WorkerRaises`). `how` names the callers of `terminalize_active_campaign_run` by what
they ask for. Left out: heartbeat times, events, incidents, archived campaigns,
identity and drift checks (an attachment may be refused at any time), the
time the launcher sleeps, and pids that the operating system reuses.

### BurninResolver
Prices are favourable distances from the fill, so LONG and SHORT are one position;
a candle is `<<low, high>>` and time counts candles. A tick reads the open rows,
asks the provider outside any transaction (its answer may lack bars), and commits
in a second transaction, which the write lock makes atomic. Management actions
cut, trail or close between them; a second process ticks from its own, older read.

### RuntimeControl
Handlers, supervisor and runtime share the dashboard's event loop. The store's
calls do not await, so a request is one step, except `stop`: its first half
writes STOPPING and tells the runtime, then it waits, and any other request may
run before its second half (`handler`). The wait of five seconds cancels the
runtime when it runs out. A runtime may swallow the cancellation, and `_run` then
writes its outcome, or end by it, and then nothing is written and the waiting
handlers raise. `task` and `asked` are the supervisor's task and what it was told;
`alive` counts the runtimes that were really started and have not ended. The row
survives a restart of the process: `inherited` marks a status that an earlier
process wrote. RUNNING stands for RUNNING_PAPER and RUNNING_LIVE. STARTING is
written and replaced without an await, so no other step sees it. Left out: the
audit rows, modes other than PAPER and LIVE, and writes of the store that fail.

### CampaignState, OperationLease, RemoteControl
`OperationLease` interleaves mkdir, the write of `owner.json`, rename and rmtree of
`_acquire_lease` and `_release_lease` one at a time; a directory is the token in its
`owner.json`. An operation is shorter than `lease_stale_seconds`, so only a dead
owner's lease grows old. `RemoteControl` commits its four files one after the other
and may die between any two commits; an update's id is its position in the inbox
and a confirmation's id the update that asked for it. Of the guarded operation it
sees what its caller can tell.

### StorageRetention
A cycle stands for its row, candidates and link; sizes are counted in cycles, and
a SQLite file does not shrink. The runtime's controller and the `maintain` command
are two processes; each BEGIN IMMEDIATE transaction is a step.

### ReleaseQualification, ReconciliationRead, BacktestReplay
Of evidence, `ReleaseQualification` keeps the number of its last change, which
stands for `evidence_hash`; each read of an evaluation and each write of a command
is a step. `ReconciliationRead` changes the account between any two requests, with
quantities told apart as far as the code does. `BacktestReplay` chooses freely what
the market shows and keeps every counter that outlives a candle or a symbol.

### SystemAudit
`source` is what the runtime and the resolver have written, `store` what the audit has
committed, `ingest` the audit under way with the source as its read transaction sees
it. A row of evidence is one of seven kinds that its label or position decides; an
envelope's hash tells only whether the row changed. One decision per signal is assumed
(`_canonical_final_decision_recorded`, `runtime.py` 3425), one audit at a time, and the
`source_version` counter is left out.

### UniverseSelection, MultiTimeframe, OrderDecision, PortfolioAllocation
`UniverseSelection`: scanner cache, selection, persisted evidence, geometry cache
and scan, on a monotonic clock and a wall clock that may be stepped; a row has at
most one oddity. `CapChecks` has the market-cap limits of `UniverseConstraints` (`MinCap`, `MaxCap`,
either may be absent) and every state of their evidence. The shipped scanners give no market cap
(`exchange_market_scanner.py` 612-615 and 701-704), so the rows with one are those of an injected
scanner that has bound it (`bind_market_cap_evidence`). `MultiTimeframe`: the three concurrent requests of a judgement, the
candles kept per interval, and late, failed or too young answers; a candle is the last
instant of its interval, where it closes. The exchange and the decision's stamp are
assumed to have one clock. A direction is an input. `OrderDecision`: one snapshot that starts sound and in which up to
`MaxOdd` fields go wrong, through cost, quality, safety and sizing in three modes;
rates are basis points. `PortfolioAllocation`: a whole scan is allocated at once and
processed one by one while the clock, the resolver and restarts go on.

## 3. Runs

Every passing run ends within five minutes on two workers, most within two. Deadlock is checked in
`pipeline` only; elsewhere the system really may stop: a runtime goes down, a refused
program ends, a worker starts once, a store has nothing to clean up, and the bounds on
requests, rows or the clock are reached.

| run | instance | checks |
|---|---|---|
| `runtime_start` | schema: two openings of a file with up to two rows, in any state, one death; recovery: two startups, one of them hosted, and a preflight, one campaign, one death; lease: two runtimes, TTL 3, margin 1, delay 1, clock to 6 | exposure is read as it is, a doubtful file stays; starts rest on evidence; exclusive, correctly fenced fills, an undisturbed live lease, refinement of `AccountAuthority` |
| `gate` | all nine writers may give up, an outage with an expiring grace, a streak of two failed heartbeats as the threshold | the gate opens on evidence only; every fill is backed |
| `gate_shutdown` | campaign end, runner cancellation and stop at every await, reads that outlive the runtime | quiet release; the reader's protocol; under fairness, after a finite bad time the gate of an undamaged runtime opens again |
| `host` | control: two requests inside `stop`, others in between, timeouts, restarts; storage: two processes, two cycles, two continuations, one fault | one runtime, true RUNNING status, a stop ends; removal is backed by a record or copy, cleaning ends |
| `campaign` | one worker, foreground or launched, two operators, two continuations | causes match ends; ends are final; the worker of a stopped campaign goes away |
| `resolver` | two processes tick over every two-candle market, one trade, one label, two management events, holes in answers | money balances; exits and labels are those of the whole market; settled is final |
| `pipeline` | two symbols, three candles, a limit of two, two continuations, one crash, a failing decision lookup | exposure, one decision per candle, evidence has its fill, one reject per episode |
| `remote` | seven commands, two continuations, three updates, failing commits and deaths anywhere | a confirmation acts once; stored answers are kept |
| `operator_tools` | lease: two processes, three requests, one death; release: two commands, one tool run, one change of evidence; replay: two symbols of two candles; reader: three pairs, two reads, a wait of two, one move; audit: two decisions of any kind, three audits | the seven properties of these programs |
| `trade_gates` | allocation: two coins, days of four ticks, two fills; decision: every pair of odd fields in three modes; selection: four listings, one place, a market cap from 5 to 6, two scans, one odd row, one clock step; candles: two judgements over four instants, one frame twice the others, answers two instants late | the six properties of these gates |
| `stats_ledger_out_of_order` | three cycles over two continuations | a statement of a document, violated (section 5) |
| `crash_taken_for_clean_end` | as `runtime_start` | a statement of the changelog, violated (section 5) |

Bounds. A lease of 3 over a clock of 6 lets it expire, be renewed, be taken over,
expire again under the second owner and be won back. Two runtimes show every pairwise
race, and the theorems cover any number. In `gate` the permanent failure class stands
for all that pause the campaign; the transient class, whose difference is the grace
period, is in `gate_shutdown` with it. A streak of two tells a counter that is reset by a heartbeat that
succeeds from one that is not; in `gate_shutdown` heartbeats do not fail, and the threshold is one.
The startups are not symmetric, because one of them is hosted. Two continuations are what a late handler of a
replaced worker needs. Two candles let a stop and a target be hit in either order or in
one candle, and let a bar be missing between them. Three updates are a request, its
confirmation and a redelivered or competing third. Two odd fields show every
masking of one fault by another. Where a property could depend on a third actor, the
theorem or section 5 says so.

`runtime_start`, `host`, `operator_tools` and `trade_gates` hold several models each. These
share no state, so one program or gate works in a behaviour and the others stay as they started: the
state space is the sum of theirs, not the product. A release without an acknowledgement behaves as
one whose acknowledgement has expired, so `operator_tools` starts with a valid one. Selection: a row is odd at the first
second only, after which the clock stands still until its one step back of two
seconds; that is the smallest that passes the tolerance of one second. Candles: the age
limit is one interval instead of the code's two, so that a window grows old within the
bound; the theorem covers any limit.

Fairness. In `gate_shutdown`, the event loop keeps scheduling its tasks, so the
reconciliation, heartbeat, startup and shutdown steps are weakly fair. The
resolver and maintenance loops run for ever with a sleep. A provider thread ends,
if only through its socket timeout. Nothing is assumed of the scan, of the
operator or of the world, whose fair end is the hypothesis of the property. In
the control part of `host`, the timer of `asyncio.wait_for` fires and a cancelled runtime ends:
its shutdown path has bounded waits only. No request and no ordinary end of a
runtime is assumed. In `campaign`, the maintenance loop ticks and a worker
that attaches, fails or leaves takes its next step, both only while they can write;
that nobody keeps the lock is a hypothesis of the property. In the storage part of `host`, the runtime's
controller checks again, because the scan loop calls it with every scan (`runtime.py` 2916), and a process inside
an operation goes on; faults are bounded.

Types. A type invariant is proved in the modules that have a theorem about it and is
not repeated as a property of a run.

## 4. Proofs

| theorem | statement |
|---|---|
| `TypeCorrect`, `MutualExclusion`, `LeaseStands`, `Refinement` | the lease, for every set of runtimes, TTL, margin, delay and clock bound: no two runtimes between check and fill, ordered and fenced fills, an undisturbed live lease, one account authority |
| `ReaderPromise` | single flight and fresh results of the reader |
| `GateTypes`, `ReaderRefinement`, `SingleFreshReads` | the gate's types; every step of the runtime is a legal step of its reader, or none |
| `EvidenceOpens` | doubt about the exchange or the resolver ends only in the commit of a CLEAN cycle of its own read; only a reject that itself had failed takes the recovery flag back |
| `BackedFills` | every fill has a committed CLEAN cycle, none in progress, no read left behind, no outage and a campaign the runtime did not give up behind it |
| `QuietRelease` | a released lease means no thread, no unaccounted read, no failed task, no recovery |
| `TrueRunning` | the supervisor and its status: one runtime, and RUNNING is true, for any number of requests inside `stop` |
| `CountsExposure`, `LeavesDoubtAlone` | the database file, for any number of openings, rows and deaths: its status columns tell the exposure; a file whose identity is in doubt is not touched |
| `OperatesOnEvidence` | the start of a runtime, for any number of startups, campaigns and deaths: the account seen empty, the process of the row found ended unless `process_is_alive` need not recognise it, no unclean row of its own campaign, no position left to it |
| `RemovalBacked` | the removal of evidence, for any number of processes, cycles, faults and any batch: into the ledger, or with a copy in a published archive and its manifest |
| `CampaignTypes`, `ContinuationEndsForItsCause`, `ContinuationEndIsFinal` | the continuations, for any number of workers, commands and continuations |
| `ResolverTypes`, `SettledStands` | the resolver, for any number of ticking processes, any candles, quantities and actions: what is closed, judged or recorded stays, and no stop is widened |
| `ResultsAreTheMarkets` | the resolver's results, for any market and any answers with holes: a position is closed on the first candle that reached a level, a label is that of the whole window |
| `LedgerAlwaysBalances` | the resolver's money, for any quantity, prices, actions, replays and crashes: slices add up, each cost is charged once, and exactly complete and linked results are evidence |
| `PaceIsKept` | the account's pace, for any symbols, caps, limits, cooldown and day: a day's entries stay within their limits, two entries of a symbol are a cooldown apart |
| `CapsAreKept` | the account's caps, for any symbols, groups, caps, requests and history limits: open positions within every cap, an allocation's offers takeable together |
| `SoundSelections`, `ArrivalDoesNotMatter` | the selector, for any listings, limits, rows and number of scans: what is stored as selected may be traded on current evidence, within every limit, once and within `max_active`; what may be traded is left out only for a place taken by another; the same rows, in any order, give the same cycle |
| `FreshEvidence` | the evidence of a decision, for any symbols, limits, leases of the caches, scans and steps of the wall clock: quotes within their age limit, the newest closed candle |
| `OnlySafeOrders` | the judgement of an order, for any readable limits and any number of odd fields: what a mode accepts pays its costs and is bearable, and PAPER accepts what LIVE_PRECHECK does |
| `PipelineTypes`, `CandleDecidedOnce`, `EvidenceHasPosition`, `ExposureWithinLimit`, `DuplicateCountedOnce` | the pipeline, for any symbols, candles, limits, restarts |
| `RemoteTypes`, `MutationOnce`, `StoredAnswersAreKept` | the Telegram service, for any number of updates, redeliveries and deaths |
| `QualificationIsSound` | qualification and finalization, for any number of commands and tools |
| `AuditIsSound` | the audit, for any number of decisions of any kind and of audits: outcomes are authoritative exactly when executed and complete, and the store is one moment's source |
| `SignalsStand` | a signal's candles, side and levels, for any frames, age limit, lags and judgements |
| `SilenceIsKept`, `NothingStandingIsMissed` | the account reader, for any symbols, limits and retries |
| `ReportAddsUp` | the backtest, for any candles, gates and closures: each signal has one fate, and the report's counts are those of the rows |
| `TakeOverDeletesTheDead`, `OperationsNeedALease` | the lease directory, for any number of processes, requests and deaths: a takeover deletes only what is dead, and two operations at once need a death and a lease grown old |

The lease. `MutualExclusion` is not inductive: nothing in it says why a second
runtime's check must fail. `IInv` adds that no reading is from the future
(`PastReadings`), that a runtime between check and fill is within its deadline
(`Deadline`), and that what the check saw still holds (`FillerOwns`). A takeover
needs `expires <= ts[s] <= clock <= ts[r] + FillDelay <= ts[r] + MinValidity <
expires`, a contradiction; this is the whole argument, and the place where
`DelayAssumption` is used. `FillsOfEpochs` ties the recorded fills to the current
token, which makes `FillHistory` inductive and gives the refinement. The
assumptions are `RuntimesAssumption`, `LeaseAssumption` (what `RuntimeConfig`
validates) and `DelayAssumption`.

The gate. Each step of the runtime is a step of its reader or leaves it alone
(`StepOfReader`), so the reader's inductive invariant carries over. A fill tests flags,
while its evidence is in rows and in the provider's bookkeeping; `BackedInv` says why
they agree: a cycle in progress shuts the gate (`CycleShuts`), an open gate's status is
the committed one (`StatusBacked`), an outage is a doubt or a reason (`DoubtBacked`),
and a campaign that was given up leaves the runtime stopping (`AbandonedShuts`).
`QuietInv` adds to `ReleasedOnlyQuiet` that release is the last step and that the
reconciliation task is idle once the tasks are cancelled: without it, a late step could
start a thread after the release. The proof of the types showed that two definitions of
`RuntimeGate` had CASE expressions whose guards overlap (TLC takes the first that
holds, the language allows any); they are IF chains now, in the order of the code.

Runtime control. A cancelled runtime ends without a write, so `RunningIsTrue` is
not inductive: nothing in it forbids a RUNNING status beside a cancelled task.
`ToldIsShown` adds that a runtime which was told to stop is still there and is
no longer shown as RUNNING; the stop's first write and `start`'s check of the
live task keep it so.

Opening the database. `ExposureIsCounted` is about who has the file open. `SchemaInv` adds
that the file's rows mean what was open when they were written, and what an opening may rely
on at each place (`Knows`), although it decides from what it read earlier. A step of one
opening leaves the file in a state in which the others still know what they knew (`Later`,
`KnownLater`), and giving a row a status keeps its meaning (`AdaptedMeans`).

Recovery. A start judges a row, an account and a count of positions that it read at different
moments. `RecoveryInv` adds what each startup may rely on at each stage (`Aware`): the runtimes
that went before it stay gone, a process that can be recognised and was not found alive is gone, and past the check its
evidence is settled (`Settled`).

Removal of evidence. The removal compares the rows it is about to delete with the archive's, but
not again with the manifest, and it holds no lock. `RetentionInv` adds that whoever writes an
archive has its lock (`Copying`), that nobody copies once there is a manifest, that what is
published has one, and that an archive never holds more than its manifest says: a backup happens
only before the manifest, damage only takes away. Compaction's case is `RolledUp`: a finite set of
cycles put in order keeps each of them. The theorem assumes `StorageAssumption` only; the run's
bound of one fault is one of its instances.

Campaigns. A handler acts on an old read, and nothing in the properties says that the
continuation it saw live is still worth a cause. `HoldsOK` adds that a pending read names
a continuation that was active, and that if this is live now it was live when it was
read; `RowsOK` adds that continuations after the active one are blank and that a CREATED
campaign has none. The first follows because only the next continuation ever becomes
live (`RowsStep`), the second because only `start_or_resume_campaign` advances
`active_run_id`.

Resolver. A tick commits from rows it read before the provider answered, so `SettledIsFinal`
rests on what each commit reads again in its transaction: the status of a position
(`ManagedPosition`, `ResolvedPosition`), that of a label (`LabelledRow`), the key of a row that
may be there already. The invariant it needs is the types, which are inductive by themselves; the
assumption is `ResolverAssumption`. For `ResultsMatchMarket` it is enough to add that a row which is not
settled has no result (`Unsettled`): a bar that settles one has no gap before it, so the first hit among
the bars seen is the first in the market (`SameFirstBar`).

Money. `LedgerInv` says of each trade what its books are after `n` partial exits (`Booked`) and after
a closure that follows them (`SoldOut`), where `n` and the money taken are those of its events
(`TradeBooked`). One action cuts, closes or leaves the books (`ManagingBooks`), a candle closes or leaves
them (`ResolvingBooks`), and a commit adds the one event its tick may ask for (`PartsAdded`). The sums are
folds that take the next element by CHOOSE. `SumLemmas` shows, by a smallest counterexample among the finite
subsets, that such a fold exists and that the order does not matter (`FoldExists`, `FoldIsSum`), hence that a
sum grows with its set (`SumAdds`). The theorem assumes that something is charged
(`0 < EntryCost + ExitCost`): with no costs at all, a closure whose costs are unknown has the same books
as a complete one, and the property, which recognises complete evidence by its costs, is false.
`ResolverAssumption` has trade and label ids apart, because evidence ids are prefixed
(`burnin_resolver.py` 400 and 1067).

Pace. An entry is written some time after the decision that counted the day's entries, and the
cooldown in memory may be lost meanwhile. `PaceInv` adds that no entry is from the future and that
a decided order still may be entered (`MayEnter`): a scan writes one order at a time, a later
closing leaves an entry where it was, and a day that begins in between has no entries yet
(`DaysAreOrdered`). That the persisted cooldown ends a cooldown after the latest entry needs a
largest element of a set of times (`HistoryAdmits`). The assumption is `AllocationAssumption`;
the bounds on the clock and on the rows are instances of it.

Caps. `CapsInv` says what a decision, made against what the runtime remembers, knows of what is open.
Memory mirrors every open row except the one just written (`Remembered`); a symbol has one open row;
and an order on its way fits in the remembered book. Two facts about books carry it, both on sums from
`SumLemmas`: a book that fits, one to one, in another adds up to no more, so what memory admits the
open positions admit (`SmallerBook`); and a position within room and places may be added (`GrownBook`).
The allocator's pass is a recursive function. That one exists is proved, not assumed (`StepsExist`,
`GreedyExists`), and a smallest counterexample on the candidates shows that the offers made so far
fit, and that whoever was given less than asked met a full cap or a history no size mends
(`OfferedUpto`). The assumption is `AllocationAssumption`.

Evidence. The age of a quote is judged by the wall clock and means the monotonic one.
`FreshInv` relates them: they differ by what the wall clock was set back, and so do the two
times of a scan and of a cached snapshot, each by what it was set back until then (`Stamped`). Between
two readings without a step the judged age is therefore the real one. As long as the wall clock was
never set back, what the geometry cache holds for a candle is that candle. The assumption is
`UniverseAssumption`.

Selection. `SelectionInv` says that the rows read, cached or being judged are rows of the exchange's
answers, and that each stored cycle is the selection from some such rows at some time (`IsCycle`). The rest
is about `build_selected_universe` alone. Its stages hand on decisions (`AreDecisions`): a row without a
reason passed every check, hence may be traded, and a row that may be traded and is judged in time
fails none (`TradableIsPassed`, `EligibleIsTradable`); no stage makes a rejected row eligible (`StageIs`).
Of two eligible rows of a symbol one beats the other (`OneBeats`), so each symbol is eligible once, and each
symbol that was eligible before is so still (`DeduplicatedIs`). A rank is a
place in a strict order of a finite set: the places are the numbers from one, each taken once
(`PlacesDiffer`, `PlacesAreTaken`), which bounds the selected by `max_active`; and as the selected have the
first places (`FirstOnes`), a place is free only if nobody eligible is left out. That the cycle does not depend on the order of arrival is `ArrivalDoesNotMatter`:
two lists of the same rows are carried into each other by a bijection that keeps the order of equal rows, each
stage commutes with it, and the last one sorts by what the rows are, with ties only between decisions that
are equal. It holds for lists of any length; the run has those of its instance. The assumption is
`UniverseAssumption`.

Orders. `AcceptedIsSafe` compares what passed some forty gates, which read a normalised copy of
the snapshot, with the snapshot itself. A list of gates names no reason exactly if none of them
holds (`NoneNamed`; the first one that holds needs a least element of a set of positions). From
what then does not hold, `QualityMeans` and `SafetyMeans` give bounds on the copy, and one lemma
for each field carries its bound back to what was delivered (`SpreadIsCharged` and the others).
The rest is arithmetic over products of unknowns: `StillPays` for the risk and reward, `StopMeans`
for the stop's distance as seen from the fill, `RightSize` for the scaled size. `SameRehearsal` compares
the gates of LIVE_PRECHECK with PAPER's. `Snapshot` says what each field may hold; it is inductive
under any number of faults, so `MaxOdd` does not matter. The theorem assumes `ReadableLimits`: the limits of
spread and slippage are at most 5 %, because `normalize_pct_input` divides a larger rate by a hundred
and a rate beyond such a limit would pass it (`config_registry.py` 144 admits up to 1.0), and
MIN_EFFECTIVE_RR is positive, because `calculate_effective_rr` cuts a negative result to zero,
which is then not below a limit of zero (`config_registry.py` 131 admits that).

Pipeline. `Base` has the types, the numbering of the positions (`Counted`) and the scan's
progress. `Decisions` adds that nothing is recorded of a candidate that is still undecided
(`Free`), that a reject on its way is about that candidate or its setup (`RowOK`), and that
behind a fill the position is there (`Bought`). `Exposure` adds that, while a scan goes on,
memory names every open row except the one just filled (`Known`; it may lag behind
closings, never behind fills) and that a candidate past the risk rules still has room
(`Room`). `Episodes` says that a duplicate-position reject on its way is the first of its
episode. `DuplicateCountedOnce` assumes that the lookup of earlier rejects answers
(`"episode" \notin LookupFaults`): the code treats a failed lookup as no earlier reject.

Remote control. A confirmation's execution spans four databases. `IInv` adds that an
update in hand was reserved in the replay store (`BatchOK`), that a confirmation was asked
for by a reserved update and is confirmed by somebody who was told of it (`Asked`), and that
between its consumption and its action nothing else acts on it (`Consumed`).

Operator tools. `ReleaseInv`: the aggregate is never ahead of the evidence; a command
knows, at each of its steps, what it has evaluated and whether a mutation came before it
(`Knows`); and the latest verdict is sound. `QuietInv`: the cooldown the reader keeps is
never shorter than the exchange's demand, and a reader that asks has none. `ExposureInv`:
at each step of a snapshot, what was collected so far includes all that has stood since its
beginning (`InProgress`). `LeaseInv`: an old lease is nobody's, because tokens are handed
out once and only a lease whose operation is over grows old; and a directory set aside is
one that its process had judged old (`Judged`). `SerialInv` adds, for as long as nobody has died or no
lease has grown old, what the path is to each process (`Placed`): the empty directory of the only one
between mkdir and owner.json, and the own lease of each that works or releases. Without a death the
lease at the path has a living owner (`Owned`), so it does not grow old, nobody gets to displace it,
and what is renamed away at the end is what was written. `AuditInv`: what the
tables say of a row is true of the rows the ingest reads, and stays true of the source, where a
settled outcome never changes (`BeliefLasts`); and each settled row that the ingest has passed
has its outcome in the tables to be committed (`RowsIngested`).

Backtest. The report is derived by subtraction from rows that several rules append. `ReplayInv` adds
that the replay has left every candle that has rows (`RowsAreBefore`). So the rows of a decision are a
signal of their own, and the signals grow by one together with the trades or the rejects (`SignalsGrow`).

Candles. `MtfInvariant` adds to the property the types of what is kept and in hand. An answer
asked for in the last instant of an interval is kept for that interval with the interval's own
candle, and may then serve a judgement with an earlier stamp; hence `KeptClosed` allows that one
candle, and `build_mtf_candidate_context` filters once more.

What stays with TLC, and why:
- liveness under fairness, outside what the prover handles: `GateReopens`, `StopEnds`,
  `StoppedCampaignHasNoWorker`, `CleanupFinishes`;
- how few deaths and requests it takes to have two operations at once. `OneOperation` says that it takes
  a death and a lease that has grown old, and is proved. TLC finds that one of each is enough from the
  fifth request of two processes on, and not before (section 5).

## 5. What the checks showed

The properties hold. Two statements of the documentation do not, and have a run and a
finding each. A campaign's statistics ledger can be compacted out of order
(`stats_ledger_out_of_order`; `storage_policy.py` 731 and 853 against
`docs/sqlite_storage_policy.md:135`), because an unresolved label protects only the
cycles of its own continuation. And a runtime that dies between the row of a periodic
reconciliation and its next heartbeat is taken for one that ended cleanly, also by
LIVE_PRECHECK (`crash_taken_for_clean_end`; `runtime_state.py` 209 against
`CHANGELOG.md:4782`); the startup reconciliation still asks the exchange.

What else was met while modelling and has no run:
- Gate. A reject that persists again clears the shared recovery flag although a
  lifecycle, position or ownership write was lost meanwhile (`runtime.py` 5727). A lost
  decision shuts the gate only by its reason, which an outage overwrites and a clean
  cycle then clears (1782); the retry of the heartbeat's terminal transition depends on
  the same string (6986). A read that outlives its timeout makes the next cycles fail as
  UNKNOWN, which pauses the campaign inside the grace window
  (`docs/AUTONOMOUS_QUALIFICATION_HARNESS.md:66`). A runtime stopped during an outage
  closes with CLEAN_SHUTDOWN while its gate is blocked (`CHANGELOG.md:552`).
- Control and campaign. A mode change that is refused because a runtime is going erases
  the status it was refused for; sent again, it is accepted (`app.py` 208). The recovery
  drill's own connection keeps the write lock for which its exposure probe waits
  (`burnin_ops.py` 1853, `CHANGELOG.md:1387`). A detached worker that is operational
  before its launcher writes the pid is never recorded (`REPORT.md:2066`).
- Pipeline. A setup may be entered again in a new continuation (`VERSION.md:353`).
  A guided-stop reject without SIGNAL_CREATED becomes ERROR
  (`docs/JOB21_PAPER_AUDIT_INTEGRITY_HARDENING.md`).
- Recovery. A preflight's RECONCILED row hides a live predecessor, or a LIVE one, until that
  one's next heartbeat. A predecessor in a dashboard may be judged dead while it is at work (section 2), so
  that a second runtime starts beside it; `StartsOnEvidence` promises the end of the others only. A
  complete probe that shows exposure is ignored when the stored event
  says CLEAN; the startup reconciliation catches it.
- Schema. A death in the middle of the first bootstrap leaves a half-created file that every
  later `init_db` refuses. Old lifecycle tables are refused before the migration that would
  repair them.
- Audit. Running an ingest again on the same source is idempotent, as documented
  (`system_audit_store.py` 757). It is not so if the outcome of a reject is settled between two ingests. The
  second finds the reject's envelope and hands its row back as it is stored, with `sl` and `tp` instead of
  `stop` and `target` (438). A planned-entry reject is then judged DIAGNOSTIC_SHADOW, its other shadow
  id is dropped by INSERT OR IGNORE, and the outcome's foreign key fails: this ingest and every later one
  of the run is rolled back as a whole. It is the last disjunct of `IngestReject`; what is in the
  store stays sound (`AuditStands`).
- Candles. A candle that the exchange publishes late stays missing for its whole interval,
  because the short answer is cached; the cache is never emptied; one failed request leaves a
  judgement without any candles while the other two go on. In state mode a signal's side may be
  the opposite of execution's.
- Lease directory. Two guarded operations can run on one campaign at once, against
  `docs/CONTROL_CENTER_RUNTIME_MAPPING.md:49` ("serializes campaign operations") and `:53`:
  `OperationsAreSerialized` does not hold. `_write_lease` makes the directory and writes its owner in two
  steps, and the second writes into whatever directory is there (`control_center.py` 395-398). In between,
  a takeover that was refused may put the dead lease back onto the empty directory (432), the next
  takeover moves it away again and makes a directory of its own, and both owners are written into that:
  TLC finds it with `OperationLease` alone under two processes, one death and five requests. With three
  processes it is shorter: A and B judge the same dead lease stale, B sets A's fresh one aside, and a
  third mkdir succeeds. What is deleted is still only what is dead (`TakeOverDeletesTheDead`), and
  without a death, or before a lease has grown old, operations are one at a time (`OperationsNeedALease`).
- Release. The stored-verdict shortcut (`burnin_campaign.py` 1097, `burnin_ops.py` 2263)
  lets a decision be taken after a mutation attempt or an expired acknowledgement
  (`RUNBOOK.md:20`); an acknowledgement after an INSUFFICIENT verdict is not heard until
  the evidence changes; CANARY_SUSPENDED is unreachable; a live-precheck start with
  `require_live_qualification` always raises (`runtime.py` 1959-2040).
- Account reader. Positions are read before orders: an order that fills in between is in
  neither, and the snapshot is COMPLETE and empty. `StandingExposureIsFound` is about what
  stands throughout. The engine's STALE_ORDER and LIFECYCLE_DIVERGENCE look for statuses
  this provider never produces.
- Order decision. A missing `expected_slippage_pct` beside klines becomes 0.0 labelled
  MODEL_ESTIMATE; `normalize_pct_input` reads 6% as 0.06%; both are exempted by name
  (`TrueSlip`, `Misread`). A rate labelled UNAVAILABLE is charged nothing when unknown evidence
  is let through (`REJECT_UNKNOWN_EXECUTION_CONTEXT` false), even if it is no number; the proof
  attempt showed this, with three odd fields, where the run's pairs do not reach, and
  `AcceptedIsSafe` says it now (`Knows`, `Charged`). BACKTEST cuts an allocation before scaling, the runtime after.
- Selection. The shipped scanners give no market cap, so a configured limit on it leaves every symbol
  UNAVAILABLE and selects nothing. `observed_at` is stamped after all four endpoint reads; the geometry cache is
  keyed by the local clock's candle, so with that clock ahead of the exchange the previous
  candle is served for a whole bucket; after a step back of the wall clock a decision may
  use quotes older than the limit by the step. `DecisionIsFresh` says exactly that much.
- Backtester. Each trade is simulated to its end before the next decision, so the
  portfolio check never sees one open and overlapping positions exceed
  `max_open_positions` (`config_registry.py` 175).

## 6. Not modelled

LIVE submission (disabled by `_reject_real_live_in_phase6`; `order.py` 503-555),
configuration, dashboards and reports, agents and learning, and the qualification harness. Most of the repository's lines are of this kind: numeric
diagnostics, exports and research scripts that read rows and decide nothing. Indicator
arithmetic is an input wherever a gate judges it. `PROJECT.json` gives the reason for
each component.

## 7. Plan

1. An abstract specification of a continuation (begun, runs, ends once) that
   `BurninCampaign` implements, composed with the runtime's view in `RuntimeGate`.
