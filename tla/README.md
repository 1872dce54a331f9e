# A verification of the Tajari paper-trading system

The repository trades micro futures on paper.  It has two generations of
machinery: the *paper lab* (`backend/paperlab`, `scripts/paper_milestone.py`,
`scripts/continuous_paper.py`), a pair of durable ledgers with a deterministic
broker, an independent audit and a cloud host around it; and the older *engine*
(`backend/services`, `backend/brokers`, `backend/main.py`), an asyncio service
over a relational database, whose trades are meant to reproduce its back-tests.
This directory models both, checks them with TLC and proves the central
invariants of most of the parts with TLAPS.

## 1. Inventory

| component | state it keeps | operations | interacts with | what is hard | module |
|---|---|---|---|---|---|
| broker simulator (`simulator.py`) | tables orders, bars, fills, lots | `submit`, `advance`, `snapshot` | the worker, through a transport | partial fills, stops and exits on the same lots in one bar; expiry; idempotent `submit` | `Simulator` |
| durable worker (`worker.py`) | tables intents, fills, bars, halted_days, meta | `reconcile`, `dispatch`, `recover`, `step` | the simulator's snapshot and `submit` | two databases and no common transaction; disconnects; restarts | `Worker` |
| milestone run (`paper_milestone.py`) | the tape, the files of one experiment | `worker_run`, `run`, `prepare` | drives both, injects crashes and an outage | a crash at any commit, replay of the tape | `PaperLab` |
| independent audit (`audit.py`) | none | `audit` | reads both databases | recomputes everything from fills | `PaperAudit` |
| ledger storage (`storage.py`) | journal, meta | `connect`, `bind`, `record` | every ledger | a record commits with what it records | `PaperLab` |
| continuous service (`continuous.py`) | receipts, daily audits, a broker/worker pair per scenario | `receive`, `_apply`, `halt_day`, `check_health`, `close_day`, restart | feed, supervisor, audit | receipts applied partly, halts across scenarios, contract rolls | `ForwardWorker`, `ServiceAgenda`, `ContinuousPaper` |
| feed and supervisor (`feed.py`, `continuous_paper.py run`) | queue, flags, a connecting thread, retry delays | `begin`, `close`, `_put`, the `run` loop | the SDK's threads, service | thread races, timeouts, overflow, retries | `FeedSupervisor` |
| registration, backup, amendment (`continuous_paper.py`), maintenance (`deploy/gcp`) | registration.json, archives, journal, STOP, fence marker, status.json | `amend_registration`, `backup`, one maintenance run, systemd's starts | each other, through files and a lock | kills and power losses between two durable writes | `Host` |
| status relay (`paper-relay.ts`) | one stored report | the receiving function, the Redis script, `/health` | publisher, monitors | duplicates, reordering, clocks | `StatusRelay` |
| execution engine (`execution.py`, `risk_manager.py`, `paper_broker.py`, `scheduler.py`, the controls of `main.py`) | trades, day rows and account in a database; the broker's book in a JSON file; counters in memory | `process_signal`, `_check_trade`, `close_position`, `_finalize_trade`, the cycle | market data, HTTP API | two stores and no common commit, one long-lived session, restart | `Execution` |
| market data, watchdog (`market_data.py`, `watchdog.sh`) | cache, session and its cookie, failure count; the count of bad checks | `get_historical`, `drop_forming_bar`, one check | Yahoo, scheduler, broker, dashboard | stale snapshots, a blind engine that looks healthy | `Market` |
| exit rules and strategies (`exit_rules.py`, `costs.py`, `orb.py`, `v2/strategy.py`) and back-tests (`backtest.py`, `v2_backtest.py`) | one trade | signal, trailing, judgement of a bar | engine, broker | two implementations of one rule at different times | `ExitRules`, `Replay` |

The rest is numerical or presentation code: indicators, the other strategies,
training, statistics, the dashboard, provisioning; and adapters of external
brokers.

What makes each part correct:

* paper lab: an order is intended once, reaches the broker once, fills for at
  most its quantity and never changes once over; exposure is bounded; nothing is
  executed on a price that had been seen; a finished run passes the audit.
* continuous service: a receipt is applied to every scenario exactly once; no
  entry after a halt or across a gap; a roll never crosses contracts.
* feed and supervisor: at most one connecting thread; a lost event is noticed
  before anything behind it is used; the loop never waits for ever.
* host: only the code the journal names writes; a copy is coherent; a fenced or
  stopped worker does not start.
* relay: the stored report never goes back; health is not vouched for long after
  it went.
* engine: the books add up over failed commits and crashes; a day's loss stays
  within its limit; an exit on record is booked; prices are of completed bars;
  an outage is told; an exit is the one the back-test would have made, or later.

## 2. How the modules build on each other

    Simulator, Worker -- PaperLab -- MCPaperLab (OrderProtocol, PaperAudit)
              \-- ForwardWorker, ServiceAgenda -- ContinuousPaper
                                                 -- MCContinuousPaper (PaperAudit)
    FeedSupervisor       Host       StatusRelay       Market -- MCMarket
    ExitRules -- Execution -- MCExecution (TradeBook)
         \------ Replay ---- MCReplay

Proof modules: `LedgerProofs` (the operators of `Simulator`, `Worker`,
`ForwardWorker` and `ServiceAgenda`), `PaperLabProofs`, `ContinuousProofs`,
`ExecutionProofs`, `FeedSupervisorProofs`, `StatusRelayProofs`, `HostProofs`,
`ReplayProofs`.  The specifications use no RECURSIVE operator, so
that they can be proved about.

`OrderProtocol` and `TradeBook` are abstract: the life of an order identity in
the paper lab, and of an order and its trade record in the engine.  The checked
instances show, with a refinement mapping over two ledgers each, that the
detailed specifications implement them, and both refinements are proved.

What would come next: the replay of the audit proved to follow the inventory of
the broker; a log of receipts each scenario consumes in order, implemented by
`ContinuousPaper`; shorts and sizes in `Execution`.

## 3. The models

### PaperLab

A ledger is a value.  `Simulator` defines the broker's ledger
`[orders, bars, fills, lots]` and one operator per piece of `simulator.py`, with
`Worked` and `Stopped` for the two halves of a whole `advance` and
`EntriesCancelled` for the cancellations of `halt_day`;
`Worker` defines `[intents, fills, bars, halted, riskHalted]` and the pieces of
`worker.py`.  `PaperLab` is the process: `sim` and `w` are the two committed
databases, `tx` is the simulator's ledger as its open transaction sees it, `pc`
and `mode` are where the process is, `todo` is what remains of the rows the
running loop selected.

| action | code |
|---|---|
| `Reconcile`, `ReconcileDisconnected` | `Worker.reconcile`, and `step` giving a bar up |
| `SubmitNext`, `Acknowledge`, `DispatchDisconnected` | one iteration of `Worker.dispatch`, cut at the broker's commit |
| `SkipProcessed`, `TakeBar`, `Finish`, `NewBar` | `worker_run`'s loop over the tape; the tape is chosen bar by bar |
| `AdvanceDuplicate`, `BeginAdvance`, `WorkNext`, `BeginStops`, `StopNext`, `CommitAdvance` | `Simulator.advance`: one order or one lot at a time, then the commit |
| `Decide` | `step`'s transaction: gap, risk limits, entry, exit, commit of the intent |
| `Disconnect` | `FaultTransport.offline`, from any point of a bar on |
| `Crash` | the process dies and a new one starts with `recover` |

Prices, ticks, fees and cents are left out: whether a bar reaches a stop, the
sign of the opening impulse, and whether a loss limit is crossed are inputs (a
limit only with inventory or after a fill since the last bar, for equity cannot
move otherwise, and a drawdown that was met stays met: `Breachable`).  Time is in minutes, a
session starts every `Stride` minutes.  Inventory is a set of contract units,
each with the number of the fill that opened it.  The journal of a database
commits with the rows it mirrors and is left out; so is the hash chain.  `Fail`
is an exception that ends the process.

`PaperAudit` replays the fills with its own lots, oldest first, and shares no
definition with the execution in `Simulator` beyond the types.  It makes every
check of `audit.py` that is not about cents, prices or the journal's mirrors: a
fill on a bar with volume, eligibility at the exact latency, lots, reduce-only,
stops, exposure, the tables, and for a forward ledger that no decision is
retrospective and no order fills on another contract than it was decided on.
`allow_open` is a parameter: FALSE at the end of a milestone run, TRUE in the
service.  `FinishedRunPassesAudit` is an equivalence, for with `allow_open` FALSE a
run that ends with inventory or a working order fails the audit, as it should.

### ContinuousPaper

One broker ledger and one worker ledger per scenario (`sim[s]`, `w[s]`) with the
same operators, and the service's own database: `receipts`, `contract`, `hard`,
`audits`, `opportunities`.  What the running call has still to do is a sequence,
the `agenda`; an action takes its head, commits at most once, and may put
further work in front.  `ServiceAgenda` has the parts every call is made of:
`halt_day` is a list of commits per scenario, `_apply` unfolds into advance, step
and reconcile of each scenario.  A crash between any two commits drops the
agenda.  `ForwardWorker` is the worker's decision with what this service
overrides: an exit may be asked for again, and nothing is eligible before the
actual minute.

| action | code |
|---|---|
| `Receive`, `ReceiveInvalid`, `ReceiveUnmapped` | `receive`: the receipt with its disposition, or the halts of a bad bar |
| `BeginApply`, `CheckContract`, `CheckFlat`, `Exclude`, `Pin`, `CountOpportunity`, `FinishApply` | `_apply` |
| `Advance`, `BeginStep`, `Decide`, `Reconcile`, `Dispatch`, `Acknowledge` | `Simulator.advance` and `ForwardWorker.step` of one scenario |
| `MarkHard`, `CancelEntries`, `HaltEntries` | `halt_day` |
| `Resume`, `Started`, `Restart`, `Crash`, `Raise` | `__init__`, `run` after an interruption or an exception, the OS supervisor |
| `BeginClose`, `CloseDay` | `close_day` |
| `Connect`, `Disconnect`, `PassMinute` | the stream and the clock |

A bar received in the minute after it is in time, a later one late (which stands
for `processing_lag`, halting alike), an earlier one incomplete.  Conflicting,
backward and malformed bars are one event, as they end alike; an identical
duplicate changes nothing and is left out.  The price and heartbeat timeouts
halt as `Disconnect` does.  The provider may change the contract at any bar, which
counts as a fault.

### FeedSupervisor

The three threads around one `DatabentoFeed` (connecting, callbacks,
termination), for any number of feeds one after another, and the supervisor's
loop, whose location is `at`.  Every place where `feed.py` takes or releases its
lock, or calls the SDK, ends an action: `Create`, `Subscribe`, `StartClient`,
`ConnectFails`, `Finally`, `ConnectionDone`, `Callback`, `LinkLost`, `Terminate`
for the threads; `Top`, `PollDone`, `PollPending`, `PollOther`, `CheckOverflow`,
`Get`, `Health`, `Report`, `Leave`, `Restart` for the loop.  SDK calls may take
for ever.  What an event does to the ledgers is `ContinuousPaper`'s.

### Host

One run directory and everyone who touches it.  `Start` to `WorkerFails` are the
worker under systemd (the registration is read *before* the lock is taken);
`Begin`, the `Copy…` actions and `Archive` to `ReplaceManifest` are `backup` and
`amend_registration`; `Check` to `Resume` are `maintenance-backup.py`, cut at
each durable write.  The operator writes and removes STOP, installs releases and
settles a fence.  Of the ledgers, `held` is that a scenario has inventory and
`pending` that an order works; `flat` in a report is about the first alone, and
`no_pending` reads the second from the databases, so `Check` combines a report that
may be old with ledgers as they are.  Assumed: a file of fewer than a block that was replaced by
rename is old or new after a power loss, in the order of the writes; a `sync` of
one file carries the older renames of its file system; the service is enabled,
so the machine starts it if its conditions hold.  `owed` is a history variable:
maintenance stopped the worker and its backup is not off the host.

### StatusRelay

`Publish`, the network (`Lose`, repeated and late `Receive`), the atomic script
(`Write`, after any delay, its answer heard or not), and the health request cut
between its read and its clock (`ReadStored`, `Answer`).  The worker's clock is
off by up to `MaxSkew`; an operator may restore older ledgers (`Restore`).
Reports of another run are refused by the identity alone.

### Execution, TradeBook, ExitRules

`db` is what is committed, `orm` what the engine's one long-lived session sees,
`book` the broker's file, `risk` the counters in memory.  None of the paper
broker's coroutines ever suspends, so a handler runs to its end; what interrupts
it is a commit that fails or the death of the process between two durable
writes, so the `agenda` is cut exactly there.

| action | code |
|---|---|
| `Cycle`, `Gate` | `scheduler._cycle`: rollover, recovery of the session, `monitor_positions`, `check_can_trade` |
| `Submit`, `Record`, `NoTrade` | `process_signal` up to the broker's saved book, its trade row, a refusal |
| `CheckGone`, `CheckBlind`, `CheckHeld`, `CheckHit` | `_check_trade` with `get_position`: the completed bars since the last look, gaps for review |
| `Manage`, `Commit` | the trailing stop, `update_stop`, the closing clock |
| `Close`, `Finalize`, `Realize` | `close_position`, `_finalize_trade`, `realize_pnl` |
| `TradingStop`, `CloseTrade`, `CloseAll`, `Sync` | the HTTP controls that change trading state |
| `Tick`, `Crash`, `Arm` | the day's phases; death and a disarmed restart; arming, which this release leaves to tests and scripts (its start endpoint answers 409) |

`Tables` are the rows of the database, `Saved` is the broker's `_save`, `Raise` and
`Resumes` what an exception leaves of the session.  The open trades are worked in
any order (`\E ids \in SetToSeqs(Open(db))`), as the queries have no ORDER BY.
An exception ends `monitor_positions` or the scan of one symbol, and the
scheduler rolls the session back; an HTTP handler's does not, so the session
stays poisoned until the next cycle (`poisoned`).  Trades are long and of one
contract; the branches for shorts mirror them.  Saves of the book that fail (a
full disk), the funnel's counters and the rows of signals are left out.  Phases
of the day are those the rules distinguish: open, five minutes before the close,
the last minutes, the halt of 17:00 to 18:00, the evening.

### Market

Time is in minutes, one scheduler cycle each.  A snapshot is known by its age,
so the minute its last bar began in, and whether it was still forming, follow.
`Fetched` is `get_historical` with its cache, its rebuild of the session and its
stale fallback; `Step` is a call by the broker or the scan, `Dashboard` one by
the API, `Watch` one run of `watchdog.sh`.  Yahoo has data for some of the symbols,
all or none (`source`); it, its cookies, positions and gates change freely
(external).  Failure counts are kept modulo what the code
looks at.

### Replay

One trade on one sequence of completed bars, lived three times: by the back-test
(`Complete`, `Timeout`), by the parameter search of `scripts/research.py`
(`JudgedLab`, a third translation of the V2 rule: a stop fills at its own price, and
the EMA trails it from the first bar on), and by the engine (`Look`, `Close`), which looks when it likes and may
find any number of new bars.  The trade is one that `OrbSignals` or `V2Signals`
opens: the breakout, ICC and engulfing rules and the stop and target arithmetic
are translated; session windows, news, volume, trend filters and the first
indication only decide whether there is a signal.  The EMA is arbitrary.  The
broker never judges the first bar after the signal's, in which it was filled
(`New`).  The engine's halt for review at a gap is not modelled: the tape has no
gaps.

## 4. Runs

| run | instance | properties |
|---|---|---|
| `paper` | one contract on two days with 1 fault; two contracts filled one at a time, and an entry the broker rejects, each on one day with any 2 faults; fairness | no fill after a stop, one entry a day, no look-ahead, exposure, nothing left undelivered, what an exit covers, what can end a run, the audit of a finished run, permanence of history, `OrderProtocol`, every run ends |
| `time_exit` | two contracts filled one at a time, no fault | `TimeExitSubmitted` is violated (section 6) |
| `continuous` | one session of 6 minutes and its close, an opening of 2, two contracts rolling at any bar, loss limits, any 2 faults; fairness | scenarios in step, no entry across a gap, halts hold and reach both scenarios, a hard halt freezes, lots stay on their contract, complete opportunities were open to both, exits are retried safely, the forward audit at every report and start, receipts are finished |
| `feed` | two feeds, queue of one, retry delays of 1 and 2; fairness | one connector, nothing used behind a lost event, dropped clients terminated, the supervisor never stuck |
| `feed_silence` | the same, bars only; fairness | `SilenceEnds` is violated (section 6) |
| `relay` | posts delayed, repeated, reordered; skewed clock; restore | accepted reports are kept, health is recent |
| `host` | two versions of the code, two amendments, one bar, 2 faults | coherent copies, copies of a resting ledger, only amended code writes, starts only when allowed |
| `execution` | two symbols, two orders, four kinds of bars, three stops, 1 fault; fairness | the books balance, a day's loss is bounded, `TradeBook`, exits are booked |
| `market` | two symbols, bars of a minute, the timeouts a few minutes apart; fairness | a session heals, outages are told |
| `partial_bar` | one symbol, bars of 5 minutes | `OnlyCompletedBars` is violated (section 6) |
| `replay` | both strategies, two openings, six bars, two EMAs, tapes of four | the engine's stop lags the back-test's, it is never out first, it reproduces |
| `search_mirror` | the same | `SearchMirrors` is violated (section 6) |

Each property says, in the comment before it, which promise of the code it is
about; `PROJECT.json` lists the hazards each one covers.

Bounds.  *Paper lab:* two opening minutes, a latency of one and an entry life of
two leave room in a session for the entry to fill in two parts, expire or be
delivered late.  The bounds of a tape belong to its case.  Two faults cover a crash
during the recovery of a crash and a crash after an outage.  The case of two days
has one to get stuck with inventory (by an outage or by bars without volume) and
one to meet the entry rule with it; an exit life of two lets an exit expire.
*Continuous:* an opening of two bars has a halt, a gap, a late or empty bar and a
roll inside it; an exit life of one lets an unfilled exit expire and be retried in
the session, while one asked for at its end is carried into the close; the first
fault makes a halt, a gap or a roll, the second interrupts its handling; the
horizon is one minute past the session, when `close_day` is due.  A roll that
meets a working exit after a stop took the position, and the service that raises at
every start from then on (`StuckRoll`, phase `broken`), are reached.
*Feed:* with two slots a feed is
dropped, its thread still running, while the next connects; a queue of one
overflows at the second event; two delays show the doubling and its cap.
*Relay:* one post in flight, one passing its checks and one stored are the three
places a report can be overtaken in; the proofs cover the rest.  *Host:* two
amendments, so that one can be interrupted and another begun over its remains;
two faults, a loss of power while an earlier one is being repaired.
*Execution:* two orders on two symbols meet in the exposure gate and in the close
of everything; the limit of 20 admits one of the wider stops and not a second;
bars go down through the stop, up through the target, up past one R, and to an
implausible price; a stop above the per-trade cap is refused.  One day: the later
days of a held trade have no further branch except the reset of the count in
memory.  *Market:* the timeouts keep their order (a snapshot outlives a bar, the
stale fallback outlives the snapshot), and the second failure rebuilds the session;
two symbols so that one can fail alone.
*Replay:* four bars hold the unjudged one, a trailing one, an exit, and one that
the engine is late for.

Deadlock is not checked where a run stops: a finished tape, an exited supervisor,
a spent trade.

Fairness.  `paper`: of the program, a single loop that waits for nothing but its
own databases, and of the market printing bars, for the tape is finite.
`continuous`: of the process and of the OS supervisor that restarts it.
`feed`: of the supervisor's loop, its timers and a terminate call; none of the
SDK's connecting calls, the provider or the operator.  `execution`: a handler runs
to its end (weak), and the event loop resumes the scheduler's task when its sleep
is over although requests keep arriving (strong, as requests disable the cycle
again and again).  `market`: of minutes, cycles, downloads (which time out) and
the watchdog's timer; none of Yahoo.  Faults are never fair, and bounded.

## 5. Proofs

For every value of the constants that satisfies the named assumptions, TLAPS
proves:

* `PaperLabProofs` (with `LedgerProofs`, lemmas on every operator of the two
  ledgers): first `Inductive` and from it `TypeCorrect`, `IntentBeforeSubmission`,
  `NoDuplicates`, `FillsAreObservedInOrder`; the action properties
  `HistoryPermanent` and `ReconciledDecisions`.  `IInv` is the type together with:
  a bar is being worked on exactly in `step` mode (`OnABar`); outside an advance
  `tx` equals `sim`, within one it follows the committed ledger without revising it
  (`OpenTransaction`); `todo` holds rows the running loop really selected
  (`RowsToDo`); the broker's ledger is sound (`Sound`); and the three invariants.
  None is inductive alone: that an order acknowledged is an order placed needs
  `RowsToDo`, that a commit does not revise history needs `OpenTransaction`.
  Then `SInv`, and from it `OnlyGivenUpBarsEndRuns`, `ExposureStaysBounded`,
  `StoppedEntriesEnd`, `NoLookAheadEver`, `DayEnteredOnce`, `NoneIsLeftBehind`.  It
  adds that the tape is consumed in order (`TapeRead`), what an intent's times and
  size are (`Scheduled`), that the broker's tables agree with each other (`Booked`:
  an order is filled for what its fills add up to, the inventory is what was
  bought less what was sold, a stopped entry is over), and that inventory with
  whatever a live entry may still add stays within the frozen quantity (`Exposed`).
  Exposure needs an entry to be over before a later session opens, which is
  `EntryLifeAssumption` (an entry lives for minutes, sessions are a day apart);
  that no reconciliation check fails needs `Booked`, for the position check
  compares two of these sums.
  `TimeExitAlwaysCovers` is about every exit asked for at the exit minute or later,
  for any quantity and however little a bar fills.  `TInv` adds (`Departs`) that its
  remaining quantity covers the inventory and that every entry has expired by the
  time it was asked for (`Settles`), in the committed ledger and in an open
  transaction alike.  The second part makes the first inductive: fills and stops
  take from the exit and the inventory alike, or from the inventory alone, and no
  entry can add to it.  It needs `TimeExitAssumption`, that an entry of the day
  is over before the exit minute, which the registered times satisfy (09:45 and 3
  minutes, 10:14).  What the protocol says beyond this, that such an exit is
  always asked for, is false (section 6).
  `OrderProtocolImplemented` is the refinement: every step of the two ledgers is a
  step or a stutter of `OrderProtocol`.  One lemma on how a step may change the two
  ledgers (`Grows`) serves it and the permanence of history.
* `ContinuousProofs`, for any sizes, sessions, contracts and tapes, any number of
  crashes, restarts, outages, rolls and halts: `ServiceStays`, `ServiceTyped`,
  `ScenariosStayInStep`, `LedgersRaiseNothing`, `OpportunitiesComplete`,
  `HardHaltStays`, `LotsStay`, `HaltedDaysFillNothing`, `EntriesNeverCrossGap`,
  `ExitsRetried`.  `Agree` relates the two ledgers of one scenario, which are
  written in separate commits (each operator of the worker and each move of the
  broker keeps it: `WorkAgree`, `StopAgree`, `AdvanceAgree`, `ReconciledAgree`).
  `Service` puts the process around it: `Control` is the order of the agenda and
  that at most the last receipt is unapplied and then queued or the process is
  down; `Ledgers` is `Agree` for every scenario and that a bar's entries are
  cancelled where they are late; `Processed` says who has seen which traded bar,
  so that a resumed receipt skips what is done; `Untouched` that a receipt which
  cannot be applied left no trace.  `HardHaltStays` needs `Frozen` besides: a roll
  halts for review only where inventory or a working exit makes it stuck
  (`HardStuck`), it stays stuck because nothing trades from then on (`Trading`),
  and the day's close never meets it (`ClosesAlone`).  That a roll which found the
  scenarios flat is not halted halfway needs that the check for working orders
  comes behind the cancellations (`FlatDue`), which needs that the workers have
  seen their brokers' fills wherever nothing is due to show them (`Synchronized`,
  `Shaped`).
  The other four are about single entries and exits.  `LotsStay` needs that every
  fill has its bar, and that those whose inventory may still be carried were made
  on the active contract (`Held`); a roll needs everything flat.
  `HaltedDaysFillNothing` and `EntriesNeverCrossGap` share `Guarded`: whenever an
  entry is live and its scenario's halt, a roll or a bar behind a gap is queued,
  its cancellation is queued in front, and its dispatch before that if the broker
  has not got it yet (`Barred`: `halt_day` reconciles, dispatches and cancels
  before it commits the halt); so a halt on record finds no live entry of its day
  (`Unhalted`), and the minutes between the decision of a live entry and the last
  traded bar were all traded, on one contract (`Chained`).  It also needs that an
  active entry has filled nothing (`Unstarted`) and that no fill is newer than the
  decision of a live entry (`NoFillsSince`), for otherwise a loss limit could halt
  its day.  `ExitsRetried` adds `Exits`, whose parts
  (`Leaving`) relate the two ledgers: an intent that is over is over as its order
  is (`Echoes`), an exit is asked for with a halt or from the exit minute on
  (`Called`), so that no live entry is of its day or an earlier one (`Apart`: an
  entry is decided before the exit minute, which is `ExitAssumption`), and
  on its day an exit's quantity covers its fills and all the inventory (`Covered`).
  An exit that has filled has then taken all the inventory with it, and any other
  exit that is over may be asked for again.
* `ExecutionProofs`: `Typed`, `TradeBookImplemented`, `BooksAlwaysBalance`,
  `DayLossStaysBounded`, for any number of symbols, orders, days, stops, prices and
  faults.  `LifeInv` says that the session lags the tables only in what a handler
  may not have committed (`SessionFollows`), orders and trades belong to each other
  (`OwnOrders`, `ExitsRecorded`, `PositionsHeld`), and the agenda holds work on
  different open trades with what cannot wait in front (`AgendaMakesSense`): without
  it a trade could be finalized twice.  `BookInv` adds that account and day rows are
  sums over the closed trades (`Tallied`) and that the broker's balance lacks at most
  one outcome per fault (`BalanceFollows`); `LossInv` that a fill not recorded yet
  was admitted by the gate (`Admitted`).  Sums are the community
  `SumFunctionOnSet`; what they do when an element is added is proved by induction
  over finite sets, in the form "a set of counterexamples has a least element".
* `FeedSupervisorProofs`, for any number of feeds, queue capacity and delays:
  `OneConnectorAlways`, `CancelledNever`, `NothingAfterLossEver`.  `FInv` adds that
  every attempt but the current one has ended (`OthersEnded`), that a late event
  stands only in the queue of a feed that knows of its loss (`LateIsLost`), and
  that between the test of the overflow and the take the head is not a late one
  (`HeadIsSafe`), because a loss in between finds the queue full.
* `StatusRelayProofs`, for any number of registrations, counters, posts and
  overlapping invocations, and any skew: `Kept`, `HealthRecent`, `StrictlyNewer`.
  The strengthening is that no good report, wherever it is on its way, carries a
  time later than its worker's last good moment and the skew (`ReportsInTime`).
* `HostProofs`, for any number of versions, amendments, bars, kills and losses of
  power: `Typing`, `AmendedCodeWrites`, `AllowedStarts`, `Coherence`, `Rest`.  `HInv`
  adds that the worker and a job exclude each other, and the worker's code is the
  journal's (`Locked`); that behind a synced fence the worker stays off, and the
  fence stands for as long as a settlement is owed (`Guarded`); that a copy
  agrees with the ledgers as far as it has come (`Copying`); and that the report of a
  stopped worker tells whether its ledgers are flat (`Reported`), which is what the
  second check of the maintenance relies on.
* `ReplayProofs`, for every tape, EMA, slippage, signal and schedule of looks:
  `StopsAlwaysLag`, `NeverOutFirstEver`, `ReproducesAlways`.  `IInv` needs that the
  back-test's stop has gone as far as the last bar takes it (`TrailedFar`), what
  the engine's last price is (`Priced`), and that a bar the engine has not judged,
  through which the back-test held on, would have left the engine's trade open too
  (`Fresh`).  `ReproducesAlways` needs besides that, with a look after every bar,
  the back-test is at the engine's trade or one judgement ahead of it (`InStep`).
  `SearchIsNeverLooser` says which way the parameter search departs from the
  back-test (section 6): its stop is never looser and its exit never later.  It
  needs `LabInv`: as long as the search holds its trade the back-test does, and its
  stop is then at least as far.

A proof has one lemma per action and one step per conjunct the action disturbs;
`HostProofs` has one lemma per conjunct and one step per action.  In
`ExecutionProofs` the steps are first sorted by what they do to the tables
(`StepKinds`), and what the sums need is proved once per kind.

Only model-checked: liveness (`RunEnds`, `ExitsBooked`, `ReceiptsFinished`,
`DroppedEnds`, `NeverStuck`, `SessionHeals`, `OutagesTold`), which is outside the
prover; and the audits (`FinishedRunPassesAudit`,
`ReconciliationPasses`), folds over the fills that keep lots of their own, so that
what they return is known by induction over data only; and `HaltReachesBoth` and
`OpportunityTaken`, two action properties of the service.  Proved and in no run:
`StrictlyNewer`, that the relay's report is replaced by a strictly newer one only,
and `OpportunitiesComplete`, the whole opening for any length.  `TypeOK` of `Market` documents its variables
and is checked by no listed run.

Operators marked `Mutant` are a definition with a plausible slip of the code (a
missing delete, a count off by one, a write before a commit).  Each property is
violated when one of them takes the place of the definition it varies; no
specification uses them.

## 6. Where the code departs from what it says

**Shown by a run.**

`partial_bar`: `drop_forming_bar` promises "callers only ever see COMPLETED bars"
(`market_data.py:479`) but compares the last row's start with the clock, while
the snapshot may be 90 s old, or an hour in an outage.  A bar that was forming at
the download and has ended since passes with the high, low and close of the
download, is evaluated once for the scan and judged once, for good, by the broker.

`feed_silence`: two callers of `check_health` notice a heartbeat timeout, the loop
(`continuous_paper.py:155`), which replaces the feed, and `snapshot()`
(`continuous.py:424`), whose verdict is dropped.  When the report comes first, the
connection is already "disconnected" and the loop is never told again: a silent
but open connection stays for ever.

`time_exit`: `evidence/paper-milestone-protocol.json:26` promises "At completion of
the 10:14 minute, submit a reduce-only time exit for remaining inventory";
`worker.py:102-103` has one exit identity a day.  In the registered stress of two
contracts filled one at a time, a loss limit asks for an exit of one while the
first contract is alone, the second fills, and at 10:14 the identity is taken:
inventory stays without an exit.  For the same reason an exit that a loss limit
asked for is not asked for again at 10:14 when 30 minutes without a trade ended it
(`worker.py:108`) or an outage of that length made the broker refuse it as stale.
What does hold, of an exit asked for at 10:14 or later, is `TimeExitCovers`.

`search_mirror`: `research.py:73-74` says that its simulation "Mirrors
scripts/v2_backtest.simulate() exactly ... Defaults reproduce the baseline".  It
fills a stop at its own price where the back-test fills it at the open of a bar
that opened beyond it (`research.py:129-130`, `v2_backtest.py:78`): a long stopped at
92 by a bar that opens at 88 leaves at 91 in the search, at 87 in the back-test.  It
also lets the EMA move the stop from the first bar on (`research.py:154`), where
`trail_v2` waits for one R.  The search errs to the tighter stop and the earlier
exit, and at a gap to the better price.

**Met while modelling, without a run** (the models follow the code there; where a
checked property would not hold in such a state, it names the state as an exception
or is about something smaller, which is said here).

* A roll that meets an exit whose position a stop has closed hard-halts and raises
  with the receipt unapplied (`continuous.py:354-356`); every start raises again
  on the same receipt (205-206).  The receipt is never applied, so
  `ReceiptsFinished` excepts exactly this state (`StuckRoll`); the other properties
  hold in it too.
* `close_day` commits its row before it halts (469, 472) and returns early on the
  row (463): a process killed in between does not halt the unresolved day.
* `amend_registration` keeps an existing archive unread (`continuous_paper.py:245`):
  after a kill in the middle of its write, the next amendment completes over the
  torn file and every later start refuses the lineage.
* `_trailing_stop_v2` says that trailing may only tighten; after a crash or failed
  commit between `update_stop` and the commit, the row holds the older stop and the
  next, lower one is sent to the broker.
* A crash between the broker's saved fill and the trade row leaves a position no
  row owns; one between the commit of an exit and `realize_pnl` leaves the file's
  balance without it (until a sync).  `TradeBook` and `BooksBalance` say how far this
  goes.  A restart forgets the exit-day loss, which is held in memory
  (`risk_manager.py:219`), so that day may lose more than its limit;
  `DayLossBounded` counts by the day of entry and does not catch it.
* A manual close drops the review flag of a position; `emergency_close_all` stops
  at the first failed commit; stopping the scheduler also stops the monitoring of
  open trades; an order that raises in the broker is the one refusal not counted.
* "A data outage can never again be silent" (`market_data.py:191-192`) holds for an
  outage of every symbol only: consecutive failures are counted over all symbols
  (`market_data.py:67-78`), so with one symbol down each download of another clears
  the count, and neither the watchdog nor the scan status tells.  `market` reaches
  that state; `OutagesTold` is about full outages.  The restart part of the watchdog's
  story, a process that counts from zero again, is not modelled.
* Cache keys include the period, so the scan and the broker may see different last
  bars.
* `run_engine.sh` says its backoff is capped at 60 s; it goes 40, 80, 60.
* "Reproduce … exactly" (`_trailing_stop_v2`) does not hold for the first bar after
  the signal, which the back-test judges and the broker skips; the V1 back-test
  judges the target before the stop and ignores gaps at the open, where the broker
  judges the stop first.  `Reproduces` names these conditions.
* `OnlyGivenUpBarsFail`: after an outage made the worker give a bar up, a restarted
  process meets it again and `step` raises; the registered cases combine no outage
  with a crash.

## 7. Not modelled

* Cents, fees, exact prices and the hash chain of the paper lab; mapping rows and
  payload checks of the continuous service; the snapshot's contents.
* Position sizing, shorts, the price of a manual close (the last judged bar's, which
  may be old), funnel counters, equity snapshots and prop-firm views of
  the engine; read-only endpoints.
* Indicators, resampling, time zones, holidays and session tables; momentum and the
  machine-learned strategy; statistics, research scripts and training: numerical
  code over files or series, without state between calls.
* External broker adapters and provisioning (services outside the repository) and
  the dashboard (presentation).
