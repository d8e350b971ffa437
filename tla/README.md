# TLA+ models of ArjioBot

ArjioBot is a trading bot for Bitget futures. A monitoring session polls every
enabled pair, a strategy funnel looks for setups in the fetched candles, the
Setup Radar tracks them, and live automation turns a tradable setup into one
live order. The same funnel runs in backtests. This directory models these
parts, checks them with TLC and proves central properties with TLAPS. Paths
below are under `src/backend/arjiobot/` unless they begin with `src/`.

## Inventory

| Component | State it keeps | Operations | What makes it correct | Module |
|---|---|---|---|---|
| Setup Radar `live_setup_detection.py`, `setup_tracker/setup_models.py`, `setup_history_store.py` | `setups`, `completed_setups`, `invalidated_setups`, resolved ids and keys, `processed_trade_keys`, history file | poll of a swing (filter, trace, trade hand-off), terminal moves, clear, restart | one row and one order per swing; resolution is final; nothing lost | `SetupRadar` |
| Live automation `live_automation.py` | `processed_setup_ids`, `executed_trade_plan_ids` | `run_live_automation_once` | at most one order, limits, no stuck setup | `LiveAutomation`, `ExecutionDecision` |
| Strategy engine `strategy/strategy_engine.py` | generated-signal markers | generate, clear | a blocked setup can signal again | in `LiveAutomation` |
| Risk engine `risk/` | assessments and plans | `create_trade_plan` | limits on positions, margin and leverage | `LiveAutomation` (limits), `OrderSizing` |
| Bitget environment `exchange/bitget_environment.py` | mode, `live_armed`, counters, runtime credentials, last balance | preview, `place_order`, `test_connection` | an order is what was approved, on the account selected | `LiveAutomation`, `LiveControl`, `OrderSizing` |
| Monitoring session `api/routes/monitoring.py` | `monitoring`, Timer chains, the saved preference | start, stop, poll cycle, resume | the session is polled, old chains end | `MonitoringSession` |
| Live candles `market_data/`, `api/routes/monitoring.py` | rolling buffer | merge, derive timeframes | true to the market, blocks never shifted | `Candles`, `LiveMarket` |
| Swings, expansion, FVG | none in a scan | detection, relation, taps | the engine that outlives a scan finds what a fresh one does | `MarketStructure`, `LiveMarket` |
| Strategy funnel `src/backend/scripts/backtest_csv.py` | none | funnel, attempt tracer, simulation | both decide alike, verdicts and trades are final | `StrategyFunnel`, `LiveMarket` |
| Accounts and switches `api/routes/accounts.py`, `exchange/account_vault.py`, `settings.py`, `account_status.py`, `live_trading.py`, `bitget.py` | saved accounts, ciphers, vault key, selection, `live_armed` | save, test, reconnect, select, delete, arm, disarm | memory and vault agree, CONNECTED is proven, one account per cycle | `LiveControl` |
| Backtest report `src/backend/scripts/backtest_csv.py`, `backtesting/` | none | load a file, merged account, time based exit, older simulator | the numbers agree | `BacktestReport` |
| Backtesting API `api/routes/backtesting.py`, page `src/frontend/src/pages/Backtesting.tsx` | uploads, contents, runs; the page's upload id | upload, run, give up, restart | a run is of the content, name and symbol its page shows | `Backtests` |
| Setup tracker, paper execution, profile freeze, presentation | | | | not modelled |

How they interact: a `threading.Timer` runs one poll cycle and starts the next
timer; within the cycle each pair is fetched, `detect_live_setups_for_symbol`
scans the buffer with the funnel and updates the radar, and
`run_live_automation_once` runs, in the same thread. API requests run in threads
of their own and may stop, start, clear, disarm, select another account, or run
the automation. All of them share one `ApiState` without a lock. Settings,
accounts and the resolved history are on disk; all else dies with the process.

The hard behaviours are those of that arrangement: two runs of the automation
at once, check-then-act around calls to the exchange, answers that never come,
state that a restart forgets, four overlapping deduplication mechanisms, Timer
chains that outlive their session, credentials and balances changed under a
cycle in progress, a buffer that begins in the middle of a block, and decisions
the program takes twice in separate code. `PROJECT.json` lists them at their
lines.

## Modules

```
Candles <- MarketStructure <- StrategyFunnel <- LiveMarket
                                             <- BacktestReport <- Backtests
OrderSizing <- LiveControl
ExecutionDecision <- (INSTANCE) LiveAutomation
SetupRadar, MonitoringSession
```

### `SetupRadar`

`radar` is the state of the radar, a record with one field per store; `orders`
counts what the exchange received per swing, `now` is the clock in ticks.
`Evaluate(s)` is a poll whose filter admits swing `s`: it composes `Trace`
(`_apply_one_attempt_trace` with its early returns, reopening and terminal
write) and `Trade` (the take-over of the tracer's row by the real trade), both
functions from one state to the next, so that the order of writes inside a poll
is kept. The clock may advance between filter and trace, because the funnel
runs in between. `SkipResolved` and `SkipStale` are the polls the filter stops.
`Expire`, `TimeOut`, `Reject` and `Submit` are what live automation does to a
tradable row; `StopMonitoring`, `ClearHistory` and `Restart` are the operator
and the deploy.

What the funnel finds is an input (`Outcomes`): a stage still waiting, a failed
check, or ENTRY_READY with or without a trade; `StrategyFunnel` computes it. The
progress of a tracer row is one bit, 100% or less, because the code refuses a
Setup that fails at 100%. The dwell time is left out: every terminal move of the
current code bypasses it. So is the cap of 200 on `processed_trade_keys`, which
a model of two swings cannot reach. Rows are taken out of a list by `Filter`,
which counts places instead of recurring, so that it can be reasoned about.

### `LiveAutomation` and `ExecutionDecision`

`stage[w]` says where thread `w` is in a run; a run is cut where it calls the
exchange or where another thread may see what it wrote. `Detect` and
`GrowOverdue` stand for the radar, `ClosePosition` for the exchange, and
`Disarm`, `Arm`, `StopMonitoring`, `StartMonitoring` for the operator. Whether
a signal, a plan or a preview is refused for reasons of its own numbers is a
choice; the limits that depend on shared state (`WithinRisk`, `CountersAllow`)
are kept. Signal and plan ids are functions of the setup, so `executed` stands
for both lists. `ExchangeAccepts` and the loss or arrival of the answer are
separate steps, as is the margin top-up after an accepted order. An unexpected
exception in `_process_setup` has the effect of `Blocked`, so it is among its
outcomes before the order; after it the code up to the record of the submission
is taken not to raise.

`ExecutionDecision` says what that machinery promises: a setup is detected,
ordered at most once at a time, and decided once and for good, traded only on an
answered order and refused only with none on its way; only a lost answer lets it
be ordered again. The mapping takes `verdict` from `outcome` and `ordered` from
the threads that wait for an answer or top up a margin. Live automation with one
thread implements it (`DecidesOnce`, checked by `OneThread`, proved as
`OneThreadDecides`). With two threads it does not: `AutoThreads`.

### `MonitoringSession`

Sessions are numbered; `chain[n]` is what session `n`'s chain of timers does.
A chain looks at the session before a pair, after the last one and when it
reschedules, and nowhere else. `Persist` is the save of the preference after a
start or stop; `Restart` kills the threads and resumes. What a poll of a pair
does is in the other modules. Requests come one at a time, the set of enabled
pairs is fixed, and `save_settings` succeeds.

### `Candles`, `MarketStructure`, `StrategyFunnel`, `LiveMarket`

A candle series is a function from start minutes to prices. `Candles` has the
shape of a candle, the merge of the rolling buffer and the derivation of a
timeframe by blocks that are aligned to midnight; `MarketStructure` has swings,
expansions, gaps and taps over three consecutive candles. `StrategyFunnel` is
the strategy in both directions, twice as in the source: `BearishFunnel` and
`BullishFunnel` with the simulation of trades, and `Trace`, the attempt tracer
whose verdicts the radar applies. Its timeframes are constants: 4, 3 and 2
minutes in the runs for 16, 12 and 8 in the program.

`LiveMarket` adds the state: `tape` is what the market traded, `buffer` the
rolling record of the pair, `known` the expansions kept by the one engine that
outlives a scan. `Minute` extends the market; `PollClosed` and `PollForming`
fetch, merge and scan, the second inside a minute, when the exchange also
returns the partial candle that the program stores as closed. `verdicts` and
`lapse` are auxiliary: the first final verdict of each swing, and the first
minute fetched after the polling lapsed for longer than one request covers.

### `LiveControl` and `OrderSizing`

`OrderSizing` is the arithmetic of an order over whole numbers: leverage from
the stop distance, size in lots, rounding, minimum size and notional, margin.
Quotients are multiplied out, so no rounding is lost. The two places that work
out the ratio of target to stop are one operator.

`LiveControl` is which account that order goes to. Every request handler is an
action; those that wait for the exchange (`TestAccount` and `TestRuntime` with
`TestPasses`/`TestFails`, `SwitchLive` with `SwitchPasses`/`SwitchRefused`, the
orders) are cut there. Credentials are an account and whether the secret was
typed right; a cipher is credentials under a generation of the vault key.
`Snapshot` is any page that activates the selected account as a side effect.
The poll cycle and the manual order route are two threads that plan, send and
top up. `signed`, `kept` and `overtaken` are auxiliary records of who signed in
the cycle, whether a request about accounts interfered, and which accounts were
saved again under a test.

### `BacktestReport` and `Backtests`

`BacktestReport` is what one run computes: which files load, the merged account
of both directions, the time based exit laid over finished trades, the
comparison of profiles, and the older bearish simulator of `backtesting/`.
`Backtests` is the server and the page around it: uploads and runs by several
threads that interleave between any two accesses to shared dictionaries, a page
that gives up (after 300 s for an upload, 120 s for a run) and repeats, and
restarts. A member of `Files` is a content, what the hash in an upload's id
stands for; the name it is sent under and the symbol typed for it are of the
request, and name and detected symbol together are its `label`. Neither is a
function of the content, so an id says nothing of its label: the same content
sent under another name while an upload is in progress, or after a restart, takes
the same id and replaces the entry. An upload is five steps: the choice
(`ChooseFile`), number (`NumberUpload`), entry (`DescribeUpload`), content (`KeepContent`), and the answer,
which reads the entry again (`AnswerUpload`). `rivals` is an auxiliary record,
kept with an entry, of the uploads in progress that held its id when it was
written, and `server` one of whether the server was restarted since the page got
its id. `runs` is keyed by the number in the run's id. That run and upload numbers
are counts of a dictionary, and so repeat, is the point of the module.
The reports and comparisons are functions of file and
request, computed once. Sums, loops and sorted lists are written as functions
(`Totals`, `MaxDrawdown`, `EquityCurve`, `InOrder`), since the provers cannot look
into folds and sorting operators.

### `MC*` and `*_proofs`

`MC<module>` declares the model values and the small sets the configurations
name; `<module>_proofs` extends a module with its theorems, `StrategyFunnel_proofs`
with lemmas about candle series and the strategy that `LiveMarket_proofs` cites.

## Runs

| Run | Question | Bounds |
|---|---|---|
| `RadarPolls` | Do polls and automation alone keep every promise of the radar? | 2 swings a tick apart, 2 entry candles, 2 retryable and 1 other reason, staleness 2, key expiry 3, 6 ticks, history cap 1, IN PROGRESS cap 2 |
| `RadarOperator` | What survives stop, clear and restart? | 2 swings, 1 entry, 1 retryable reason, 4 ticks, the same caps |
| `OneThread` | Does one thread decide every setup once, within the limits? | 3 setups, 2 of them on one pair, 2 open trades, 2 orders a setup, answers lost for one, disarm and stop |
| `TwoThreads` | What is still right with an API thread? | 2 threads, 2 setups, 2 orders each, disarm |
| `Sessions` | Is an active session polled, and do old chains end? | 2 pairs, 3 sessions |
| `Market` | Is the buffer the market, and do the decisions drawn from it agree and last? | 3 profiles, 5 opening records, 45 minutes, buffer 41, fetch 2 |
| `Control` | Do vault, status, cycle and order sizes survive every order of requests? | 2 accounts, 3 requests, 2 vault keys, 7 tickets |
| `Backtests` | Whose content, name and symbol does a run report, and do its numbers agree? | 2 threads, 2 pages (the second within `TwoPagesAlike`), 4 contents, 2 names, 2 typed symbols, 2 profiles, 3 take profit models, 1 upload a server's life besides concurrent ones, 2 runs stored or in progress |
| `AccountMixup`, `RadarResubmits`, `AutoThreads`, `AutoCounter` | Findings, see below | the smallest instance with the trace |

The bounds are chosen for the case that bites.

- Radar: six ticks let both swings go stale and both keys expire. A history cap
  of 1 pushes the first row off the list while its id stays resolved.
  `TradableIsTransient` speaks only of rows whose timeout falls within the clock.
  IN PROGRESS does not exceed its cap in `RadarPolls`: at the cap the oldest row
  is evicted, by design, so the run shows that nothing *else* drops a row.
- Automation: two setups on one pair and a third on another make both limits
  matter; two orders a setup allow the repetition after a lost answer.
- Sessions: three sessions give a chain that is superseded twice.
- Market: the five records lead to the brink of an entry (down and up), of a
  missing main gap, of a missing retrace gap and of a missing internal one, and the
  moves that follow are few and end in each outcome. Deadlines are counted in
  units of 3 minutes and internal gaps are of 2: as in the profiles with internal
  gaps of 5, 4 and 2 minutes against the fixed 8 of the source, the two deadlines of
  the internal gap differ. Twelve minutes before the swings belong to an older market,
  so that its last internal gap can leave the buffer between those deadlines.
  Reached are entries, close-through, an expired
  retrace window, an unconfirmed expansion, a missing main gap, a missing internal
  gap and its withdrawal, wins, losses, a rejected risk, lapses with holes, refused
  scans and expansions remembered from a partial candle. Not reached is the verdict
  FVG_12M_NOT_FOUND of the tracer. The record ends at its bound, so this run
  allows deadlock.
- Control: a mistyped secret for one account only, an account of the
  environment, one margin too small for all tickets but one. Tickets are long
  and short, exact and rounded, capped by each of the three leverages, refused
  for their margin and refused as too small.
- Backtests: the files are one with trades in both directions and two losses,
  whose stops are reached in the opposite order of the entries; one without a
  header, in reverse, whose last candle reaches stop and target; an empty one,
  which is accepted and fails its runs; and one refused. Two bring a symbol in
  their rows, one takes it from its name or from the page, so that it is sent under
  both symbols and under none. Concurrent uploads exceed their bound by one, and
  a restart begins it anew: an id comes to be used twice in both ways, and either
  condition of `RunsOnItsUpload` is needed. The second page joins in only with one
  content under both names and a single run of one kind (the state constraint
  `TwoPagesAlike`). A time exit whose minute is missing and other
  policies for stop and target in one candle are not reached.

`MaxTime`, `MaxOrders`, `MaxSessions`, `MaxMinutes`, `MaxRequests`,
`MaxSecrets`, `MaxUploads`, `MaxRuns` and `TwoPagesAlike` are the only bounds that
cut behaviour off; `MaxTracked`, `MaxInProgress`, `HistoryLimit`, `FetchLimit` and
`MinCandles` are limits of the code with smaller values.

### What the runs show

The passing runs establish, on their instances:

- radar: no resolved id is tracked, one row per swing, the file holds the
  visible history where saves succeed, one order per swing, resolution is final
  but for the documented retry, a tradable row leaves only by an execution
  decision while its swing is fresh, and it does leave;
- automation, one thread: it implements `ExecutionDecision`, open positions stay
  within the limits, every setup is decided; with two threads: no stuck marker
  and no trade shown without an order;
- monitoring: an active session has a live chain, the saved preference is the
  last answered request, polling goes on, superseded chains end;
- market: polls inside a minute never leave a partial candle behind a newer one,
  a buffer that begins inside a block shifts none, a remembered expansion never
  changes a gap, tracer and funnel agree, final verdicts and reported trades
  stay (verdicts with two exceptions, below), and every retrace the backtest counts ends somewhere;
- control: a restart loads what the process works with, CONNECTED means tested
  credentials, no page moves a poll cycle to another account, and no order risks
  more than asked;
- backtests: a run is always of the content that was uploaded, and reports the
  name and symbol it was uploaded under unless a restart or a racing upload of the
  same content came in between, only racing runs overwrite each other, the account adds up, and time exit and older simulator tell the
  same story as the run.

`VerdictIsFinal` speaks of swings whose leg and the candle before it are still
in view: once the buffer has rolled past them a scan sees less of the swing. It has
two exceptions.

- FVG_12M_NOT_FOUND is left out: the tracer gives up on the retrace gap at a
  deadline, the funnel has none, so by the text of the code a later gap is a
  trade for a swing the tracer had given up. In live use a swing not yet in progress
  is refused by the freshness limit of an hour before that deadline, at the
  default timeframes. One in progress is traced on whatever its age
  (`live_setup_detection.py:287-290`, `Admitted` in `SetupRadar`) and gets the
  verdict; it is then too old to be retried, and its trade is skipped as stale.
- FVG_8M_NOT_FOUND may be withdrawn (`Reopened`). The deadline of the internal gap
  is taken from the timeframe of the first internal gap of the *scan*, or from
  the default of 8 minutes if the scan has none (`backtest_csv.py:3174-3182`). With
  internal gaps of 5, 4 or 2 minutes (`timeframe_profiles.py:30, 32, 33`), a swing is
  called dead at the earlier deadline while any internal gap is in the buffer; if
  the last one rolls out before the later deadline, the tracer waits again. The
  property allows that wait and no other verdict after it.

The violation runs are disagreements between the code and its own text:

- `AccountMixup`: "live trading only uses the selected connected account", but
  an order is sized by the balance of the account tested last.
- `RadarResubmits`: executed setups "will not be submitted again", but a
  restart within the staleness window forgets all that would prevent it.
- `AutoThreads`: the same sentence, with two runs at once. The second run takes
  the first one's marker for a stale one and clears it.
- `AutoCounter`: the counter of open positions was to be replaced by a query,
  but still blocks every order once it has reached the limit.

## Fairness

`SetupRadar!FairSpec`: the clock ticks, and a row that is due to expire or time
out is picked up, because each poll runs the automation and monitoring
reschedules itself (`Sessions` shows that it does). `LiveAutomation!FairSpec`:
a thread in a run goes on (every call to Bitget has a 20 s timeout) and polls
begin runs; setups grow old. The operator and the exchange are not fair.
`MonitoringSession!FairSpec`: timers fire, calls return, a request is answered.
The other modules state no liveness: a market need not move, a page need not ask.

## Proofs

Thirty-eight theorems are listed in `PROJECT.json`, each for every value of the
constants that satisfies the named assumptions of its module.

`SetupRadar_proofs`, for any finite set of swings and entries, any reasons, caps,
windows and clock, as long as a key outlives its swing's freshness (the source
sets 90 and 60 minutes). Two invariants carry it.

- `RadarInv` holds whatever polls, automation, stop, clear and restart do in
  whatever order, and though history saves fail: rows are what their ids say
  (`RowOK`), no tracked id is resolved, no swing is tracked twice, and a resolved
  tracer id has a key no older than its swing (`KeysCover`). Rows in the file are
  included, because a restart brings them back. It gives `RadarTypeCorrect`,
  `ResolvedLeaves` and `TrackedOnce`; with saves that succeed, `HistorySaved`.
- `SingleInv` adds that a swing has one row in all three lists, that a listed row
  is resolved, and that the key of its tracer stands behind every tradable row
  (`Single`), and that a swing an order went out for is `Closed` to the filter:
  stale, or resolved with no row left that the filter would retry. It is inductive
  without clear and restart, and gives `OneRow`, `OneOrder` and `ResolutionFinal`.
  Both operations delete the deduplication state by design, and `RadarResubmits`
  is the counterexample after a restart.

`TradableKept` and `NothingDropped` follow from `SingleInv` for a radar with room
for every swing in IN PROGRESS and no stop, since eviction at the cap and the
emptying of IN PROGRESS on a stop drop rows by design. The first also needs
that a row stays tradable as long as its swing is fresh, which the source asks for
where it sets both limits to 60 minutes (`live_setup_detection.py:54`). Every
function from radar to radar (`Resolve`, `Reopen`, `TakeOver`, ...) has a lemma
that it keeps `Sound` and `Single` and, by `Frame`, touches no other swing; the
actions are composed of these.

`LiveAutomation_proofs`, for any finite set of setups, any threads and limits:

- `TypeCorrect`. Its inductive part is that a thread holds a setup exactly
  between the signal stage and the end of its processing.
- `NoMarkerIsStuck`. `NoStuckMarker` is inductive given types: each branch that
  gives up a setup clears its marker, or leaves it for an executed one.
- `OpenedTradesAreReal`, from `AcceptedBeforeRecorded`: a thread past the
  exchange's acceptance has an order for the setup in hand.
- `OneThreadOneOrder`, for one thread, from `SoloInv`. That a pending setup is
  nowhere twice, in hand or to do, and that an accepted order is in flight,
  shown or lost, is what "at most once" alone does not carry from step to step.
- `OneThreadDecides`, the refinement: with `SoloInv`, every step of the one
  thread is a step of `ExecutionDecision` or changes none of its variables.
- `OneThreadWithinLimit`, for one thread, from `LimitInv`: from reading the
  positions to placing the order, what is open is a subset of what was read.

The first three need no assumption on threads; the others need one thread, and
`AutoThreads` is the counterexample when it is dropped.

`MonitoringSession_proofs`, for any pairs and number of sessions:
`TypeCorrect` (inductive because exactly the begun sessions have had a chain),
`ActiveSessionIsPolled` and `PreferenceIsSaved` (from `SavedInv`, which says
what a request in progress has already done).

`OrderSizing_proofs`: `AcceptedOrdersAreSound`, for every ticket: an accepted
order loses the fixed risk at its stop and no more, reaches the stop before its
maintenance margin, and is affordable with the margin it was checked against.

`LiveControl_proofs`, for any accounts, margins and tickets: `TypeCorrect`,
`VaultAgrees`, `ConnectedWasProven`, `OneAccountInCycle`, `OrdersAreSized`. The
inductive invariant adds to the properties the state of a waiting test (its
account's credentials are those tested, unless it was overtaken: `ProvenInv`),
that the signer of a cycle is one account while nothing interfered (`CycleInv`),
and that a plan in hand is one `OrderSizing` accepted (`PlannedInv`).

`LiveMarket_proofs`, over the lemmas of `StrategyFunnel_proofs`, for any market,
timeframes, limits and rhythm of polls:

- `BufferIsTrue`. `BufferTrue` is inductive given `ClockInv` (no minute comes
  before its time): what a fetch returns is an interval up to now, and what the
  trim to the newest candles keeps has everything after it.
- `TypeCorrect`, while the exchange sends candles `Candle.__post_init__` accepts:
  the trim keeps the limit (`NewestIsShort`) and the partial candle is well formed.
- `DerivedIsMarket`, from `BufferIsTrue`: a block of any series is aligned and
  complete (`BlocksComplete`), and in a record without a gap every aligned
  complete block is one (`BlocksOfRecord`).
- `TracerAndFunnelAgree`, which needs no invariant beyond the times of the
  buffer: with a complete window that is entered, the retrace is itself a tap, so
  both look at the same first tap (`TracerAgrees`).
- `EveryRetraceAccounted`: what a scan finds is finite (`SwingsFinite`), only an
  entry or a close-through names a retrace gap (`PassedIsDecided`), and
  simulated trades are as many as their swings.
- `ReportedTradesAreFinal`. The relation `Follows` between two views of a swing
  says that from its leg on the older has what the newer has, and that the newer
  has besides only what was confirmed later. It holds between a record and a longer
  one, and between a buffer and the record behind it (`PartFollows`). Along it the
  main gap, the first retrace gap, a complete window, the deciding tap and the
  first candle at stop or target stay what they are.
- `VerdictsAreFinal`, from `VerdictInv`: a verdict is the one the market's own
  record gives for the swing, up to the exception above (`VerdictStands`). The record
  carries it past the next minute (`TraceStays`), a scan of the buffer reads it off
  again (`FollowsBack`). It assumes what the five timeframe profiles and the strategy
  profiles share (`ShippedTimeframes`: no delay, retrace and internal timeframe at
  most the main one, that at most the swing's, the internal one at most the unit
  of the deadlines, a window of three candles at least). The internal gap has two
  deadlines then, and the argument is that of the earlier: past it no internal gap
  can still come (`InternalMissedStays`), so whichever one a scan goes by, it says
  the same or waits (`ClosedIsMissed` is the step from the scan's to the earlier).
  With a delay, `_main_fvg_lookup_still_open` would give up before the gap it waits
  for can be confirmed; with a shorter window the internal gap's would.
- `StaleIndexIsHarmless`, from `IndexInv`: of the third candles of this scan's
  expansions the engine remembers this scan's expansion only. It uses
  `ProfileAssumption`, that no profile both links its gaps and matches by the older
  rule; `research_profiles.py` has none that does. So do the two theorems before.

`build_timeframe_profile` is a recursive function over the minutes (`BlocksFrom`).
That it is well defined and what it returns follow from a least counterexample
in a set (`DownwardInduction`, from `MinOfNaturals`), which asks for no induction
theorem with an operator as its parameter.

`Backtests_proofs`, for any threads, pages, files and profiles: `TypeCorrect`,
`RunsAreOfTheirUpload`, `RunsCollideOnlyRacing`. The inductive invariant says
what each thread holds at each step (`TaskInv`), that an id carries its content's
hash wherever it is stored (`PageInv`, `StoreInv`), that a thread which may still
write under an id stands among the rivals of what is written there (`IdInv`), so
that a description without rivals stays until a restart (`Stands` in `TaskShown`
and `PageShown`), and that a numbered run and
the stored ones never share a number unless they were in progress together
(`NumberInv`).

The three properties of the stored reports rest on a second invariant,
`ResultInv`: a thread that has simulated, and every stored run, holds the report
of the file it read and of its request (`ToldFor`), closed by time if that was asked
for and only once. What such a report says is then proved of the operators:

- Loops. `Looping` says that a loop written as a recursive function has a value
  after each turn, and `UpwardInduction` reaches the last one through a set of
  turns, by a least counterexample. `RunningTotals`, `CurveByTurns` and
  `FallByTurns` are its instances, `TotalEnds` and `TotalsApart` the arithmetic.
- Order. `Listed`: a set under a total relation is listed without loss, each
  element in the place of its rank. `PartListed`: a part of it is listed as in the
  whole, which is what makes the comparison's rows the report's own bearish rows.
- Trades. `ListedTrade`: a trade of the funnel is decided by the first candle at
  stop or target, for any file; `RowsDecided` carries that to the rows and their
  order of entry.
- `ReportsAddUp`: `DrawdownIsDeepest` (balance, peak and worst of the loop are the
  end, the top and the deepest fall of the curve so far), `CurveEnds`, `BalancesUpTo`.
- `TimeExitsAgree`: `TimedRow`, the first candle that is due or stops the trade
  against the first that stops or wins it.
- `SimulatorsAgreeAlways`: `SimulatedSame` for one trade, `OlderAgrees` for the account.

They assume that files are rows of minutes with whole prices (`FilesAssumption`;
what a row may hold is otherwise open, malformed candles included), that a
profile's own take profit is the one its funnel aims at (`StrategiesAssumption`, as in
`research_profiles.py`), and `ExactSizes`: the risk is divisible by the stop
distances that occur. The code divides Decimals, the model whole numbers; without
it a loss would be less than the fixed risk by rounding of the model's own.

Only model-checked: all liveness (`EverySetupDecided`, `TradableIsTransient`,
`PollingGoesOn`, `SupersededChainsDie`), which the prover cannot do under fairness.
Every safety property that a run expects to hold is also a theorem.

## Not modelled

- The setup tracker (`setup_tracker/setup_tracker.py`) and paper execution
  (`execution/`): the demos and their tests construct them; `run` of the
  backtest passes the executor an empty list. No order goes through either.
- The stores and life-cycle updates of swings, expansions and gaps, `CandleStore`
  and the incremental aggregator: offline engines only.
- Profile freeze (a hash over constants), HTML and PNG reports, dashboard and
  pages other than the backtesting page: presentation. Report files are written
  and never read back; a later run of the same symbol and span overwrites one.
- In the radar and the session: failing history saves (`DiskOutcomes` allows
  them, the runs take saves to succeed), poll status records, the stale-skip list.
- In accounts and trading: the choice between database and file and their
  divergence, the mock adapter's accounts, `trading_enabled` and `is_default`,
  the `trading_mode` setting, signatures, cached tickers and contracts, the loss
  limits (whose counters nothing ever changes).
- In backtests: research overrides other than the take profit model, the control
  plane's list of runs, and the balances of a time exit report, which the code
  leaves as those of the run it was laid over.
