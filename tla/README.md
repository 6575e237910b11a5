# Equity Tracker: models and proofs

A verification project for Equity Tracker (`equity_tracker/`): TLA+ models of its
stateful core, TLC runs over small instances, and TLAPS proofs that hold for every
instance. Paths below are relative to `equity_tracker/src/` unless they say otherwise.

| Module | Models | State of the work |
|---|---|---|
| `ShareMatching` | the two share-identification algorithms, in closed form | agrees with the loops (checked, proved) |
| `LotLedger` | lots, disposals, transfers and their histories | checked, by the runs of `CgtReport`; every property proved |
| `ShareHolding` | what the ledger promises about a holding as a whole | implemented by `LotLedger` (checked, proved) |
| `PooledCost` | the allocators' loops and the pennies of the cost, on the ledger's lots | checked, by `LedgerMixed`; proved |
| `CgtReport` | the capital gains report, which matches the disposals again, over the whole ledger | checked, proved |
| `CashLedger` | the cash file: entries, ISA transfers, torn writes | checked, by the runs of `DividendFlow`; proved |
| `DividendFlow` | a dividend across its entry, its lot and the cash file | checked, proved |
| `SellPlan` | sell plans, their approval and their export | checked, by `SideBySide`; proved |
| `AlertLifecycle` | answers to alerts and what they hide | checked, by `SideBySide`; proved |
| `TaxYear` | liabilities and marginal rates over one income | checked, by `SideBySide`; proved |
| `PlanShares` | holding periods and what leaving the plan is taxed on | checked, by `SideBySide`; proved |
| `ModelRegistry` | models and strategies of the beta: trained, put in service, suspended | checked, by `SideBySide`; proved |
| `HypothesisRegistry` | hypothesis definitions: found, tested, judged, retired | checked, by `SideBySide`; proved |
| `IntradayTrades` | simulated trades within a session: bars, observations, entries, rebuilds | checked, by `SideBySide`; proved |
| `SideBySide` | the seven from `SellPlan` on, which share no state | implements each of them (proved) |
| `PriceStream` | the task that keeps the price provider's WebSocket | checked, proved |
| `PaperTrading`, `MCPaperTrading` | paper positions, cash and the pause, under concurrent cycles | checked, safety proved |
| `ProcessLock` | the PID-file lock, one file operation per step | checked, safety proved |
| `Supervisor` | web process, supervisors, job rows, status row | checked, safety proved |
| `LotLedgerProofs`, `CgtReportProofs` (with identification and its cost), `DividendFlowProofs`, `PriceStreamProofs`, `PaperTradingProofs`, `SupervisorProofs` (with the lock), `SideBySideProofs` (the seven), `SumProofs` (lemmas) | | the proofs (section 4) |

To check a run: `tlc -config <Run>.cfg <Module>.tla`; to check proofs: `tlapm <Module>Proofs.tla`.

## 1. The system

Equity Tracker is a local web application (FastAPI, one process) over an encrypted
SQLite database, the *portfolio database*. It records lots of employee shares under
several schemes, what is sold, moved and forfeited, dividends and cash, and reports tax.
Beside it a *beta* research runtime keeps a second SQLite database and a detached
*supervisor* process that runs jobs (prices, features, training, scoring, paper trades).

### Components, their state and how they interact

| Component | State | Operations that change it | Talks to |
|---|---|---|---|
| Lot ledger (`services/portfolio_service.py`, `db/repository/*`) | tables `lots`, `transactions`, `lot_disposals`, `lot_transfer_events`, `employment_tax_events` | add, add pair, edit, transfer, dispose | share identification; read by dividends and reports |
| Share identification (`core/lot_engine`) | none | – | called by the ledger |
| Dividends (`services/dividend_service.py`, `api/routers/dividends.py`) | table of entries; lots made by reinvestment | confirm, delete, backfill | reads the ledger's tables, writes ledger and cash |
| Cash ledger (`services/cash_ledger_service.py`) | one JSON file | record, transfer, delete | dividends, disposals |
| Capital gains report (`services/report_service.py`) | none | – | reads lots and disposals |
| Sell plans (`services/sell_plan_service.py`) | one JSON file | create, tranche status, approve, cancel | – |
| Alerts (`services/alert_lifecycle_service.py`) | table of state events | dismiss, snooze, clear | alert conditions |
| Tax calculations (`core/tax_engine`) | none | – | called by reports, plans and pages |
| Price stream (`services/twelve_data_stream_service.py`) | a websocket task, active and rejected symbols | connect, rebalance, ingest, back off | price table, background tasks of `api/app.py` |
| Core sessions (`db/engine.py`, `app_context.py`) | one shared connection | open, commit, roll back, dispose | every handler and background task |
| Process lock (`process_lock.py`) | a PID file | acquire, release, look | web launcher (`../run_api.py`), supervisor |
| Beta runtime (`beta/runtime_manager.py`, `beta/supervisor_process.py`, `beta/state.py`, `beta/services/runtime_service.py`) | processes, `beta_job_runs`, `beta_system_status`, the web process's handle and memory | initialize, adopt, reload, stop; boot, cycle, job, finish | the lock, signals, the beta database |
| Web process (`api/app.py`, `api/routers/admin.py`, `api/routers/paper_trading_beta.py`) | locked or not, beta database open or not | start, unlock, lock, page load, shutdown | beta runtime |
| Paper trading (`beta/services/scoring_service.py` and others) | demo positions, risk state, simulated trades | score, open, close, pause, clean up | supervisor jobs |
| Models (`beta/services/training_service.py`, `strategy_service.py`) | model and strategy versions | train, activate, suspend | supervisor jobs, scoring cycles |
| Hypotheses (`beta/services/hypothesis_*`) | definitions, test runs, beliefs | seed, discover, test, judge | supervisor jobs, execution outcomes |

`PROJECT.json` lists these and the parts without state of interest (tax arithmetic,
analytics, pages, migrations, scripts) with what is modelled of each, and the hazards at
the lines where they bite.

### What is hard here

* **Long histories over few rows.** A lot row is changed by five operations in any order
  and on any (back-dated) day, and holds only two numbers. Whether those numbers still
  account for every share, and whether the dividend page can rebuild the past from them,
  depends on sequences no unit test lists.
* **Two algorithms that must agree at a boundary.** The lock of an ESPP+ matched lot and its
  forfeiture are decided by different code over the same date.
* **File-system interleavings.** The lock is a sequence of separate file operations.
* **Processes that outlive each other.** The supervisor is detached: the web process may
  restart and find one, its own child may be slow, a stop may be unanswered, and a kill
  leaves a lock file and a RUNNING row.
* **Shared rows.** Web process and supervisor write the same status row.
* **Several stores per operation.** Dividends write the database twice and a JSON file, which is
  rewritten in place.
* **Transactions that read before they lock.** A paper-trading cycle reads its risk state and
  its positions of the day in one SQLite transaction that has no lock yet; another may commit.
* **Answers under way.** The price provider accepts and rejects symbols while the task that asked
  for them goes on.
* **One rule, two implementations.** Bands as liabilities and as marginal rates, holding periods
  as days and as calendar years, share matching in the ledger and in the report, the activation
  gate of a model and the governance that may suspend it.

### What makes each component correct

* Ledger: shares are neither lost nor invented; moves are whole shares, oldest first, into
  one brokerage lot per source in its own currency; a sale forfeits exactly the matched lots
  whose window is open; histories are complete; the past can be rebuilt.
* Identification: loops and definition agree; the cost is exact up to rounding.
* Lock: one holder, whose file nobody else touches; a stale file keeps nobody out.
* Runtime: at most one supervisor; its jobs are recorded once and owned by it; told to stop
  it ends; the status row recovers; a reload brings a supervisor back.
* Report: it matches the rows of the lot table as they now are, not the shares that were sold. What
  holds is that it counts the cost of each row it reads once, that it finds every share of every
  disposal as long as no lot is re-dated past one of its sales, and that it then holds too many shares
  by those that were moved or forfeited and no others. What does not hold is that it finds every *share* once
  and relieves what was *paid*: section 3 says where each fails.
* Dividends and cash: a reinvestment lot has its dividend, a dividend is paid out once, no
  container owes money.
* Plans, alerts: what a plan stages stays within its terms; an alert is hidden by an answer to
  it and nothing else.
* Tax: a marginal rate is what the liability charges; day counts err on the side of tax.
* Stream: a security is streamed or polled; the provider's limit holds at every moment.
* Paper trading: one open position per symbol, cash covered and booked, positions end.
* Simulated trades: one live trade for each instrument and session.
* Models, hypotheses: one model in service, with its own strategy; what the gate lets in governance
  keeps; a hypothesis that its tests refuted stays so.

## 2. The models

### Ledger: `ShareMatching`, `LotLedger`, `ShareHolding`

One security, a finite set of row ids `LotIds`. `lots` is the table; `sold[l][d]` joins
`lot_disposals` with the date of their transaction; `transferEvents` and `taxEvents` are the
two event tables; `today` is `date.today()`. `gone` is a history variable: for each lot the
shares sold, moved and forfeited, counted where the code lets them leave. No guard reads it.

| Action | Code |
|---|---|
| `AddLot` | `PortfolioService.add_lot` |
| `AddEsppPlusPair` | `add_espp_plus_lot_pair`: employee and matched lot in one session |
| `EditLot` | `edit_lot`: corrected quantity, what already left is preserved |
| `EsppTransfer` | `transfer_lot_to_brokerage`, ESPP branch: oldest first over all ESPP lots, one brokerage lot per source found by `external_id`, merged or created, events recorded |
| `FullTransfer` | the same method, RSU and ESPP+ branch: scheme changes in place, open matched lots are forfeited, tax event |
| `CommitDisposal` | `commit_disposal`: filter, identify, forfeit, record, with the repository's refusal of a negative remainder |
| `NextDay` | the clock |

*Atomicity.* Each call is one `write_session` inside an `async` handler that does not await
in between, so handlers do not interleave inside a call, and an exception rolls it back: a
refused call is a stutter. (Background threads share the connection; see section 5.) *Data.* Prices, tax and notes steer none of these operations.
Quantities count units, `Unit` of them being a share, so that fractions exist. Lot ids are
ordered like the UUID texts that break ties. `external_id` is modelled by what it is made of:
`origin` for a brokerage lot, the fields of `SameTransferKey` for an event.

`ShareMatching` states both identifications in closed form: a lot gives its k-th share
exactly when the shares identified before it leave room for k. This keeps recursion out of
the other modules simple; `PooledCost` runs the code's loops (as folds) and shows that they
agree, lot by lot.

`ShareHolding` is the abstract specification: four numbers. Bookings, sales with their
forfeitures, and forfeitures change them; a transfer changes nothing ("non-disposal").
`LotLedger` implements it with the mapping in `Holding`.

### `PooledCost`, `CgtReport`

`PooledCost` extends `LotLedger` with the price of each row, in pence. `AllocateUk` and `AllocateFifo`
are the loops of the two allocators, each a `Loop` (a fold over a set that takes the `Newest` lot last)
whose step is `Give`: what one lot gives, and its line with the cost rounded half up to a penny.
`Offered` is what `commit_disposal` may hand them: the active lots of a scheme, or of all, that are
sellable on the day.

`CgtReport` runs the ledger's own operations, all of them, and adds what the report reads:

| Action | Code |
|---|---|
| `PricedAdd`, `PricedPair` | `AddLot`, `AddEsppPlusPair`, with the price entered; matched shares cost nothing |
| `PricedEdit` | `EditLot`: quantity, `acquisition_date` and price change together, whatever was sold of the lot |
| `PricedMove` | `EsppTransfer`: a new BROKERAGE row has its source's price, one that is merged into keeps its own |
| `FullTransfer`, `NextDay` | as in the ledger |
| `Disposal` | `CommitDisposal`, and the disposal with the shares of each lot is appended to `sales`, in the order of `created_at` |

The report is a function of these tables, evaluated in every state. `bought` is what it reads of the
lots: `Lot.quantity` and `acquisition_date` as they are now, of the rows that are not in an ISA, matched
rows and moved shares included; `disposals` what it reads of the sales, less the shares of ISA lots.
`HmrcMatches` is `_hmrc_gain_map_for_security`, a fold over the days with disposals: earlier lots
join the pool (`AddToPool`), each disposal takes same-day lots, lots of the next `MatchDays` days
(30 in the code), then the pool at its average (`Match`), and the day's own lots join last. What
nothing covers stays unmatched and costs nothing, as in the code. The
code keeps averages in `Decimal`; here costs count parts of a penny, `Fraction` of them to a penny, and
an average that is no whole number of parts is rounded down: 216,000 in the runs, any number in the proofs.

### Dividends and cash: `CashLedger`, `DividendFlow`

`CashLedger`: the file is a bag of entries, or `Torn`. `Post` is `record_entry`, `IsaTransfer`
`create_isa_transfer` with its two to five legs, each checked after the ones before (`Covered`).
`_save_payload` opens the file for writing, so a process that dies in it leaves text that
`_load_payload` reads as no entries: `TearFile`.

`DividendFlow` extends it with the entries, the reinvestment lots and the one request at work
(the handlers have no `await` between their steps, so no two interleave):

| Action | Code |
|---|---|
| `Submit` | `add_dividend_entry` (and the confirmation of a reference dividend), one transaction |
| `PostCash` | the payout, or its refusal |
| `AddLot`, `NoteLot` | the two transactions of `create_stock_reinvestment_lot` |
| `RefuseLot`, `DeleteRow`, `Unpost` | the undo of a refused lot: `delete_dividend_entry`, row first, then its cash entries without a check |
| `RefuseAmount` | the JSON route, which refuses an amount after it has made the entry, and leaves it |
| `StartBackfill`, `BackfillOne` | `dividends_backfill_cash_submit`, one file write per entry |
| `Cash` | `api/routers/cash.py` |
| `Abort`, `DieWriting` | an exception nobody handles, a process that ends between steps or in a write |

### Side by side: `SellPlan`, `AlertLifecycle`, `TaxYear`, `PlanShares`, `ModelRegistry`, `HypothesisRegistry`, `IntradayTrades`

Seven components that share no state. `SideBySide` composes them: `subject` says which one a
behaviour follows, the others rest in one initial state, so that the run checks the sum of seven
state spaces and not their product.

* `SellPlan`: the plans of the JSON file, what was made (`made`, a history variable) and what a
  broker has been handed (`staged`, keyed by the `ExternalId` column, by which a broker tells an
  order it has). `SetTrancheStatus` accepts any status at any time and recomputes the plan's, as
  `update_tranche_status` does; `Export` needs an approval.
* `AlertLifecycle`: `events` in the order of `changed_at`; `Suppressed` looks at the latest of an
  alert, its state, its hash and its end. An `Answer` may carry the hash of a condition that no
  longer holds (an old page), or none.
* `TaxYear`: `Bands` of 2019-20 to 2026-27; an income starts at a salary and grows by `Payment`; `IncomeTax`,
  `Insurance`, `Loan`, `GainsTax` are the liability functions, the `...Rate` operators the marginal
  ones. Pounds times per cent are pence, so everything is exact.
* `PlanShares`: a lot from its award on, at moving prices; `SipBases` is
  `sip_rules._compute_income_tax_amount`, `PlusBases` `estimate_employment_tax_for_lot`;
  `Anniversaries` are the three ways leap days fall in three and five years.
* `ModelRegistry`: `Train` is `train_daily_challenger` from its first write on: governance of the
  model in service, the activation gate, the new model row and `sync_model_strategy`. A scoring
  cycle is `FindModel` and `Judge`, as `run_daily_shadow_cycle` may look for the model before it
  has the write lock; `Suspended` writes only the columns that differ from what was loaded.
  Evidence stands for what the gate and governance compare, on either side of their thresholds.
* `HypothesisRegistry`: the jobs `Seed`, `Discover`, `Backtest`, `Believe` and what is earned
  (`Realize`). Governance's grade of a test is one of eight `Grades`; `Assessed` is
  `_assess_definition` with its overrides in order; averages over all tests and the confidence made
  of them are chosen freely. `extended` says whether the tables' CHECK knows the later statuses.
* `IntradayTrades`: what the supervisor does every minute, `Fetch` (`fetch_live_bars`,
  `fetch_eod_bars`), `Capture` (`capture_current_observations`) and `Refresh`
  (`refresh_live_trades`: open trades are replayed, then the newest observation of each instrument
  in the focus list may open one, `Admitted` counting up to the cap), and at night, `Backfill`
  (`backfill_recent_history`) and `Rebuild` (`rebuild_recent_history`). `bars` and `seen` keep the
  newest bar and observation of each session; where the price goes, and which observation
  qualifies, is left open; `ChangePolicy` is what the learning services and the settings page do
  to the cap.

### `PriceStream`

`run_forever` by its phases: `Start` (candidates; without any it clears its sets and sleeps),
`Connect`, then a loop of `Rebalance` and `Subscribe` (the two requests of a rebalance, after
which all wanted symbols count as active) and `Receive` (`_handle_status_event`). `Reconnect` is
the handler of any exception inside the `try`. `requests` and `answers` are the two directions of
the connection, `Provide` the provider, which accepts or rejects each symbol. `CoolDown` ends a
rejection's cooldown of a day, not before another rebalance. `LockOrUnlock` is
`AppContext.lock`/`initialize`. Weights are market values, so which eligible symbols come first is
left open.

### `PaperTrading`

`run_daily_shadow_cycle` as a SQLite transaction, for two runners: the supervisor's cycle and the
one a page starts. `db` is what is committed, `work` what the holder of the write lock has made of
it, `cycle[r]` what runner `r` has read. `Begin` reads the risk row and recent trades without a
lock; `Lock` is the first write; `Score` is the body of the loop for one instrument (mark, exit,
risk-off exit or entry); `Commit` evaluates the risk once more and commits; `Fail` rolls back.
`Written` is how the session updates a row: only columns it changed. `NewBar`, `RefreshMark` are
the jobs that feed it; `Bell` opens and closes the session. `Available`, `Sized`, `Multiplier` are
`allocation_service.py`; `ShouldPause`, `ShouldResume`, `Evaluated` are `risk_control_service.py`.
The prices, features and beliefs of an instrument are left open, as far as they decide: where a
position stands (`Gains`, `Losses`) and whether the score is tradable or bearish. A closing is
dated by the observation of its mark, so `closings` is in an order that only agrees per instrument
(`ClosingOrders`).

### `ProcessLock`

Each file operation of `acquire_process_lock` and `ProcessLock.release` is a step: `Look`
(exists), `Read`, `Check` (pid alive), `Unlink`, `Create` (O_EXCL), `Write`; `Release`
(exists), `Reread`, `Remove`. `Kill` may come before any of them. `path` is whose file the
path names; `written[p]` whether the payload is in it. A process creates at most one file.
`OneAtATime` says that a start begins only when none is under way.
External facts: a created file is empty until closed; `os.kill(pid, 0)` answers truly; pids
are not reused.

### `Supervisor`

Extends `ProcessLock`: its steps are the lock's steps plus the life of the processes.

| Actions | Code |
|---|---|
| `Boot`, `BootFails`, `Loop`, `StartJob`, `FinishJob`, `EndCycle`, `CycleFails`, `Finish` | `supervisor_process.main`, `_run_supervisor_cycle`, `_run_job`, `_record_cycle_exception` |
| `Claim`, `Crash`, `SigTerm` | lock steps, kill, the signal handler |
| `FindOther`, `Adopt`, `Popen`, `PopenFails`, `AfterSleep`, `InitializeFails` | `initialize_beta_runtime`, `_start_supervisor` |
| `StopOwn`, `WaitOwn`, `Sweep` | `_stop_supervisor_process`, `shutdown_beta_runtime` |
| `Reload`, `Lock`, `Unlock`, `PageLoad`, `WebUp`, `WebDown` | `reload_beta_runtime`, `api/routers/admin.py`, `_ensure_beta_ready`, process life |
| `Settled` | `BetaRuntimeService.finalize_running_jobs` |

A transaction on the beta database is a step. Left open, as a choice: which jobs a cycle
finds due, and when a user asks for anything. Assumed: settings enable the runtime (otherwise
it never starts); children are reaped at once; SIGTERM is a request, as on POSIX (on Windows
`terminate` ends the process, which the model has as `Crash`); the web application does not go
down and come up again within the fraction of a second a supervisor takes to claim its lock
(guard of `WebDown`). `errors` counts failing calls, bounded by `MaxErrors`; `MaxJobs` bounds
the job rows; `CanLaunch` keeps a start from running out of pids.

## 3. The runs

| Run | Instance | States | Shows |
|---|---|---|---|
| `LedgerMixed` | 3 ids, ESPP and ESPP+, 2 days, window 1, `Unit` 2, quantity 3, moves of 2 units or all, 2 sales, matching 1 day ahead | 108,132 | `LotAccounting`, `TransferredEmployeeForfeits`, `TransferOldestFirst`, `SaleForfeitsWholeMatch`, and `HoldingSpec`: the ledger implements `ShareHolding`; `LoopsAgree`, `DisposalCostExact`, `ReportCostConserved` |
| `LedgerDates` | 2 ids, ESPP and ISA, 3 days, quantities and moves {1, 2}, 4 sales, matching 1 day ahead | 195,123 | `TypeOK`, `SaleIdentification`, `SaleCountsFromItsDate`, `EarlierEntitlementKept`, `EveryShareMatched` |
| `DividendFlow` | 2 containers, 2 currencies, 2 dividends, 1 ISA transfer, 6 entries | 537,113 | `BalancesNonNegative`, `LotHasDividend`, `PaidOnce` |
| `PriceStream` | 2 securities, a currency pair, 2 streams, 2 messages each way | 1,297,314 | `StreamedOrPolled`, `WithinLimit` |
| `PaperTrading` | 2 instruments, 2 runners, 3 positions, pause on the last 2 trades | 779,068 | `OneOpenPerSymbol`, `CashCovers`, `PauseWithoutTradesIsFinal` |
| `PaperHorizon` | 1 instrument, 2 runners, 2 positions, horizons {1, 2} of 2 bars | 25,056 | `HorizonExits` |
| `SideBySide` | 2 plans of up to 3 shares; 2 alerts, 2 conditions, 3 answers; 6 tax years to £160,000; 3 kinds of shares; 3 models, 2 cycles; a seeded and a generated hypothesis, 3 grades; 2 instruments, 1 session of 2 minutes in 3 days, 2 trades | 749,034 | `StagedWithinPlan`, `HiddenByAnswerOnly`, `NextPoundTaxed`, `DayCountsConservative`, `ServiceAgrees`, `GatedStays`, `RetiredStays`, `OneTradePerSession` |
| `ProcessLock` | 4 processes, one start at a time | 52,045 | `OneHolder`, `HolderOwnsFile`, `StartAnswered` |
| `Supervisor` | 2 supervisors, 2 job rows, 1 failure | 98,009 | `TypeOK`, `RunningJobHasOwner`, `JobsSettleOnce`, `StopEnds`, `StatusRecovers`, `ReloadOfOwnRestarts`, and `LockSpec`: the runtime uses the lock as `ProcessLock` does |
| `ProcessLockRace` | 2 processes, starts overlap | | violates `OneHolder` |
| `DividendBackfill` | as `DividendFlow` | | violates `StockNotCash` |
| `RedatedLot` | 3 ids, ESPP, 2 days, 1 sale | | violates `SoldAfterBought` |

*Why the bounds are enough for the question asked.* Ledger: three ids give an ESPP lot, a second
one and a brokerage lot, or a linked pair and one more; `Unit` 2 with quantity 3 is a share and a
half, so a move leaves half a share behind, and a request for one share has two lots to choose from;
window 1 over two days has both sides of the boundary; three days separate acquisition, ex-date
and sale. Both runs of the ledger are runs of `CgtReport`, whose steps are the
ledger's (`ReportRunsLedger`); `MaxSales` is 4 in `LedgerDates`, which is as many as its shares allow, and 2 in
`LedgerMixed`, where a third could only sell the last of three lots. Report: three days with a matching window
of one day have a same-day lot, a repurchase inside and one outside the window, and sales are entered
against the order of their dates, between moves and corrections that re-date a lot; a move of one share out of two
leaves a lot that is sold from and moved again. A matched lot beside its employee lot, at prices 0 and 1, makes
averages that do not divide. Cash: six
entries hold a funded account, a five-legged transfer or two payouts and what is spent of them.
Stream: three symbols for two places force a rebalance to give one up; two messages each way let a
rejection arrive a rebalance late. Paper trading: three positions let a pause begin, a position
opened before it end, and entries resume or not; a second request of 700 out of
1000 is cut to what is left, and a third refused.
`PaperTrading` takes its instruments as symmetric, `PaperHorizon` has one and no symmetry, since it
checks liveness. Side by side: salaries of 0, 50,000 and 100,000 pounds raised by payments of 10
pounds step over every threshold of the six years chosen;
2021-22 and 2025-26 differ from these only in amounts; the days are those on which either engine changes its mind, and their
neighbours; three models are one that is judged, its successor and the successor of that, on evidence
on both sides of every threshold the two tests share; the grades are one that is promoted, one that
is watched and one that retires; a session of two minutes and one after its close has an entry, an
exit and a late bar, and the two days after it are those on which its trade counts and no longer counts. Lock and runtime: four processes give a holder, one leaving, a killed one with its file
and a new start; two supervisors give a killed or stopping one and its successor. Each property
has a mutant of the model in `PROJECT.json` that breaks it within these bounds. The proofs remove
the bounds for the properties they cover.

`CHECK_DEADLOCK FALSE` is set where a run may rightly end: all ids or pids used up, every share
sold, the income, the answers or the models at their bound. The models have no other dead ends to look for:
refused calls are stutters.

*Fairness.* `ProcessLock`: each process takes its own next step (`Acquire`, `GiveBack`), since the
code between two file operations neither waits nor blocks; leaving is not fair. `Supervisor`:
each supervisor goes on with its program (a job ends, a cycle ends), and the web process finishes
a request it began, as there is no unbounded wait in either. `PaperTrading` (`FairSpec`): a cycle
that runs goes on (`Work`: weak, nobody else holds the lock then), and daily bars keep coming
(`NewBar`: strong, as their job waits for the write lock and is run again when it had to give up).
`HorizonExits` states the rest as its hypothesis: the instrument is scored again and again on marks
of the session, and failures stop. Nothing is assumed of users, failures or kills.

### What some properties say, and what they leave out

* `PauseWithoutTradesIsFinal` is a fact to know about the code, not a promise: only closed trades
  lift a pause (`beta/services/risk_control_service.py:80`), so once the last open position has
  closed without a recovery, new entries stay paused until someone edits the row.
* `NextPoundTaxed` holds where both functions look at one band, and not in two places: for the
  years up to 2022-23 between the end of the taper and £150,000 `marginal_income_tax_rate` says
  45% where `income_tax_liability` charges 40%; and with a pension sacrifice above the start of the
  additional rate the two use different incomes. On a threshold itself income tax and loans take
  one side, insurance the other.
* `StagedWithinPlan` is about one plan. Two plans for the same shares may together stage more than
  is held: nothing compares them.
* `HiddenByAnswerOnly` leaves out an answer without a `condition_hash`, which hides the alert
  whatever its condition turns into, until it ends.
* `GatedStays` is about models the gate put in service; one that an earlier release or a hand did may
  be suspended. `ServiceAgrees` is about what is committed: a cycle reads model and strategy in two
  queries, and may score with a model and the strategy of its successor.
* `OneTradePerSession` says for how long. From the second day after a session (on a Sunday, for
  Friday's) `refresh_live_trades` no longer sees that it has had its trade, though the newest
  observation is still of that session: each minute may open one more
  (`beta/services/intraday_simulated_trade_service.py:212`), until a rebuild deletes them all.
* `RetiredStays` is about generated definitions. A seeded one that was retired becomes a candidate
  again with the next seeding, every hour (`beta/services/hypothesis_definition_service.py:314`),
  and keeps its tests, so that belief retires it again. REJECTED definitions are tested again, and a
  retired one may be rejected for losses, or be stored as REJECTED in tables of the older schema:
  from there it may come back.
* `BalancesNonNegative` survives the torn file because an empty file owes nothing; the entries are
  lost all the same.

* `EveryShareMatched` is about histories in which no lot is dated after a sale of it
  (`SoldAfterBought`). `commit_disposal` sees to that, `edit_lot` does not, so it is a condition on what
  users correct, and `RedatedLot` shows that it may fail. Every other correction, before or after a sale, is
  covered. Its second half says by how many shares the report's holding is off: those that were moved or
  forfeited. No lot is forfeited in `LedgerDates`; for forfeitures it is proved (`NoShareUnmatched`).
* `ReportCostConserved` is about rows: the cost of each row the report read is relieved, in the pool or
  still to be pooled, once. It is not about what was paid: a moved share is in two rows, each at its price, a
  merged row has the price of the first move into it, and a lot whose price was corrected has the new one also
  for old sales.

### Where code and its own words differ

Three runs end in a counterexample; `PROJECT.json` has them as findings.

* `ProcessLockRace`: without `OneAtATime`, two processes hold the lock together; a file just
  created and not yet written is taken for a stale one (`process_lock.py:80`).
* `DividendBackfill`: the backfill (`api/routers/dividends.py:774`) pays out in cash every entry
  without a payout, the reinvested ones too, though
  `tests/test_services/test_dividend_service.py:215` wants a reinvestment "without cash double
  count".
* `RedatedLot`: a lot is sold from and then corrected to a later date. `edit_lot`
  (`services/portfolio_service.py:2037`) does not look at the sales of the lot, though
  `db/models.py:7` calls lots "immutable acquisition records". The report reads the date as it now is: the lot
  covers its own sale only if it falls into the thirty days after it; otherwise the sale is
  matched with other lots, and what those do not cover is reported as free of cost.

Known from earlier counterexamples of these models, and the reason for the conditions in the
properties above:

* An ESPP move keeps the quantity of its source (`services/portfolio_service.py:2349` lowers
  only what remains) and adds a BROKERAGE row (`:2240`) or enlarges it (`:2212`). The report
  (`services/report_service.py:161`) reads the quantity of both, so moved shares are matched or pooled
  twice, and the cost of a later sale depends on which shares were moved, though
  `services/portfolio_service.py:2077` calls a move a "non-disposal reclassification for account/custody
  tracking". Forfeited shares stay in the pool as well, at the price of their row (nothing, unless it was
  corrected), and lower its average. `EveryShareMatched` counts both.
* Two equal ESPP moves on one day share one `external_id`; the second moves the shares and records
  no event (`services/portfolio_service.py:2147`), though `db/models.py:469` calls the table an
  append-only history that "preserves historical quantity and timing".
* For an RSU or ESPP+ lot transferred in place, `services/dividend_service.py:511` adds the event
  back on top of shares that never left. `EarlierEntitlementKept` is about the other moves.
* A sale entered after its shares were moved, but dated before the move, makes the brokerage lot
  negative on the ex-dates between, where it is skipped (`services/dividend_service.py:525`), so
  that shares sold before an ex-date stay entitled; `:1838` tells the user "Eligibility uses
  holdings on the ex-dividend date". `SaleCountsFromItsDate` shows that it is right when no move
  lies after the ex-date.
* The pool average is recomputed from the lots FIFO has left, so selling every share does not
  relieve what was paid; the docstring of `core/lot_engine/uk_matching.py` says "Section 104 pooled
  holding". The report keeps a pool of its own and does relieve the rows it reads (`ReportCostConserved`).
* A reload by a web process that adopted its supervisor asks it to stop, does not wait, adopts it
  again by its lock, and is left with none when it ends (`beta/runtime_manager.py:254`, `:379`).
* A paper trade may be opened and closed after hours: the session test looks at the time the mark
  was observed, not at the time of the cycle (`beta/services/scoring_service.py:668`), where
  `docs/paper_trading_beta/PAPER_TRADING_BETA_STRATEGY.md:980` (beside `equity_tracker/`) says
  "regular-hours only" and `tests/test_api/test_paper_trading_beta_ui.py:703` "does not open demo
  trade when market closed at score time".

Seen while modelling, outside what the properties say: the stream's task ends for good when the
database is locked as it builds its first candidates (`services/twelve_data_stream_service.py:490`,
outside the `try`; `Start` has it), and the line that resets its backoff (`:557`) comes after an
endless loop; `balance_after_gbp` of a paper cash entry counts its amount twice
(`beta/services/allocation_service.py:115`-150; only a display); a retired instrument keeps its
open paper position, as it is not scored again; a model that was replaced keeps the status "ACTIVE"
(`beta/services/training_service.py:1550`); PROMISING overrides the DEGRADED of bad live results
(`beta/services/hypothesis_belief_service.py:260`-274); the rebuild of simulated trades at night also
deletes the live ones, open or closed, and a refresh of the same night may open one anew
(`beta/services/intraday_simulated_trade_service.py:367`); a live trade never ends with its session, as
only a rebuild replays without `as_of` (`:1253`), so one whose bars stop stays open.

## 4. The proofs

Checked by TLAPS (Z3, Zenon, LS4); no step is taken on trust. They cover every safety property,
every action property and both refinements of the runs. A theorem holds for every value of the
constants that meets the assumptions named in the modules (`LotIdsAssumption`,
`PooledAssumption`, `CashAssumption`, ...), which the runs evaluate: sets of ids are finite where the
code reads them from a table, amounts and quantities are positive, bounds are numbers. One is
narrower than its type: `TaxAssumption` wants even incomes and the years 2019 to 2035, since the
taper takes one pound of allowance for every two pounds and the model counts whole pounds.

**`SumProofs`** has what several proofs need: induction over the naturals and over finite sets, in
a form without operator parameters (`NatsAll`, `SubsetsAll`), and how a sum over a set changes with the
set and with the function (`SumAddsUp`, `SumEqual`, `SumOfChange`, `SumSwap` and others).

**`LotLedgerProofs`**. `LotAccounting` alone is not inductive: a transfer creates lots under unused
ids, and an unused id must be known never to have lost a share. The invariant of
`LedgerTypeOK` and `LedgerAccounting` is `LedgerInv == TypeOK /\ LotAccounting /\ FreeUntouched`; lemmas
bound what the identifications take from a lot, and there is one lemma per action.
`LedgerImplementsHolding` rests on it: each action's changes, lot by lot, are summed to a step of
`ShareHolding` (or to a stutter, for a move, where what the sources lose is what brokerage lots gain).
`EmployeeTransferForfeits` needs `PlanInv`, which adds how lots are paired (`PlanPairs`: a matched lot
was added with its employee lot, which stays in the table, and no ESPP move touches a matched one).
`SaleAndForfeitureAgree`, `MovesOldestFirst` and `SalesAreIdentified` are about one step in any state of
`LedgerInv`. The two about ex-dates, `SalesCountFromTheirDate` and `EarlierEntitlementStays`, need
`HistoryInv`: the history of a lot begins with the lot, so that one made by a later move has none.

**`CgtReportProofs`**. A loop over a finite set is first shown to be computed by a function on its subsets
(`LoopExists`, `LoopUnique`), so that what it does is proved by adding one element at a time.
`ClosedFormsHold`: after a pass over the lots of a set, what is still wanted and what each lot gave is
the closed form's (`HasPassed`), as the newest lot changes nothing for those before it. The same
predicate bounds the rounding by half a penny a line; where everything is disposed of the lines of the
pool add up to its cost exactly but for that, hence `PenniesAddUp`. Both need no more of the state
than its types.

`ReportRunsLedger`: the histories of `CgtReport` are histories of the ledger, so the theorems on the ledger
hold here. The two theorems on the report start from `GainsInv` (`GainsAlways`): the ledger's invariant
`LedgerInv`, the types of prices and sales, and that the disposals written account, lot by lot, for every
share the ledger counts as sold (`SoldIsWritten`). `NoShareUnmatched` is about two algorithms that match the
same sales by different rules. `GainsEnough` is what the ledger gives the report, and where the condition
`SoldAfterBought` is needed: by any day, the disposals dated up to then want no more (`Wanted`) than the rows now dated
up to then have (`Enough`), since what was sold of a row is at most its quantity, however it was
corrected. A moved or forfeited share only adds to what a row has. The report starts with that
much, and `Progress` keeps it: what it holds by its own day or any later one (`Stock`) is enough for the
disposals still to come. A match takes from each such stock at most what it removes from each such want,
repurchases included; pooling moves shares inside a stock. `CostConserved` follows from the same
induction, over the disposals of a day and then over days (`MatchStep`, `DayStep`), with `Total` kept by each step,
and needs neither `Enough` nor the condition: lots that are matched are never lots already pooled.
That the report then holds what the rows hold, and over that the moved and forfeited shares, takes two
steps more: what all disposals got (`Complete`) are the shares sold of the taxable rows (`WantedIsSold`, two
sums over rows and disposals exchanged by `SumSwap`), and by `LotAccounting` the quantity of a row is what
remains of it, was sold, moved and forfeited.

**`DividendFlowProofs`**. `DividendBehindLot`, `PaidOutOnce` and `NobodyOwes`. The invariant
`DividendInv` has, beside the properties, what a request relies on when it goes on after each of its
writes (`Working`): a payout to come is of a dividend without one, the undo of a refused lot finds
no lot, a backfill's list holds only dividends not paid out. Each write either keeps the bag of
entries or tears the file, which owes nothing.

**`PriceStreamProofs`**. `LeftOutIsStreamed` and `NeverOverTheLimit`, for any number of symbols and
messages under way. What the task believes and what the provider streams differ by the messages on their
way, so the invariant `StreamInv` is about them: `EachOnItsWay` says of each symbol of the task that it is
streamed, asked for again after its last unsubscription, or rejected; `PathWithinLimit` that there
is a bound for each state the provider passes through as it takes the requests in order.

**`PaperTradingProofs`**. `OneOpenPosition`, `CashIsCovered` and `PauseIsFinal`. The invariant
`PaperInv` is about both what is committed and what the holder of the write lock has made of it
(`BookOK`), and how the two may differ (`LocksOK`, `Ahead`): closed positions are as they were, new ones
are of instruments already scored. That a cycle's risk row may be stale when it gets the lock does
not matter to the first two; the third needs that a book without open positions closes no trade.

**`SupervisorProofs`**. For the lock: `LockTypes` without assumption; `LockSingleInstance`
(`OneHolder`) and `LockFileKept` (`HolderOwnsFile`) when starts do not overlap. `OneHolder` follows from
`HolderOwnsFile`, as the path names one file. That is kept because a start knows, from its check on,
that no other process holds the lock or can come to hold it: `StartKnowsHolder`. The invariant is
`LockInv == LockTypeOK /\ HolderOwnsFile /\ StartKnowsHolder`. The assumption cannot be dropped
(`ProcessLockRace`); for the web process it is an assumption on whoever launches it, for
supervisors it is the next theorem.

For the runtime, `RuntimeUsesLock`: every behaviour of `Supervisor` is one of
`ProcessLock` with `OneAtATime`: no path through start, adoption, reload, failure or a
restarted web process launches a supervisor while another is claiming the lock. Hence
`RuntimeSingleInstance`. `RuntimeTypes` includes two facts about the code: `_start_supervisor`
is always entered without a handle, so its first test (`beta/runtime_manager.py:251`) never
decides; and a supervisor in a job has its row. `RuntimeJobOwner`: a RUNNING row belongs to the
supervisor at work. The invariant is `SupInv == TypeOK /\ LockInv /\ LockedIsIdle /\
LauncherKnowsStart /\ LockBeforeBoot /\ RunningJobHasOwner`: the launcher knows the process
that is starting (`LauncherKnowsStart`), which needs the handle never to be dropped while its
process claims (`LockedIsIdle`); job ownership needs that a process settles the rows only once it
holds the lock (`LockBeforeBoot`, `LockInv`). `RuntimeJobsSettleOnce` adds `JobInProgress`: the newest
row of a supervisor that is in a job is RUNNING, as nobody else settles rows while it has the lock.

**`SideBySideProofs`**. `SideBySideImplements`: the composition is each of its components. Then
`HiddenByAnAnswer` (an action property without further invariant: the latest answer is what decides),
`DayCountsAreSafe` (three and five years in days against the calendar, for all days and prices),
`MarginalRatesCharged` (the bands of every year, case by case, for all incomes), `OrdersWithinPlan` (whose
invariant `PlanInv` says that every staged order is one of its plan's, whatever became of the plan, and
whose arithmetic is that the split of a total adds up to it) and `OneTradeASession`. `OneModelServes` and
`GateImpliesTrust` follow from `ModelInv`: every model that passed the gate is trustworthy on the
evidence it has, which does not change, and governance suspends only what is not; the thresholds of the
gate and of governance are compared for all evidence. `RetiredForGood` follows from `RetiredRefuted`: a
retired definition has three tests, the newest broken; the tests keep it retired.

**Only model-checked.** All liveness (`StartAnswered`, `StopEnds`, `StatusRecovers`,
`ReloadOfOwnRestarts`, `HorizonExits`): fairness and ENABLED are out of the prover's reach. The three
counterexamples of section 3 are what TLC shows.

## 5. Not modelled, and the plan

`PROJECT.json` gives the reason for each component; in short:

* `db/engine.py`, `app_context.py`: one `StaticPool` connection serves the event loop and pool
  threads, so a commit of one session may end the transaction of the other. What then happens is
  decided inside SQLAlchemy and the `sqlite3` driver, which are not in the repository; a model
  would be of them. The models take a session as one transaction and say so.
* Features, labels, news and filings, quotes and FX: each row is
  recomputed from statistics or provider data of the moment. They have no protocol of their own;
  with the statistics left open nothing would be left to check. The older family rows of the
  hypotheses are of this kind: two jobs give the same row different verdicts, and only pages show it.
* Pages (`api/routers/ui.py`), schema (`models.py`), overview, analytics, export, migrations and
  the operator scripts (`watch_signals.py`): rendering, read-only sums, declarations. They are most
  of the lines of the repository, and the reason the models stand for a small part of them.
* `PageLoad` of `Supervisor` is one step. In the code a page's handler runs in the thread pool
  (`_load_beta_context_async`), and what it does to the beta database may overlap a reload in the event
  loop; what the model says of page loads is about loads before or after a reload, not inside one.
* `IntradayTrades` has no status CANCELLED, which a replay gives when the plan no longer stands or the
  entry has no usable price, and no trades or observations without minute rows, which a refresh passes over.
  A cancelled trade still takes its session.
* `CgtReport` has one security, and its report is a function of the tables at the moment it is
  asked for: two reports of the same year may differ, since corrections change the rows of old
  sales. Proceeds and fees are left out, so it says what a disposal cost and not what it gained.
* Of the modelled components: the position registry of paper trading, the
  learning of patterns and policies for simulated trades,
  dividend tax and true cost, proceeds and fees of the report, reference dividends.

Next, proofs, the most useful first:

1. The safety half of the liveness properties, as invariants of their own: that a process waiting for
   a lock, a request in a reload, or an open position past its horizon has a step of the code to take.
2. `TypeOK` of the components whose proofs state it only as part of their invariant.
