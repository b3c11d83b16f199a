# A verification development for quant-fund-system

TLA+ models of the fund's pipeline, checked with TLC on small instances, and
theorems about them proved with TLAPS for every size. Every definition follows
the code; `PROJECT.json` maps each one to its lines. Paths are given from the
repository root: `src/ingestion/...` is the package, `scripts/...` the jobs.

## The system

A fund run by one operator and a handful of scheduled jobs. All state is in one
PostgreSQL database; the jobs (GitHub Actions, no `concurrency:` group, so a
dispatched run may overlap a scheduled one) and the Flask GUI share nothing
else. psycopg2 opens a transaction per `with conn:` block, at READ COMMITTED.

| Component | State | Operations | What is hard | What makes it correct |
|---|---|---|---|---|
| Price ingestion: `src/ingestion/price_ingestion.py`, `budget.py`, `src/providers/provider_factory.py` | `ingestion_state`, `ingestion_daily_usage`; per process: budget read, candidates, failure streak, circuit breaker | seed, read budget, select, fetch with fallback, mark, charge | overlapping runs, stale candidates, death between commits, outages, midnight | no ticker is lost for good, none starves, the budget bounds spending, an outage is cheap |
| Fundamentals ingestion: `fundamentals_ingestion.py` | the same tables, `fundamentals` | seed, read budget, select, fail without a CIK, fetch and store, mark, charge | candidates that cost nothing, rows stored without valuation, 80-day staleness, death between commits | the budget bounds charged calls, no row is given up; if runs are dispatched, valuation comes back and none starves |
| SEC EDGAR provider: `sec_edgar_provider.py` | none (one company's facts) | choose tags, merge share sources, match dates, compute ratios, diagnose | sparse tags, facts with other end dates, ratios that fail for mixed reasons | no ratio fails in silence or for want of an exact date, and diagnoses are true |
| Universe: `src/universe/`, `run_universe_sync.py`, backfill and upload scripts | `universe`, `universe_changes` | sync (read, then write), liquidity filter (read, then write), manual addition, sector backfill, SPY row | failing feeds, writes between the two transactions, four writers with different rules for `source` | the change log replays to `is_active`; manual tickers stay until an index lists them |
| Factor scoring (Stage 2): `src/scoring/`, `run_factor_scoring_cron.py`, `backfill_factor_scores.py` | `factor_scores`, `job_runs` | open run, read universe, score and store, close; plan and resume the backfill | three scorers of one table (the weekday cron, the GUI, the backfill), interruption and resumption, a universe that changes, inactive tickers in the panels, reports not yet published | every date is scored once, among comparable peers, from what was known |
| Labels: `src/scoring/compute_labels.py` | `training_labels` | find pending, compute, rank, upsert in chunks | a history that grows, lost connections, partial cohorts | labels are true, stored once, and complete in the end where prices are near enough |
| Training: `train_ml_ranking_model.py`, `monthly_features.py` | `ml_models` | average, fit, store | numerical | — |
| Daily picks (Stages 3 to 5): three scripts, `src/job_run.py` | `ml_rankings`, `correlation_filtered_shortlist`, `daily_picks`, `job_runs` | open run, read latest run, delete and insert, close | overlapping workflows, failure after commit, midnight between stages | reruns replace; a stage finds its input; each run's picks come from one day's chain |
| Filter and sizing loops (Stages 4, 5) | none (locals) | accept, exclude, size | greedy order, missing history, NULL sectors, off-by-one | the book stays spread and diversified; nobody is excluded for nothing |
| Books: `record_trade.py`, `compute_portfolio_snapshot.py` | `trades`, `positions`, `realized_pnl`, `portfolio_snapshots` | buy, sell, reject, mark, snapshot | read-modify-write, average cost, NAV chain | positions and cash are what the ledger adds up to; NAV reconciles |
| Hedge (Stage 6): `src/hedge/`, `options_provider.py`, `vix_futures_provider.py`, `run_hedge_sizing_cron.py` | `vol_hedge_state` | choose a put, choose a contract, size, upsert | calendar edges, unusable quotes, sources that fail | the contract follows the calendar and only advances, the put is the nearest usable, the size fits |
| GUI: `src/gui/` | none of its own | dashboard reads; prioritise, force refresh, add ticker, run factor scoring, queue backtest | runs beside the jobs | its writes survive a running job |

## The modules

**`PriceIngestion`** — one action per transaction of `run()`: `Seed`,
`ReadBudget`, `Select`, then per candidate `CaughtUp` or `FetchSucceeds` /
`FetchFails` / `AllUnavailable`, `MarkSuccess` / `MarkFailure`, `ChargeSuccess` /
`ChargeFailure`; `Die` between any two. `Prioritize` and `ForceRefresh` are the
GUI's, `Churn` stands for the universe jobs, `NextDay` is midnight. Candidates
carry the `retry_count` and the caught-up test they were selected with, as the
tuples in the code do. Dates are ages (today, yesterday, older), which is all the
queries distinguish, so the calendar has no end. Order by `last_attempt_at` is
the relation `earlier`. The breaker's module-level state is per run.

**`Universe`** — `Fetch`, `Plan` (first transaction), `Sync` (second),
`Measure`, `DropIlliquid`, and the other writers `AddByHand`, `BackfillSector`,
`InsertSpy`; `Reconstitute` is the outside world changing an index. Of
`universe_changes` the last entry per ticker is kept: no replay sees more. Two
history variables say who brought a ticker: `byHand` the operator, `listed` a feed.

**`TradeLedger`** — `record_trade` in two steps (insert and read the position;
write and commit), the snapshot in three (read the long sleeve; mark and sum the
ledger; sums, previous NAV, upsert). Sums of the append-only tables stand for
the tables. Money is integral, and a buy happens only if the average cost is
whole: floating point and NUMERIC rounding are left out.

**`Selection`** — the loops of Stages 4 and 5, an action per way an iteration
can end, from every combination of ranking, holdings, sectors, history and
correlation pattern.

**`DailyPicks`** — the three stages as sequences of transactions over their
tables: `Open` (the JobRun row, and the date the script takes), `ReadLatestRun`
or `Starve`, `Delete`, `Insert` (the commit), `Close`; `Fail` and `Die` anywhere,
`NextDay`. `Scripts` are single stages run by hand, beside the workflows. A table
is, per date, the set of runs that have rows in it. `Selection` is what happens
between the read and the delete.

`DailyPicks` describes the workflow of `daily_picks_cron.yml` as it is meant to
run; as committed, the file's `schedule:` key is indented by one blank more than
its sibling, which YAML rejects, so at this commit the scripts run by hand.

**`TrainingLabels`** — `compute_labels` as `FindPending`, `Compute` and one
`Upsert` per chunk, between the JobRun's `Open` and `Close`. `Lose` is a lost
connection: the chunk is committed or not, and is tried again over a new
connection, which the JobRun's own is not, or given up; `Die` anywhere. `Ingest`
and `Score` are the jobs it reads from, at any moment between its two queries.
A label keeps, for the properties only, the set of tickers it was ranked with.
Two things are assumed of the prices: a provider asked again for a day (after a
killed fetch) answers the same, and no stored price is NULL.
After a reconnect the run ends with its row still 'running' and the script
fails although every label is stored: `Close` has it, no property asks for it.

**`LabelStore`** — what labelling promises, without jobs, chunks, connections or
ranks: a table to which a step adds labels of concluded windows, each once, and
never takes one away or changes it. `TrainingLabels` implements it
(`ImplementsStore`) under the mapping that keeps of each label its return.

**`FundamentalsIngestion`** — the second job on `ingestion_state`, with one
provider and no breaker. `Start` (seeding and the budget), `Select` (the page),
then per candidate `NoCik`, or `Fetch` / `Refuse`, `MarkSuccess` / `MarkFailure`
and `Charge`; `Finish`, and `Die` between any two. A fetch stores rows with
valuation ratios only if it could read the ticker's prices (`stored`: none,
partial, full). `CikArrives` is the universe sync, `PricesArrive` price ingestion,
`Prioritize` and `ForceRefresh` the GUI. As in `PriceIngestion`, dates are ages and the order by
`last_attempt_at` is a relation; here one process runs, for overlap (the daily and
the dispatched workflow, say) is covered there, with the same outcome: a budget
per overlapping run (`OverspendIsBounded`).

**`EdgarFilings`** — `fetch_fundamentals` from the facts EDGAR answered: `Refuse`
or `Begin`, a `Report` per report date, `Return`. The operators are the
provider's helpers, translated one by one (`Collect`, `Nearest`, `NearestShares`,
`Shares`, `MarketCap`, `Ebitda`, `RowOf`, the three `...Diagnosis`). A ratio is the
pair it divides, the EPS deviation the window it is taken over; the reason
counters are read off the rows.

**`FactorScores`** — three scorers over `factor_scores` and `job_runs`: the cron
script (every weekday at this commit: `factor_scoring_cron.yml`, though the
docstrings and DESIGN.md section 7 still say weekly), the GUI's "run factor
scoring" and the backfill, by `OpenCron`, `OpenGui` and `OpenBackfill`, then
`ReadUniverse`, `Score` (panels and rows) or `SkipEmpty`, `Close`; `Raise` and `Kill`;
`StartBackfill` plans the Mondays not yet done. `Ingest`, `Deactivate` and `NextDate`
go on beside. Dates are integers in a unit the instance chooses (a week, in the
runs). A z-score is the group of tickers it is taken over, and a report carries
its publication date beside the period the code knows. `EnoughOn` gives, per ticker,
the dates as of which the 400 days of prices read reach `MOMENTUM_MIN_ROWS`.

**`HedgeSizing`** — per run `NoPut`, `NoFuture` or `Size`, for every answer of the
sources; the calendar of expirations, the roll and the choice of the put are
operators over a real calendar (weekdays and month lengths). Premiums are doubled
so that the mid of bid and ask is whole. A chain's entries without a strike or an
implied volatility are skipped by the code before anything looks at them, so the
model's chains have none.

The modules meet in their tables: `FundamentalsIngestion` takes CIKs from
`Universe`'s sync and prices from `PriceIngestion` as environment actions with no
more assumed than those modules show, `EdgarFilings` is the data step of its
`Fetch`, `FactorScores` reads what it stores, `TrainingLabels` and `DailyPicks` read
the scores, `Selection` is the data step of the picks.

The `MC*` modules add symmetry sets and instance data; each `.cfg` is one instance.

## What the runs show

| Run | Instance | Shows |
|---|---|---|
| `price_overlap` | 2 overlapping runs, 1 ticker the GUI acts on, one midnight per run | `TypeOK`: every row has what the clause for its status reads, although stale retry counts are written back; `NeverStranded`: every row becomes a candidate again within the cooldown; `OverspendIsBounded`: at most one budget charged per overlapping run |
| `price_progress` | 1 run, days without end, fair scheduling | `OutageIsContained`: at most `CircuitThreshold` failures in a row; `EveryTickerServed`: no starvation |
| `fundamentals` | 1 run at a time, days without end, 2 tickers, one whose CIK and prices come late, fair scheduling | `SpendsWithinBudget` (the calls charged and those under way), `EveryRowComesBack`; `ValuationReturns` and `EveryTickerAttempted`, if runs are dispatched again and again |
| `edgar` | every filing of two report dates with up to two concepts missing, sparse, zero (or one zero of two equally near), dated otherwise or tagged otherwise; four price indexes | `NoSilentField`, `SharesFromAnySource`, `RatiosNeedNoExactDates`, `DiagnosesAreTrue` |
| `universe` | 1 sync, 2 feeds, 2 tickers | `LogReplays` and `ManualStaysUntilListed`, with every other writer between the sync's two transactions |
| `scores` | 3 tickers of 2 sectors, 2 Mondays, 1 run of the cron or the GUI, 3 of the backfill, 1 fault, backfill restarted at will (`WF`) | `OneCompletePerDate`, `PeersAreComparable`, `FailureStaysVisible`; `EveryMondayScored` in the end |
| `scores_lookahead` | same, on the second Monday, the backfill alone | **violated** `PointInTime`: the backfill scores the first Monday with a report published on the second |
| `labels` | 1 job, 2 tickers, 1 score date on a holiday, one market day before it within the buffer and one not, chunks of 1, 1 retry, fair scheduling | `LabelsAreTrue` to a history that grows, with gaps; `OutperformersDidBetter`; `CompleteMeansStored`; `EveryPairLabelled` in the end, for a price within the buffer; `ImplementsStore` |
| `selection` | all inputs over 3 names, a sector and NULL | caps hold, names with history are spread, exclusions are founded, picks are the best sizeable and a full list of them before one is left out |
| `picks` | a Friday's workflow after its Stage 4 and a script run by hand, any stage, any number of times; Friday and Saturday; 3 more stage runs, 1 fault | `RerunsReplace`, `OnlyMidnightStarves`, `PicksAreOfOneDay` |
| `trade_ledger` | 1 script at a time, 3 trades, 3 dates, a key in each sleeve | `PositionsMatchLedger`, `BooksBalance`, `NavReconciles`, `DailyPnlAddsUp` |
| `hedge` | the 50 days around the expiries of November and December 2026, ten answers of the market | `RollFollowsTheCalendar`, `ContractOnlyAdvances`, `PutIsNearestUsable`, `SizedToTheTarget` |

Every property of a passing run has a mutant, a plausible bug beside the
definition it replaces (a dropped guard, a wrong clause of a WHERE, a delete in
its own transaction), that violates it in that run.

**Bounds.** Two processes are enough for the races: each property relates a
read of one process to writes of another. Two tickers exhibit order and
starvation, three names the greedy filter: two accepted and one held, or a cap
filled by one of each. `picks` starts when a workflow has stored its ranking and
its shortlist (`BeforeStage5`, a state of `DailyPicks` in which no other run has
been), for three more runs are then enough for two Stage 5 runs to overlap, or one
to replace the other's picks, the Saturday's the Friday's, with a stage rerun in
between; the theorems about `DailyPicks` start from its `Init` and cover every
number. For labels, a ticker may have traded on either, both or none of the market
days 0 and 1 before the score date 2; with a buffer of one the read misses day 0;
two tickers tie or differ, and with chunks of one every commit can be the last;
the theorems cover every size. Two tickers, a
budget of two and a cooldown and staleness of a day let a ticker without a CIK,
a failing one and a refreshed one compete for every slot. A filing's helpers look
at one or two concepts at a time, so two irregular ones show every interaction.
Two Mondays and one fault let a backfill lose either date before or after its
rows were stored, beside one run of the cron or the GUI. (In this instance the
second regular run, which would replace a failed one, never begins: two are out
of TLC's time; `FailureStaysVisibleTheorem` covers any number.) The sync drops one
ticker or all. The hedge's days hold a month end, a year end and two rolls.
Bounds are CONSTANTS (`MidnightsPerRun`, `MaxTrades`,
`FirstDate`, `LastDate`, `FirstDay`, `LastDay`, `MaxRuns`, `MaxRegular`,
`MaxBackfills`, `MaxFaults`, `MaxLost`) and stand in the guards. Where a run says
`CHECK_DEADLOCK FALSE` it is because these bounds end the behaviour, or because
the jobs may simply be done.

**Fairness.** `price_progress`, `fundamentals`, `labels` and `scores` need it. For
the first, the schedule keeps starting runs
(`WF` of `Seed`) and days pass; the steps of a run have `SF`, for a run may be
killed at any point but not at the same point of every run for ever. Nothing is
assumed of the operator, the universe jobs or the providers, which may fail for
ever. The labelling job is started by hand: `compute_labels.py` promises that
running it again fills in what is missing, so it is run again and again (`WF` of
`Open`), and no step of it is cut off in every run (`SF`). At most `MaxLost`
runs in a row of the fundamentals job are lost, so `WF` of its steps suffices for
a run that was started. That one is started no schedule guarantees: the daily
`ingestion_cron.yml` passes no `SEC_EDGAR_USER_AGENT`, so its run ends at
`SECEdgarProvider()`, and `fundamentals_ingestion_cron.yml`, which passes one, has
`workflow_dispatch` alone. So this is no part of the fairness but a hypothesis of
the two liveness properties (`Dispatched`: somebody dispatches it again and again),
and `ValuationReturns` has a second one per ticker (`Answers(t)`: neither EDGAR nor
the price query fails that company for ever); `EveryTickerAttempted` has not. The backfill is made to be run again after an interruption:
`WF` of its steps, a restart among them.

## What is proved

`PriceIngestion_proofs`: type correctness, of which the part that counts is
`RowsRecover`; `NeverStrandedTheorem`, from it (a row is pending with retries left, or complete with a
fetch date, or failed with an attempt date: what the three clauses of the
candidate query need), which holds although runs write stale retry counts;
`OutageIsContainedTheorem`, from the invariant `BreakersKeepUp` (each failure in
a row has been counted against every provider that is not broken, so a streak
of `CircuitThreshold` leaves none); `OverspendIsBoundedTheorem`, from `BudgetInv`:
a run between its budget read and its end holds a claim, its limit or what is
left of its page. The claims are the pairs <<run, i>> with i at most the run's
claim, a finite set whose cardinality falls by one with each charge; what was
spent and the claims together fit one budget per run, for any number of runs.

`UniverseHedge_proofs`, about two components that share no variable (the second
one's operators have names of their own: `HedgeInit`, `HedgeNext`, `HedgeSpec`).
Of `Universe`: type correctness; `ManualStaysUntilListedTheorem`, for any number of
syncs (a ticker no feed has brought carries source 'manual', in every state, and
no sync has planned it); `LogReplaysTheorem` for one sync process (`OneSync`). The invariant relates what the sync has read to what may have
changed since: what it has planned to keep or remove is still active and auto
when it writes (`PlanHolds`), and only tickers with a row are ever logged
(`OnlyRowsLogged`). Of `HedgeSizing`, for every calendar and every answer of the
sources: `RollFollowsTheCalendarTheorem`, `PutIsNearestUsableTheorem`,
`SizedToTheTargetTheorem` and the action property `ContractOnlyAdvancesTheorem`, all
from `HedgeInv` (the row is what a run of its date would choose, and that date is
not ahead of today). They rest on lemmas about the calendar: third Fridays fall
in their week (`ThirdFridayIs`), an expiration is a Wednesday of the month of its
label (`ExpirationIs`) and at least 28 days after the one before
(`ExpirationsAdvance`), so the scan finds the front contract and the one after it
(`ScanFinds`), and four weeks hold at least twenty business days
(`BusinessDaysBounds`), so the second is always beyond the roll window and the
contract is the first that is (`FirstBeyondWindow`). As business days only shrink
while today advances (`BusinessDaysShrink`), the choice never goes back
(`SizingAdvances`).

`TradeLedger_proofs`, for any number of scripts at once: type correctness and
`DailyPnlAddsUpTheorem` (by `SnapshotAddsUp`, a step that writes one date). For one
script at a time (`OneProcess`): `PositionsMatchLedgerTheorem`,
`BooksBalanceTheorem` and the action property `NavReconcilesTheorem`, from
`BooksInv`: what a script has read still holds when it writes (`ReadsAreFresh`),
every position is worth its shares at its last price (`ValuesAreMarked`), and the
two properties themselves. The sums over positions and over snapshots are
recursive functions on sets of any size; what the proof needs of them (they do
not depend on the order, `SumRemove`, split, `SumUnion`, and change by what one
term changes, `SumChange`) comes from `LeastSubset`, a minimal counterexample
among the subsets of a finite set, in place of an induction. Two scripts at once
lose a trade from `positions`, for nothing locks the row between the read and the
write: with two members in `Processes` TLC violates all three, and of the four
only `DailyPnlAddsUp` stays.

`DailyPicks_proofs`: type correctness, and the three safety properties, each from
an invariant of its own. `RerunsReplaceTheorem`, from `OverlapInv`: runs in
progress overlap, and rows a DELETE did not see are of runs in progress since.
`OnlyMidnightStarvesTheorem`, from `HandoverInv`: what a stage has committed is
replaced, never taken away (`RowsStay`), so the next stage finds rows under the
same score date. `PicksAreOfOneDayTheorem`, from `ChainInv`: every input that was
read is of the stage before and of the same date. It speaks of each run's picks: a
trading day has those of two runs if they overlapped, each from its own chain.

`Selection_proofs`: type correctness; `SectorsAreCappedTheorem`, from
`CountsSuffice` (`sector_counts` is no less than the names it stands for);
`AcceptedAreSpreadTheorem`, inductive once correlation is known to be symmetric
(names without enough history are excepted, as the code excepts them);
`PicksAreTheBestTheorem`, from `DecidedOnce` (a ticker is decided once) and
`SizingInv` (the sizing loop has looked at a prefix of the accepted names);
`ExclusionsAreJustifiedTheorem`, from `FilterInv`: the names still to decide are
the end of the ranking, so what was accepted before a name outranks it
(`RankOrder`), and `sector_counts` is no more than the names it stands for
(`CountsOnly`, the other half of `CountsSuffice`).

`TrainingLabels_proofs`: type correctness; `LabelsAreTrueTheorem`: labels are
true in the table and in the hands of every job (`TrueInv`), because a window that
has concluded does not move when later rows come (`ReturnStays`) and the rows read
suffice to find it (`WindowSuffices`). `CompleteMeansStoredTheorem`, from
`StoredInv`, which other jobs preserve because the rows determine the return
(`ReturnIsUnique`). `OutperformersDidBetterTheorem`, from `RankedInv` (a label is
the outcome of a ranking of true returns) and `RankIsMonotone`, about the mean
ranks that ties share.

`ImplementsStoreTheorem` is the refinement: initially the table is empty
(`StoreInit`), and a step that stores a chunk adds what `LabelStore` allows
(`UpsertRecords`), because a batch holds true returns of concluded windows and
never one that differs from what is stored; every other step leaves the mapped
table alone, or extends its history of trades (`StoreStep`).

`FundamentalsIngestion_proofs`: type correctness;
`SpendsWithinBudgetTheorem`, from `Budgeted` (what was spent and what the run may
still spend, its limit or its queue, fit the budget together, so a charge moves a
call from one term to the other; calls that a killed run made and did not charge
are outside it, as they are outside `ingestion_daily_usage`); `EveryRowComesBackTheorem`, from `Recoverable`
(the analogue of `RowsRecover`).

`EdgarScores_proofs`, about two more that share no variable (`ScoringInit`,
`ScoringNext`, `ScoringSpec` are those of `FactorScores`). Of `EdgarFilings` the
invariant is one of the rows, each by itself: `NoSilentFieldTheorem` from `Reasoned`
(a row's reasons say which ratio came out, and `no_market_cap` is said only
without one), `SharesFromAnySourceTheorem` from `Counted` (by `NearestSharesFinds`:
the search misses no date near), `RatiosNeedNoExactDatesTheorem` from `Derived` (by
`NearestFinds`), `DiagnosesAreTrueTheorem` from `Diagnosed` (each reason with what
it claims of the facts). The attempt to prove the last one corrected it: the
property had read `no_shares_this_period` as "every nearest share count is missing
or zero", but of two counts equally near, from two sources, the provider takes
one; a zero among them is enough, and the run has a filing that shows it. For the
same reason `shares_dates_never_match` is right only up to a count of 0: its message
is wrong of such a date (`ShareDatesDiagnosisIsTrue`, below).

Of `FactorScores`: `OneCompletePerDateTheorem`, `PeersAreComparableTheorem` and the
action property `FailureStaysVisibleTheorem`, for any tickers, dates and bounds,
from `ScoringInv`: a scorer under way is at a run of its own that is 'running'
(`CurrentInv`); what the backfill is at or has still to do it has not done
(`PlanInv`), so no date is done twice (`DoneInv`); and every stored row was taken
over peers of its own run (`Comparable`).

The theorems hold for all values of the constants under the assumptions each
module names (`...Assumption`), which TLC evaluates on every run. They say that
bounds and thresholds are natural numbers, that processes, keys and tickers that
are counted or summed are finite (`RunsAssumption`, `SleevesAssumption`,
`TickersAssumption`), that NULL is no value (`NullAssumption`, `NoneAssumption`); and
for the hedge that months have 28 to 31 days and the calendar goes three months
beyond the last run (`CalendarAssumption`), and that the roll window is shorter
than the weeks between two contracts (`RollAssumption`; the code's is 5).

**Model-checked only.** Liveness (`EveryTickerServed`, `EveryTickerAttempted`,
`ValuationReturns`, `EveryPairLabelled`, `EveryMondayScored`): the prover has no
temporal logic with fairness. Every safety invariant and action property that a
passing run checks is stated by a theorem, four of them for one process at a
time, for TLC violates each of the four when there are two. They bound calls that
are charged: what a run killed between a fetch and `record_usage` has asked of a
provider appears in no table, and in no property.

## Disagreements between the code and its documents

Shown by a run: `PointInTime` (`scores_lookahead`), and `EveryTickerServed`, which
holds although DESIGN.md says that a ticker with three failures is set aside.

These definitions state what a comment or message promises and are no part of a
run; TLC refutes each when it is added to the configuration named:

| Property | Configuration | What the code does |
|---|---|---|
| `RefreshRefetches` (`gui/routes.py:178`) | `price_progress`, with `Spec` | a refresh forced on the day of a fetch is completed by the next run without one |
| `ManualNeverDeactivated` (`construct_universe.py:162`) | `universe` | a manual ticker that an index lists becomes 'auto' and goes with the index |
| `FeedFailureIsHarmless` (`index_sources.py:79`) | `universe`, `OneFeed = FALSE` | a feed that fails deactivates the tickers only it lists |
| `LogIsComplete` (`DESIGN.md:257`: membership is "reconstructed ... via `universe_changes`") | `universe` | the sector backfill inserts active rows without an entry |
| `EveryConcludedPairLabelled` (`compute_labels.py:20-21`: "naturally fills them in") | `labels` | a pair whose last price is more than 30 days older than the earliest pending score date is never computable |
| `HistoryIsKept` (`DESIGN.md:124`: "History is never overwritten - each run produces a new tagged row set") | `picks` | a rerun of Stage 3, 4 or 5 deletes the rows of the run before it |
| `ShareDatesDiagnosisIsTrue` (`sec_edgar_provider.py:605-610`: "no per-period date match ever succeeded") | `edgar` | a count of 0 on the very date matched, and the message blames the dates |
| `LabelsAreOfTheirDate` (`compute_labels.py:12`) | `labels`, with `Spec` | what a killed or partial run leaves over is ranked among itself |
| `OneRunPerDate` (`run_ml_ranking_cron.py:108`) | `picks` | of two overlapping runs neither DELETE sees the other's rows |

Met while reading, and not stated as a property:

- `DESIGN.md:134` says ingestion "runs daily". `ingestion_cron.yml:36-40` passes no
  `SEC_EDGAR_USER_AGENT`, so the fundamentals half of the scheduled job fails at
  `SECEdgarProvider()` (`Start(FALSE)`), and `fundamentals_ingestion_cron.yml:10-15` is
  dispatched by hand only: at this commit no scheduled run attempts a ticker's
  fundamentals.
- `gui/queries.py:98-104` says of `daily_picks` that rerunning Stage 5 "accumulates a
  NEW set of rows rather than replacing the old ones"; Stage 5 deletes them
  (`run_risk_sizing_cron.py:179`), which `RerunsReplace` relies on. The GUI's read of
  the latest run alone is right either way.
- The correlation filter is to keep out what is too close to a held name; a held
  name with under 30 days of prices is compared with nothing, itself included, and
  may be picked again (`run_correlation_filter_cron.py:198-205`). `AcceptedAreSpread`
  has the exception.
- Scoring is called weekly in `DESIGN.md` section 7, `run_factor_scoring_cron.py` and
  `gui/queries.py:70`; `factor_scoring_cron.yml` runs it every weekday.
- An empty universe completes the scoring run, and its summary lacks a key the
  backfill prints: the date counts as failed after its row says 'complete'
  (`SkipEmpty`).
- A backfill run killed after its commit leaves its rows, and the restart adds
  those of another run for the same date, although the docstring excludes it;
  monthly averages count the date twice.
- The 30-day bandwidth cap never binds: nothing records a bandwidth.
- A company with EPS facts alone returns no row and counts as complete.
- `vix_futures_calendar.py:34-38` says that 30 days before the third Friday need
  not be a Wednesday and walks back to one; a Friday less 30 days always is
  (`NoWalkBack`), so the walk takes no step.
- A settlement file's latest trading day counts, of whatever age, although
  `vix_futures_provider.py:57-58` says "never silently returns a stale/zero price".

## What is not modelled, and the plan

Not modelled: HTTP clients and retries inside them, page templates, the FMP
provider (superseded, constructed nowhere), `scripts/compute_labels.py` (an older
copy nothing imports), the values of scores and the statistical model
(`train_ml_ranking_model.py`, `monthly_features.py`): sums, averages and fits of real
numbers, with no control beyond a loop. `Universe` leaves out how a feed's tables
are parsed. The fault model is what the code handles: killed processes, failing
providers, lost connections, midnight; PostgreSQL itself is taken to keep its
promises at READ COMMITTED.

Planned:

1. An abstract retrying job that `PriceIngestion` and `FundamentalsIngestion` both
   implement, and an abstract `Pipeline` that `DailyPicks` implements.
2. The monthly averages over daily and backfilled scores.
