---------------------------- MODULE FactorScores ----------------------------
(***************************************************************************)
(* Stage 2: src/scoring/run_factor_scoring.py with what it fetches and     *)
(* computes from (data_fetch.py, momentum_lowvol.py, quality_value.py,     *)
(* zscore.py), run by the cron script of every weekday evening, by the     *)
(* GUI's "run factor scoring", and once per past Monday by the resumable   *)
(* scripts/backfill_factor_scores.py, while ingestion and the universe     *)
(* sync go on.                                                             *)
(*                                                                         *)
(* Dates are integers, in a unit of the instance's choice. A z-score is    *)
(* abstracted to the group of tickers it is taken over, NULL to the empty  *)
(* group; two factors stand for the four: momentum (from prices, like low  *)
(* volatility) and quality (averaged over the sub-metrics of a report,     *)
(* like value). A step that reads the panels also stores the rows; killing *)
(* a process leaves its job run 'running'.                                 *)
(***************************************************************************)
EXTENDS Integers, Sequences, FiniteSets, FiniteSetsExt

CONSTANTS
  Tickers,
  Sector,       (* [Tickers -> sectors], "Unknown" for a NULL sector.       *)
  EnoughOn,     (* [Tickers -> sets of dates]: those as of which the prices *)
                (* of the last PRICE_LOOKBACK_DAYS reach MOMENTUM_MIN_ROWS. *)
  Reports,      (* Fundamentals rows, those of before FirstDate there:      *)
                (* [ticker, period, published, subs (its sub-metrics)].     *)
  Mondays,      (* The backfill's weekly_mondays(start, end).               *)
  Drops,        (* Sets of tickers that one universe sync may drop.         *)
  FirstDate,    (* Where today begins; it runs on to LastDate.              *)
  LastDate, MaxRegular, MaxBackfills, MaxFaults   (* Bounds.                *)

SubMetrics == {"roe", "debt_equity_inv"}
ASSUME ReportsAssumption ==
  \A r \in Reports : r.ticker \in Tickers /\ r.period <= r.published /\ r.subs \subseteq SubMetrics
ASSUME DatesAssumption ==
  LastDate \in Nat /\ FirstDate \in 0 .. LastDate /\ Mondays \subseteq 0 .. LastDate
ASSUME DropsAssumption == Drops \subseteq SUBSET Tickers

Scorers == {"cron", "gui", "backfill"}

VARIABLES
  today,
  active,        (* universe: the active tickers.                           *)
  fundamentals,  (* The reports ingested.                                   *)
  runs,          (* job_runs of the stage, with the rows each has stored    *)
                 (* in factor_scores (<<>> before it has).                  *)
  step,          (* Per scorer: "idle", "opened", "read", "stored".         *)
  at,            (* Per scorer: its current run.                            *)
  members,       (* Per scorer: the universe it read.                       *)
  plan,          (* The backfill's dates still to run.                      *)
  faults         (* Runs failed or killed; bound.                           *)

scoringVars == <<today, active, fundamentals, runs, step, at, members, plan, faults>>
-----------------------------------------------------------------------------
(* The sectors of everyone ever listed.                                    *)
SectorOfAnyone(t, known) == Sector[t]

(* sector_map.get(t, "Unknown"): an inactive ticker has no sector.         *)
SectorOf(t, known) == IF t \in known THEN Sector[t] ELSE "Unknown"

(* sector_zscore: who t is measured against; one alone has no score.       *)
Peers(t, raw, known) ==
  LET group == {u \in raw : SectorOf(u, known) = SectorOf(t, known)}
  IN IF t \in raw /\ Cardinality(group) >= 2 THEN group ELSE {}

(* fetch_price_panel and compute_momentum_and_lowvol: every ticker with    *)
(* prices, active or not.                                                  *)
MomentumRaw(date) == {t \in Tickers : date \in EnoughOn[t]}

(* fetch_fundamentals stores the period's end as filed_date.               *)
FiledDate(report) == report.period

(* fetch_latest_fundamentals: of every ticker the last known by then.      *)
Latest(date) ==
  LET known == {r \in fundamentals : FiledDate(r) <= date}
  IN {r \in known : \A s \in known : s.ticker = r.ticker => FiledDate(s) <= FiledDate(r)}

(* compute_quality_value_raw                                               *)
SubRaw(sub, date) == {r.ticker : r \in {s \in Latest(date) : sub \in s.subs}}

(* average_available_zscores: the sub-scores there are.                    *)
Quality(t, date, known) ==
  {<<sub, Peers(t, SubRaw(sub, date), known)>> :
     sub \in {s \in SubMetrics : Peers(t, SubRaw(s, date), known) # {}}}

Row(t, date, known) ==
  [momentum |-> Peers(t, MomentumRaw(date), known),
   quality |-> Quality(t, date, known),
   reports |-> {r \in Latest(date) : r.ticker = t}]
-----------------------------------------------------------------------------
ScoringInit ==
  /\ today = FirstDate
  /\ active = Tickers
  /\ fundamentals = {r \in Reports : r.published < FirstDate}
  /\ runs = <<>>
  /\ step = [s \in Scorers |-> "idle"]
  /\ at = [s \in Scorers |-> 0]
  /\ members = [s \in Scorers |-> {}]
  /\ plan = {}
  /\ faults = 0

(* JobRun.__enter__                                                        *)
Open(s, date) ==
  /\ runs' = Append(runs, [by |-> s, date |-> date, status |-> "running", rows |-> <<>>])
  /\ at' = [at EXCEPT ![s] = Len(runs) + 1]
  /\ step' = [step EXCEPT ![s] = "opened"]

Backfills == {i \in DOMAIN runs : runs[i].by = "backfill"}
Regular == DOMAIN runs \ Backfills

(* The cron script, or by hand with --score-date.                          *)
OpenCron(date) ==
  /\ step["cron"] = "idle" /\ Cardinality(Regular) < MaxRegular
  /\ Open("cron", date)
  /\ UNCHANGED <<today, active, fundamentals, members, plan, faults>>

(* pipeline_run_factor_scoring: within the request, as of today.           *)
OpenGui ==
  /\ step["gui"] = "idle" /\ Cardinality(Regular) < MaxRegular
  /\ Open("gui", today)
  /\ UNCHANGED <<today, active, fundamentals, members, plan, faults>>

(* fetch_active_universe                                                   *)
ReadUniverse(s) ==
  /\ step[s] = "opened"
  /\ members' = [members EXCEPT ![s] = active]
  /\ step' = [step EXCEPT ![s] = "read"]
  /\ UNCHANGED <<today, active, fundamentals, runs, at, plan, faults>>

Closed(s, status) ==
  /\ runs' = [runs EXCEPT ![at[s]].status = status]
  /\ at' = [at EXCEPT ![s] = 0]
  /\ step' = [step EXCEPT ![s] = "idle"]
  /\ members' = [members EXCEPT ![s] = {}]

(* The panels are read, scored and stored for every active ticker.         *)
Score(s) ==
  /\ step[s] = "read" /\ members[s] # {}
  /\ LET date == runs[at[s]].date
     IN runs' = [runs EXCEPT ![at[s]].rows = [t \in members[s] |-> Row(t, date, members[s])]]
  /\ step' = [step EXCEPT ![s] = "stored"]
  /\ UNCHANGED <<today, active, fundamentals, at, members, plan, faults>>

(* Without a universe the run is complete and has stored nothing; the      *)
(* backfill trips over the summary after that and goes on.                 *)
SkipEmpty(s) ==
  /\ step[s] = "read" /\ members[s] = {}
  /\ Closed(s, "complete")
  /\ UNCHANGED <<today, active, fundamentals, plan, faults>>

Close(s) ==
  /\ step[s] = "stored"
  /\ Closed(s, "complete")
  /\ UNCHANGED <<today, active, fundamentals, plan, faults>>

(* An exception while reading or storing: the row says 'failed', and the   *)
(* backfill goes on with the next date.                                    *)
Raise(s) ==
  /\ step[s] \in {"opened", "read"} /\ faults < MaxFaults
  /\ Closed(s, "failed")
  /\ faults' = faults + 1
  /\ UNCHANGED <<today, active, fundamentals, plan>>

Kill(s) ==
  /\ step[s] # "idle" /\ faults < MaxFaults
  /\ Closed(s, "running")
  /\ plan' = IF s = "backfill" THEN {} ELSE plan
  /\ faults' = faults + 1
  /\ UNCHANGED <<today, active, fundamentals>>

(* Dates of any backfill run, whether it has stored anything or not.       *)
DatesAttempted == {runs[i].date : i \in Backfills}

(* already_backfilled_dates of nothing: every start does all dates again.  *)
NoDates == {}

(* already_backfilled_dates                                                *)
AlreadyDone ==
  {runs[i].date : i \in {j \in Backfills : runs[j].status = "complete" /\ runs[j].rows # <<>>}}

(* The script is started, once at a time; with nothing to do it ends.      *)
StartBackfill ==
  /\ step["backfill"] = "idle" /\ plan = {}
  /\ plan' = {d \in Mondays : d <= today} \ AlreadyDone
  /\ plan' # {}
  /\ UNCHANGED <<today, active, fundamentals, runs, step, at, members, faults>>

OpenBackfill ==
  /\ step["backfill"] = "idle" /\ plan # {} /\ Cardinality(Backfills) < MaxBackfills
  /\ Open("backfill", Min(plan))
  /\ plan' = plan \ {Min(plan)}
  /\ UNCHANGED <<today, active, fundamentals, members, faults>>

Backfill ==
  \/ StartBackfill \/ OpenBackfill
  \/ ReadUniverse("backfill") \/ Score("backfill") \/ SkipEmpty("backfill") \/ Close("backfill")
-----------------------------------------------------------------------------
(* Fundamentals ingestion stores a report, once it is published.           *)
Ingest(r) ==
  /\ r.published <= today
  /\ fundamentals' = fundamentals \cup {r}
  /\ UNCHANGED <<today, active, runs, step, at, members, plan, faults>>

(* A universe sync drops tickers; their prices and reports stay.           *)
Deactivate(dropped) ==
  /\ active' = active \ dropped
  /\ UNCHANGED <<today, fundamentals, runs, step, at, members, plan, faults>>

NextDate ==
  /\ today < LastDate
  /\ today' = today + 1
  /\ UNCHANGED <<active, fundamentals, runs, step, at, members, plan, faults>>

ScoringNext ==
  \/ OpenGui \/ \E date \in 0 .. today : OpenCron(date)
  \/ StartBackfill \/ OpenBackfill
  \/ \E s \in Scorers : ReadUniverse(s) \/ Score(s) \/ SkipEmpty(s) \/ Close(s) \/ Raise(s) \/ Kill(s)
  \/ \E r \in Reports : Ingest(r)
  \/ \E dropped \in Drops : Deactivate(dropped)
  \/ NextDate

ScoringSpec == ScoringInit /\ [][ScoringNext]_scoringVars

(* Someone runs the backfill again until it says there is nothing to do.   *)
FairScoringSpec == ScoringSpec /\ WF_scoringVars(Backfill)
-----------------------------------------------------------------------------
(* The shown status of the stage: its latest run that is no backfill's.    *)
LatestOfAny == IF runs = <<>> THEN 0 ELSE Len(runs)
LatestForDashboard == IF Regular = {} THEN 0 ELSE Max(Regular)
ShownStatus == IF LatestForDashboard = 0 THEN "idle" ELSE runs[LatestForDashboard].status

(* A complete backfill run with scores of the date.                        *)
Scores(i, date) ==
  i \in Backfills /\ runs[i].date = date /\ runs[i].status = "complete" /\ runs[i].rows # <<>>

(* However often the backfill is interrupted and restarted, no date is     *)
(* scored by two complete backfill runs.                                   *)
OneCompletePerDate ==
  \A d \in Mondays : Cardinality({i \in DOMAIN runs : Scores(i, d)}) <= 1

(* And every past Monday gets one: what failed or was killed is done again. *)
EveryMondayScored ==
  \A d \in Mondays : (d <= today) ~> (active = {} \/ \E i \in DOMAIN runs : Scores(i, d))

(* Whatever the sync does meanwhile, a ticker with a sector is measured    *)
(* only against tickers of its sector that were active in the same run,    *)
(* and its momentum only against those with prices enough as of the date.  *)
(* (Tickers without a sector are measured against every inactive ticker    *)
(* too. Whether a peer's report was published yet is PointInTime's         *)
(* question, not this one's.)                                              *)
PeersAreComparable ==
  \A i \in DOMAIN runs : \A t \in DOMAIN runs[i].rows :
    Sector[t] # "Unknown" =>
      LET row == runs[i].rows[t]
          peers == row.momentum \cup UNION {q[2] : q \in row.quality}
      IN /\ peers \subseteq DOMAIN runs[i].rows
         /\ \A u \in peers : Sector[u] = Sector[t]
         /\ \A u \in row.momentum : runs[i].date \in EnoughOn[u]

(* A failed run of the cron or the GUI stays on the dashboard until either *)
(* begins another: no backfill, however long, covers it.                   *)
FailureStaysVisible ==
  [][ShownStatus = "failed" => ShownStatus' = "failed" \/ Regular' # Regular]_scoringVars

(* DESIGN.md 8.2 and data_fetch.py:76-81: a score for a date never uses a  *)
(* report that was not yet published on that date.                         *)
PointInTime ==
  \A i \in DOMAIN runs : \A t \in DOMAIN runs[i].rows :
    \A r \in runs[i].rows[t].reports : r.published <= runs[i].date
=============================================================================
