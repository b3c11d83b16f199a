----------------------------- MODULE DailyPicks -----------------------------
(***************************************************************************)
(* The daily-picks workflow (daily_picks_cron.yml): Stage 3, 4 and 5 run   *)
(* one after the other, each a script of its own that opens a JobRun,      *)
(* reads what the stage before stored for its score date, and replaces in  *)
(* one transaction what its own stage had stored. A stage is also rerun by *)
(* hand, on its own ("commands to run.md": "Rerun Stage 4"). Nothing keeps *)
(* two workflows from running at once: a scheduled and a dispatched one,   *)
(* two dispatched ones, or one beside a script run by hand.                *)
(*                                                                         *)
(* A run is a row of job_runs, numbered by start_time. A table holds rows  *)
(* of runs; of the rows themselves only the run and the date matter here:  *)
(* what the filter and the sizing do with them is module Selection.        *)
(***************************************************************************)
EXTENDS Naturals, Sequences, FiniteSets, FiniteSetsExt

CONSTANTS
  Workflows,
  Scripts,               (* Those that are a single script, run by hand.    *)
  NoDate,                (* No --score-date was given.                      *)
  LastDay,               (* Bound: the last day.                            *)
  MaxRuns,               (* Bound: the rows of job_runs.                    *)
  MaxFaults              (* Bound: the runs that fail for no want of input. *)

ASSUME ScriptsAssumption == Scripts \subseteq Workflows
ASSUME DatesAssumption == LastDay \in Nat /\ NoDate \notin Nat
ASSUME BoundsAssumption == MaxRuns \in Nat /\ MaxFaults \in Nat

VARIABLES
  today,
  runs,      (* job_runs, by start_time.                                    *)
  rows,      (* By stage and date: the runs that have rows in its table.    *)
  stage,     (* By workflow: the stage it is in, 0 if it is not running.    *)
  step,      (* By workflow: where its script is.                           *)
  given,     (* By workflow: its --score-date.                              *)
  run,       (* By workflow: its last run, 0 before the first.               *)
  deleted    (* By workflow: the runs whose rows its DELETE saw.            *)

wfVars == <<stage, step, given, run, deleted>>
vars == <<today, runs, rows, wfVars>>

Ranking == 1      (* ml_rankings, by score_date                             *)
Shortlist == 2    (* correlation_filtered_shortlist, by score_date          *)
Picks == 3        (* daily_picks, by trade_date                             *)
Stages == Ranking .. Picks
Steps == {"start", "read", "delete", "insert", "close"}

Days == 0 .. LastDay
Dates == 0 .. LastDay + 3
IsWeekend(d) == d % 7 \in {1, 2}    (* Day 0 is a Friday.                   *)

NextTradingDay(d) == CHOOSE e \in d + 1 .. d + 3 :
  /\ ~ IsWeekend(e)
  /\ \A f \in d + 1 .. e - 1 : IsWeekend(f)

(* The date under which a stage stores what it made of a score date.       *)
KeyOf(n, d) == IF n = Picks THEN NextTradingDay(d) ELSE d

RunNumbers == 1 .. Len(runs)
Live == {run[w] : w \in {v \in Workflows : stage[v] # 0 /\ step[v] # "start"}}

Init ==
  /\ today = 0
  /\ runs = <<>>
  /\ rows = [n \in Stages |-> [d \in Dates |-> {}]]
  /\ stage = [w \in Workflows |-> 0]
  /\ step = [w \in Workflows |-> "start"]
  /\ given = [w \in Workflows |-> NoDate]
  /\ run = [w \in Workflows |-> 0]
  /\ deleted = [w \in Workflows |-> {}]
-----------------------------------------------------------------------------
(* The workflow is scheduled, or dispatched, or one of its scripts is run  *)
(* by hand; perhaps for a past date.                                       *)
Start(w) ==
  /\ stage[w] = 0
  /\ \E n \in Stages :
       /\ w \notin Scripts => n = Ranking
       /\ stage' = [stage EXCEPT ![w] = n]
  /\ \E d \in {NoDate} \cup 0 .. today : given' = [given EXCEPT ![w] = d]
  /\ UNCHANGED <<today, runs, rows, step, run, deleted>>

ScoreDate(w) == IF given[w] = NoDate THEN today ELSE given[w]

(* The script settles its score date, then JobRun commits a row 'running'. *)
(* What Stage 3 reads, the features of the date, no stage here writes.     *)
Open(w) ==
  /\ stage[w] # 0 /\ step[w] = "start"
  /\ Len(runs) < MaxRuns
  /\ runs' = Append(runs, [stage |-> stage[w], scoreDate |-> ScoreDate(w),
                           status |-> "running", error |-> "none",
                           input |-> 0,          \* The run whose rows it read.
                           previous |-> run[w],  \* Its workflow's run before it.
                           beside |-> Live])     \* The runs then in progress.
  /\ run' = [run EXCEPT ![w] = Len(runs) + 1]
  /\ step' = [step EXCEPT ![w] = IF stage[w] = Ranking THEN "delete" ELSE "read"]
  /\ UNCHANGED <<today, rows, stage, given, deleted>>

(* Its latest run, whatever the date of its rows.                          *)
LatestRunOfAnyDate(n, d) ==
  LET all == UNION {rows[n][e] : e \in Dates} IN IF all = {} THEN 0 ELSE Max(all)

(* latest_run: of the runs with rows for that date the one that started    *)
(* last, whatever its status; 0 if there is none.                          *)
LatestRun(n, d) == IF rows[n][d] = {} THEN 0 ELSE Max(rows[n][d])

(* The workflow is over; an open transaction is rolled back.               *)
Stop(w) ==
  /\ stage' = [stage EXCEPT ![w] = 0]
  /\ step' = [step EXCEPT ![w] = "start"]
  /\ given' = [given EXCEPT ![w] = NoDate]
  /\ run' = [run EXCEPT ![w] = 0]
  /\ deleted' = [deleted EXCEPT ![w] = {}]

(* The run ends with an exception: __exit__ rolls back and records it; the *)
(* workflow's later steps are skipped.                                     *)
FailWith(w, why) ==
  /\ runs' = [runs EXCEPT ![run[w]].status = "failed", ![run[w]].error = why]
  /\ Stop(w)
  /\ UNCHANGED <<today, rows>>

(* Stage 4 and 5 read the latest run of the stage before ...               *)
ReadLatestRun(w) ==
  /\ stage[w] \in {Shortlist, Picks} /\ step[w] = "read"
  /\ LET r == LatestRun(stage[w] - 1, runs[run[w]].scoreDate)
     IN /\ r # 0
        /\ runs' = [runs EXCEPT ![run[w]].input = r]
  /\ step' = [step EXCEPT ![w] = "delete"]
  /\ UNCHANGED <<today, rows, stage, given, run, deleted>>

(* ... which must be there: "Run Stage 3 first".                           *)
Starve(w) ==
  /\ stage[w] \in {Shortlist, Picks} /\ step[w] = "read"
  /\ LatestRun(stage[w] - 1, runs[run[w]].scoreDate) = 0
  /\ FailWith(w, "no_input")

OwnKey(w) == KeyOf(stage[w], runs[run[w]].scoreDate)

(* No DELETE: the INSERT's ON CONFLICT is thought to do.                   *)
DeleteNothing(w) ==
  /\ stage[w] # 0 /\ step[w] = "delete"
  /\ deleted' = [deleted EXCEPT ![w] = {}]
  /\ step' = [step EXCEPT ![w] = "insert"]
  /\ UNCHANGED <<today, runs, rows, stage, given, run>>

(* A DELETE in a transaction of its own.                                   *)
DeleteAndCommit(w) ==
  /\ stage[w] # 0 /\ step[w] = "delete"
  /\ rows' = [rows EXCEPT ![stage[w]][OwnKey(w)] = {}]
  /\ step' = [step EXCEPT ![w] = "insert"]
  /\ UNCHANGED <<today, runs, stage, given, run, deleted>>

(* The DELETE takes the rows committed when it starts (Stage 5 only those  *)
(* with `executed = FALSE`: nothing sets it to TRUE); those that another   *)
(* transaction has inserted and not yet committed it never sees. (One that *)
(* waits for another's lock on a row finds the row gone, to the same end.) *)
Delete(w) ==
  /\ stage[w] # 0 /\ step[w] = "delete"
  /\ deleted' = [deleted EXCEPT ![w] = rows[stage[w]][OwnKey(w)]]
  /\ step' = [step EXCEPT ![w] = "insert"]
  /\ UNCHANGED <<today, runs, rows, stage, given, run>>

(* The INSERTs, and the commit of both.                                    *)
Insert(w) ==
  /\ stage[w] # 0 /\ step[w] = "insert"
  /\ rows' = [rows EXCEPT ![stage[w]][OwnKey(w)] = (@ \ deleted[w]) \cup {run[w]}]
  /\ deleted' = [deleted EXCEPT ![w] = {}]
  /\ step' = [step EXCEPT ![w] = "close"]
  /\ UNCHANGED <<today, runs, stage, given, run>>

(* __exit__ records success, and a workflow goes on to its next stage.     *)
Close(w) ==
  /\ stage[w] # 0 /\ step[w] = "close"
  /\ runs' = [runs EXCEPT ![run[w]].status = "complete"]
  /\ \/ /\ stage[w] = Picks \/ w \in Scripts
        /\ Stop(w)
     \/ /\ stage[w] # Picks /\ w \notin Scripts
        /\ stage' = [stage EXCEPT ![w] = @ + 1]
        /\ step' = [step EXCEPT ![w] = "start"]
        /\ UNCHANGED <<given, run, deleted>>
  /\ UNCHANGED <<today, rows>>

(* The runs that have failed or were lost.                                 *)
Faulty == {i \in RunNumbers :
  runs[i].error = "other" \/ (runs[i].status = "running" /\ i \notin Live)}

(* No features, no candidate accepted or none that can be sized, a         *)
(* database error, a cancellation: anywhere, even after the commit.        *)
Fail(w) ==
  /\ Cardinality(Faulty) < MaxFaults
  /\ stage[w] # 0 /\ step[w] # "start"
  /\ FailWith(w, "other")

(* The process is lost, or fails before JobRun or while recording its own  *)
(* failure: the database rolls back, and the row stays 'running'.          *)
Die(w) ==
  /\ Cardinality(Faulty) < MaxFaults
  /\ stage[w] # 0
  /\ Stop(w)
  /\ UNCHANGED <<today, runs, rows>>

NextDay ==
  /\ today < LastDay
  /\ today' = today + 1
  /\ UNCHANGED <<runs, rows, wfVars>>

WorkflowStep(w) ==
  \/ Start(w) \/ Open(w)
  \/ ReadLatestRun(w) \/ Starve(w)
  \/ Delete(w) \/ Insert(w) \/ Close(w)
  \/ Fail(w) \/ Die(w)

Next == NextDay \/ \E w \in Workflows : WorkflowStep(w)

Spec == Init /\ [][Next]_vars
-----------------------------------------------------------------------------
RunType == [stage : Stages, scoreDate : Days,
            status : {"running", "failed", "complete"},
            error : {"none", "no_input", "other"},
            input : Nat, previous : Nat, beside : SUBSET Nat]

(* Every field has its type, every row belongs to a run, a stage under way *)
(* has one, and no pick is for a weekend.                                  *)
TypeOK ==
  /\ today \in Days
  /\ runs \in Seq(RunType)
  /\ rows \in [Stages -> [Dates -> SUBSET RunNumbers]]
  /\ stage \in [Workflows -> {0} \cup Stages]
  /\ step \in [Workflows -> Steps]
  /\ given \in [Workflows -> {NoDate} \cup Days]
  /\ run \in [Workflows -> {0} \cup RunNumbers]
  /\ deleted \in [Workflows -> SUBSET RunNumbers]
  /\ \A w \in Workflows : step[w] # "start" => stage[w] # 0 /\ run[w] # 0
  /\ \A d \in Dates : rows[Picks][d] # {} => ~ IsWeekend(d)

(* A rerun replaces: two runs have rows for the same date only if the      *)
(* later one started while the earlier one was still running.              *)
RerunsReplace ==
  \A n \in Stages, d \in Dates : \A i, j \in rows[n][d] :
    i < j => i \in runs[j].beside

(* Whatever other workflows and reruns by hand delete meanwhile, a stage   *)
(* of a workflow finds the rows of the stage before it, unless midnight    *)
(* has passed between the two: the scripts settle the score date each for  *)
(* itself.                                                                 *)
OnlyMidnightStarves ==
  \A i \in RunNumbers :
    runs[i].error = "no_input" /\ runs[i].previous # 0 =>
      runs[i].scoreDate # runs[runs[i].previous].scoreDate

(* Each run's picks, also when workflows overlap, a stage was rerun by     *)
(* hand or a run was lost half-way, come from one shortlist that comes     *)
(* from one ranking, all three of one score date, and the trading day is   *)
(* the next one after it. A trading day may have the picks of two runs     *)
(* that overlapped, or of a Friday's and a Saturday's: each run's are of   *)
(* one chain, the trading day's need not be.                               *)
PicksAreOfOneDay ==
  \A d \in Dates : \A p \in rows[Picks][d] :
    LET s == runs[p].input
        r == runs[s].input
    IN /\ runs[p].stage = Picks /\ runs[s].stage = Shortlist /\ runs[r].stage = Ranking
       /\ runs[p].scoreDate = runs[s].scoreDate /\ runs[s].scoreDate = runs[r].scoreDate
       /\ d = NextTradingDay(runs[p].scoreDate)

(* DESIGN.md:124: "History is never overwritten - each run produces a new  *)
(* tagged row set": rows once stored stay.                                 *)
HistoryIsKept ==
  [][\A n \in Stages, d \in Dates : rows[n][d] \subseteq rows'[n][d]]_vars

(* run_ml_ranking_cron.py:109-110 of the DELETE: it stops duplicates "from *)
(* being written at all": no two runs have rows for the same date.         *)
OneRunPerDate ==
  \A n \in Stages, d \in Dates : Cardinality(rows[n][d]) <= 1
=============================================================================
