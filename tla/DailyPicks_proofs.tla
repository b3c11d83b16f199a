------------------------ MODULE DailyPicks_proofs ------------------------
(***************************************************************************)
(* Proofs about DailyPicks, for any number of workflows, runs, faults and  *)
(* days.                                                                   *)
(***************************************************************************)
EXTENDS DailyPicks, WellFoundedInduction, TLAPS

(* From any day the next trading day is at most three days away.           *)
LEMMA NextTradingDayIsNear ==
  ASSUME NEW d \in Days
  PROVE  NextTradingDay(d) \in Dates /\ ~ IsWeekend(NextTradingDay(d))
<1> DEFINE Q(e) == ~ IsWeekend(e) /\ \A f \in d + 1 .. e - 1 : IsWeekend(f)
<1>1. d \in Nat /\ d <= LastDay /\ LastDay \in Nat
  BY DatesAssumption DEF Days
<1>2. \E e \in d + 1 .. d + 3 : Q(e)
  <2>1. CASE ~ IsWeekend(d + 1)
    BY <1>1, <2>1
  <2>2. CASE IsWeekend(d + 1) /\ ~ IsWeekend(d + 2)
    <3>1. \A f \in d + 1 .. (d + 2) - 1 : f = d + 1
      BY <1>1
    <3> QED BY <1>1, <2>2, <3>1
  <2>3. CASE IsWeekend(d + 1) /\ IsWeekend(d + 2)
    <3>1. \A f \in d + 1 .. (d + 3) - 1 : f = d + 1 \/ f = d + 2
      BY <1>1
    <3>2. ~ IsWeekend(d + 3)
      BY <1>1, <2>3 DEF IsWeekend
    <3> QED BY <1>1, <2>3, <3>1, <3>2
  <2> QED BY <2>1, <2>2, <2>3
<1>3. NextTradingDay(d) = CHOOSE e \in d + 1 .. d + 3 : Q(e)
  BY DEF NextTradingDay
<1> HIDE DEF Q
<1>4. NextTradingDay(d) \in d + 1 .. d + 3 /\ Q(NextTradingDay(d))
  BY <1>2, <1>3
<1> QED BY <1>1, <1>4 DEF Dates, Q

LEMMA KeyIsADate ==
  ASSUME NEW n \in Stages, NEW d \in Days
  PROVE  KeyOf(n, d) \in Dates /\ (n = Picks => ~ IsWeekend(KeyOf(n, d)))
BY NextTradingDayIsNear, DatesAssumption DEF KeyOf, Days, Dates

(* Sets of run numbers have a maximum, which latest_run takes.             *)
LEMMA LatestRunIsThere ==
  ASSUME NEW S, NEW n \in Nat, S \subseteq 1 .. n, S # {}
  PROVE  Max(S) \in S
<1> DEFINE T == {n - s : s \in S}
<1>1. T \subseteq Nat /\ T # {}
  <2>1. \A s \in S : s \in 1 .. n /\ n - s \in Nat
    OBVIOUS
  <2> QED BY <2>1
<1>2. PICK x \in T : \A y \in T : ~ (<<y, x>> \in OpToRel(<, Nat))
  BY <1>1, NatLessThanWellFounded, WFMin
<1>3. PICK m \in S : x = n - m
  OBVIOUS
<1>4. ASSUME NEW s \in S PROVE m >= s
  <2>1. n - s \in T /\ n - s \in Nat /\ x \in Nat /\ m \in Nat /\ s \in Nat
    BY <1>1
  <2>2. ~ (n - s < x)
    BY <1>2, <2>1 DEF OpToRel
  <2> QED BY <1>3, <2>1, <2>2
<1> QED BY <1>4 DEF Max

(* latest_run finds a run that has rows if there is one.                   *)
LEMMA LatestRunFound ==
  ASSUME TypeOK, NEW n \in Stages, NEW d \in Dates
  PROVE  /\ LatestRun(n, d) \in {0} \cup RunNumbers
         /\ LatestRun(n, d) # 0 => LatestRun(n, d) \in rows[n][d]
         /\ LatestRun(n, d) = 0 => rows[n][d] = {}
<1>1. rows[n][d] \subseteq 1 .. Len(runs) /\ Len(runs) \in Nat
  BY DEF TypeOK, RunNumbers
<1>2. rows[n][d] # {} => Max(rows[n][d]) \in rows[n][d]
  BY <1>1, LatestRunIsThere
<1> QED BY <1>1, <1>2 DEF LatestRun, RunNumbers

(* The workflow of a run in progress: what it may look up.                 *)
LEMMA OwnRun ==
  ASSUME TypeOK, NEW w \in Workflows, stage[w] # 0, step[w] # "start"
  PROVE  /\ stage[w] \in Stages
         /\ run[w] \in RunNumbers
         /\ runs[run[w]] \in RunType
         /\ runs[run[w]].scoreDate \in Days
         /\ OwnKey(w) \in Dates
         /\ stage[w] = Picks => ~ IsWeekend(OwnKey(w))
<1>1. stage[w] \in Stages /\ run[w] \in 1 .. Len(runs) /\ runs \in Seq(RunType)
  BY DEF TypeOK, RunNumbers
<1>2. runs[run[w]] \in RunType
  BY <1>1
<1>3. runs[run[w]].scoreDate \in Days
  BY <1>2 DEF RunType
<1> QED BY <1>1, <1>2, <1>3, KeyIsADate DEF OwnKey, RunNumbers
-----------------------------------------------------------------------------
LEMMA InitTypeOK == Init => TypeOK
BY DatesAssumption DEF Init, TypeOK, Days, Stages, Ranking, Picks, Steps, RunNumbers

(* The end of a workflow leaves its variables well-typed.                  *)
LEMMA StopTypes ==
  ASSUME TypeOK, NEW w \in Workflows, Stop(w)
  PROVE  /\ stage' \in [Workflows -> {0} \cup Stages]
         /\ step' \in [Workflows -> Steps]
         /\ given' \in [Workflows -> {NoDate} \cup Days]
         /\ run' \in [Workflows -> {0} \cup RunNumbers]
         /\ deleted' \in [Workflows -> SUBSET RunNumbers]
         /\ \A v \in Workflows : step'[v] # "start" => stage'[v] # 0 /\ run'[v] # 0
BY DEF TypeOK, Stop, Steps

LEMMA FailTypeOK ==
  ASSUME TypeOK, NEW w \in Workflows, stage[w] # 0, step[w] # "start",
         NEW why \in {"no_input", "other"}, FailWith(w, why)
  PROVE  TypeOK'
<1> DEFINE r == [runs[run[w]] EXCEPT !.status = "failed", !.error = why]
<1>1. runs' = [runs EXCEPT ![run[w]].status = "failed", ![run[w]].error = why]
      /\ Stop(w) /\ UNCHANGED <<today, rows>>
  BY DEF FailWith
<1>2. runs' \in Seq(RunType) /\ Len(runs') = Len(runs)
  <2>1. run[w] \in 1 .. Len(runs) /\ runs[run[w]] \in RunType /\ runs \in Seq(RunType)
    BY OwnRun DEF TypeOK, RunNumbers
  <2>2. r \in RunType
    BY <2>1 DEF RunType
  <2>3. runs' = [runs EXCEPT ![run[w]] = r]
    BY <1>1, <2>1
  <2> HIDE DEF r
  <2> QED BY <2>1, <2>2, <2>3
<1>3. RunNumbers' = RunNumbers
  BY <1>2 DEF RunNumbers
<1> QED BY <1>1, <1>2, <1>3, StopTypes DEF TypeOK

LEMMA OpenTypeOK ==
  ASSUME TypeOK, NEW w \in Workflows, Open(w) PROVE TypeOK'
<1> DEFINE r == [stage |-> stage[w], scoreDate |-> ScoreDate(w),
                 status |-> "running", error |-> "none",
                 input |-> 0, previous |-> run[w], beside |-> Live]
<1>1. /\ stage[w] # 0 /\ step[w] = "start"
      /\ runs' = Append(runs, r)
      /\ run' = [run EXCEPT ![w] = Len(runs) + 1]
      /\ step' = [step EXCEPT ![w] = IF stage[w] = Ranking THEN "delete" ELSE "read"]
      /\ UNCHANGED <<today, rows, stage, given, deleted>>
  BY DEF Open
<1>2. Live \subseteq Nat
  BY DEF TypeOK, Live, RunNumbers
<1>3. ScoreDate(w) \in Days
  BY DEF ScoreDate, TypeOK
<1>4. r \in RunType
  BY <1>1, <1>2, <1>3 DEF TypeOK, RunType, RunNumbers
<1> HIDE DEF r
<1>5. runs' \in Seq(RunType) /\ Len(runs') = Len(runs) + 1 /\ Len(runs) \in Nat
  BY <1>1, <1>4 DEF TypeOK
<1>6. RunNumbers \subseteq RunNumbers' /\ Len(runs) + 1 \in RunNumbers'
  BY <1>5 DEF RunNumbers
<1>7. rows' \in [Stages -> [Dates -> SUBSET RunNumbers']]
  BY <1>1, <1>6 DEF TypeOK
<1>8. deleted' \in [Workflows -> SUBSET RunNumbers'] /\ run' \in [Workflows -> {0} \cup RunNumbers']
  BY <1>1, <1>6 DEF TypeOK
<1>9. \A v \in Workflows : step'[v] # "start" => stage'[v] # 0 /\ run'[v] # 0
  BY <1>1, <1>5 DEF TypeOK
<1> QED BY <1>1, <1>5, <1>7, <1>8, <1>9 DEF TypeOK, Steps

LEMMA InsertTypeOK ==
  ASSUME TypeOK, NEW w \in Workflows, Insert(w) PROVE TypeOK'
<1> DEFINE n == stage[w]
           k == OwnKey(w)
<1>1. /\ rows' = [rows EXCEPT ![n][k] = (@ \ deleted[w]) \cup {run[w]}]
      /\ deleted' = [deleted EXCEPT ![w] = {}]
      /\ step' = [step EXCEPT ![w] = "close"]
      /\ UNCHANGED <<today, runs, stage, given, run>>
      /\ stage[w] # 0 /\ step[w] # "start"
  BY DEF Insert
<1>2. n \in Stages /\ k \in Dates /\ run[w] \in RunNumbers /\ (n = Picks => ~ IsWeekend(k))
  BY <1>1, OwnRun
<1> HIDE DEF n, k
<1>3. rows' \in [Stages -> [Dates -> SUBSET RunNumbers]]
  BY <1>1, <1>2 DEF TypeOK
<1>4. \A d \in Dates : rows'[Picks][d] # {} => ~ IsWeekend(d)
  BY <1>1, <1>2 DEF TypeOK, Stages, Ranking, Picks
<1>5. RunNumbers' = RunNumbers
  BY <1>1 DEF RunNumbers
<1>6. \A v \in Workflows : step'[v] # "start" => stage'[v] # 0 /\ run'[v] # 0
  BY <1>1 DEF TypeOK
<1> QED BY <1>1, <1>3, <1>4, <1>5, <1>6 DEF TypeOK, Steps

LEMMA NextTypeOK == TypeOK /\ [Next]_vars => TypeOK'
<1> SUFFICES ASSUME TypeOK, [Next]_vars PROVE TypeOK'
  OBVIOUS
<1>1. ASSUME NEW w \in Workflows, Start(w) PROVE TypeOK'
  <2>1. given' \in [Workflows -> {NoDate} \cup Days]
    BY <1>1, DatesAssumption DEF Start, TypeOK, Days
  <2>2. RunNumbers' = RunNumbers
    BY <1>1 DEF Start, RunNumbers
  <2>3. \A v \in Workflows : step'[v] # "start" => stage'[v] # 0 /\ run'[v] # 0
    BY <1>1 DEF Start, TypeOK
  <2> QED BY <1>1, <2>1, <2>2, <2>3 DEF Start, TypeOK, Stages, Ranking, Picks
<1>2. ASSUME NEW w \in Workflows, ReadLatestRun(w) PROVE TypeOK'
  <2> DEFINE r == LatestRun(stage[w] - 1, runs[run[w]].scoreDate)
  <2>1. /\ stage[w] \in {Shortlist, Picks} /\ step[w] = "read"
        /\ runs' = [runs EXCEPT ![run[w]].input = r]
        /\ step' = [step EXCEPT ![w] = "delete"]
        /\ UNCHANGED <<today, rows, stage, given, run, deleted>>
    BY <1>2 DEF ReadLatestRun
  <2>2. stage[w] - 1 \in Stages /\ runs[run[w]].scoreDate \in Dates
    BY <2>1, OwnRun, DatesAssumption DEF Stages, Ranking, Shortlist, Picks, Days, Dates
  <2>3. r \in Nat
    BY <2>2, LatestRunFound DEF RunNumbers
  <2> HIDE DEF r
  <2>4. runs' \in Seq(RunType) /\ Len(runs') = Len(runs)
    <3>1. run[w] \in 1 .. Len(runs) /\ runs[run[w]] \in RunType /\ runs \in Seq(RunType)
      BY <2>1, OwnRun DEF TypeOK, RunNumbers, Shortlist, Picks
    <3>2. [runs[run[w]] EXCEPT !.input = r] \in RunType
      BY <2>3, <3>1 DEF RunType
    <3> QED BY <2>1, <3>1, <3>2
  <2>5. RunNumbers' = RunNumbers
    BY <2>4 DEF RunNumbers
  <2>6. \A v \in Workflows : step'[v] # "start" => stage'[v] # 0 /\ run'[v] # 0
    BY <2>1 DEF TypeOK, Shortlist, Picks
  <2> QED BY <2>1, <2>4, <2>5, <2>6 DEF TypeOK, Steps
<1>3. ASSUME NEW w \in Workflows, Delete(w) PROVE TypeOK'
  <2>1. stage[w] \in Stages /\ OwnKey(w) \in Dates
    BY <1>3, OwnRun DEF Delete
  <2>2. deleted' \in [Workflows -> SUBSET RunNumbers] /\ RunNumbers' = RunNumbers
    BY <1>3, <2>1 DEF Delete, TypeOK, RunNumbers
  <2>3. \A v \in Workflows : step'[v] # "start" => stage'[v] # 0 /\ run'[v] # 0
    BY <1>3 DEF Delete, TypeOK
  <2> QED BY <1>3, <2>2, <2>3 DEF Delete, TypeOK, Steps
<1>4. ASSUME NEW w \in Workflows, Close(w) PROVE TypeOK'
  <2>1. stage[w] \in Stages /\ stage[w] # 0 /\ step[w] # "start"
        /\ runs' = [runs EXCEPT ![run[w]].status = "complete"] /\ UNCHANGED <<today, rows>>
    BY <1>4, OwnRun DEF Close
  <2>2. runs' \in Seq(RunType) /\ Len(runs') = Len(runs)
    <3>1. run[w] \in 1 .. Len(runs) /\ runs[run[w]] \in RunType /\ runs \in Seq(RunType)
      BY <2>1, OwnRun DEF TypeOK, RunNumbers
    <3>2. [runs[run[w]] EXCEPT !.status = "complete"] \in RunType
      BY <3>1 DEF RunType
    <3> QED BY <2>1, <3>1, <3>2
  <2>3. RunNumbers' = RunNumbers
    BY <2>2 DEF RunNumbers
  <2>4. CASE Stop(w)
    BY <2>1, <2>2, <2>3, <2>4, StopTypes DEF TypeOK
  <2>5. CASE stage[w] # Picks /\ stage' = [stage EXCEPT ![w] = @ + 1]
             /\ step' = [step EXCEPT ![w] = "start"] /\ UNCHANGED <<given, run, deleted>>
    <3>1. stage' \in [Workflows -> {0} \cup Stages]
      BY <2>1, <2>5 DEF TypeOK, Stages, Ranking, Picks
    <3>2. \A v \in Workflows : step'[v] # "start" => stage'[v] # 0 /\ run'[v] # 0
      BY <2>1, <2>5 DEF TypeOK
    <3> QED BY <2>1, <2>2, <2>3, <2>5, <3>1, <3>2 DEF TypeOK, Steps
  <2> QED BY <1>4, <2>4, <2>5 DEF Close
<1>5. ASSUME NEW w \in Workflows, Fail(w) \/ Starve(w) PROVE TypeOK'
  BY <1>5, FailTypeOK DEF Fail, Starve, Shortlist, Picks
<1>6. ASSUME NEW w \in Workflows, Die(w) PROVE TypeOK'
  <2>1. RunNumbers' = RunNumbers
    BY <1>6 DEF Die, RunNumbers
  <2> QED BY <1>6, <2>1, StopTypes DEF Die, TypeOK
<1>7. ASSUME NextDay PROVE TypeOK'
  BY <1>7, DatesAssumption DEF NextDay, wfVars, TypeOK, Days, RunNumbers
<1>8. ASSUME UNCHANGED vars PROVE TypeOK'
  BY <1>8 DEF vars, wfVars, TypeOK, RunNumbers
<1> QED
  BY <1>1, <1>2, <1>3, <1>4, <1>5, <1>6, <1>7, <1>8, OpenTypeOK, InsertTypeOK
  DEF Next, WorkflowStep

(* Every field has its type, every row belongs to a run, and no pick is for*)
(* a weekend, whatever the calendar's length and whatever overlaps.        *)
THEOREM TypeCorrect == Spec => []TypeOK
BY InitTypeOK, NextTypeOK, PTL DEF Spec
-----------------------------------------------------------------------------
(* What no step changes of a run: all but its status, error and input.     *)
RunsKept ==
  /\ RunNumbers \subseteq RunNumbers'
  /\ \A i \in RunNumbers :
       /\ runs'[i].stage = runs[i].stage
       /\ runs'[i].scoreDate = runs[i].scoreDate
       /\ runs'[i].previous = runs[i].previous
       /\ runs'[i].beside = runs[i].beside

(* Whether the workflow has a run in progress.                             *)
Running(w) == stage[w] # 0 /\ step[w] # "start"

LEMMA OpenKeepsRuns ==
  ASSUME TypeOK, NEW w \in Workflows, Open(w)
  PROVE  /\ RunsKept
         /\ \A i \in RunNumbers : runs'[i] = runs[i]
         /\ RunNumbers' = RunNumbers \cup {Len(runs) + 1} /\ Len(runs) + 1 \notin RunNumbers
         /\ runs'[Len(runs) + 1].stage = stage[w]
         /\ runs'[Len(runs) + 1].error = "none"
         /\ runs'[Len(runs) + 1].input = 0
         /\ runs'[Len(runs) + 1].previous = run[w]
         /\ runs'[Len(runs) + 1].beside = Live
<1> DEFINE r == [stage |-> stage[w], scoreDate |-> ScoreDate(w),
                 status |-> "running", error |-> "none",
                 input |-> 0, previous |-> run[w], beside |-> Live]
<1>1. runs' = Append(runs, r) /\ runs \in Seq(RunType) /\ Len(runs) \in Nat
  BY DEF Open, TypeOK
<1> HIDE DEF r
<1>2. /\ \A i \in RunNumbers : runs'[i] = runs[i]
      /\ RunNumbers' = RunNumbers \cup {Len(runs) + 1} /\ Len(runs) + 1 \notin RunNumbers
      /\ runs'[Len(runs) + 1] = r
  BY <1>1 DEF RunNumbers
<1> QED BY <1>2 DEF RunsKept, r

(* The steps that change one field or two of the workflow's own run.       *)
LEMMA MarkKeepsRuns ==
  ASSUME TypeOK, NEW w \in Workflows, Running(w),
         \/ \E why : FailWith(w, why)
         \/ Close(w)
  PROVE  /\ RunsKept /\ RunNumbers' = RunNumbers
         /\ \A i \in RunNumbers : runs'[i].input = runs[i].input
<1>1. run[w] \in 1 .. Len(runs) /\ runs \in Seq(RunType) /\ runs[run[w]] \in RunType
  BY OwnRun DEF Running, TypeOK, RunNumbers
<1>2. \A i \in 1 .. Len(runs) : runs[i] \in RunType
  BY <1>1
<1>3. ASSUME NEW why, FailWith(w, why)
      PROVE  RunsKept /\ RunNumbers' = RunNumbers /\ \A i \in RunNumbers : runs'[i].input = runs[i].input
  <2> DEFINE r == [runs[run[w]] EXCEPT !.status = "failed", !.error = why]
  <2>1. runs' = [runs EXCEPT ![run[w]] = r]
    BY <1>1, <1>3 DEF FailWith
  <2>2. /\ r.stage = runs[run[w]].stage /\ r.scoreDate = runs[run[w]].scoreDate
        /\ r.previous = runs[run[w]].previous /\ r.beside = runs[run[w]].beside
        /\ r.input = runs[run[w]].input
    BY <1>1 DEF RunType
  <2> HIDE DEF r
  <2>3. Len(runs') = Len(runs) /\ runs'[run[w]] = r
        /\ \A i \in 1 .. Len(runs) : i # run[w] => runs'[i] = runs[i]
    BY <1>1, <2>1
  <2> QED BY <1>1, <2>2, <2>3 DEF RunsKept, RunNumbers
<1>4. ASSUME Close(w)
      PROVE  RunsKept /\ RunNumbers' = RunNumbers /\ \A i \in RunNumbers : runs'[i].input = runs[i].input
  <2> DEFINE r == [runs[run[w]] EXCEPT !.status = "complete"]
  <2>1. runs' = [runs EXCEPT ![run[w]] = r]
    BY <1>1, <1>4 DEF Close
  <2>2. /\ r.stage = runs[run[w]].stage /\ r.scoreDate = runs[run[w]].scoreDate
        /\ r.previous = runs[run[w]].previous /\ r.beside = runs[run[w]].beside
        /\ r.input = runs[run[w]].input
    BY <1>1 DEF RunType
  <2> HIDE DEF r
  <2>3. Len(runs') = Len(runs) /\ runs'[run[w]] = r
        /\ \A i \in 1 .. Len(runs) : i # run[w] => runs'[i] = runs[i]
    BY <1>1, <2>1
  <2> QED BY <1>1, <2>2, <2>3 DEF RunsKept, RunNumbers
<1> QED BY <1>3, <1>4

LEMMA ReadKeepsRuns ==
  ASSUME TypeOK, NEW w \in Workflows, ReadLatestRun(w)
  PROVE  LET r == LatestRun(stage[w] - 1, runs[run[w]].scoreDate)
         IN /\ RunsKept /\ RunNumbers' = RunNumbers /\ Running(w)
            /\ stage[w] - 1 \in Stages /\ runs[run[w]].scoreDate \in Dates
            /\ r \in rows[stage[w] - 1][runs[run[w]].scoreDate]
            /\ runs'[run[w]].input = r
            /\ \A i \in RunNumbers : i # run[w] => runs'[i] = runs[i]
<1> DEFINE r == LatestRun(stage[w] - 1, runs[run[w]].scoreDate)
           q == [runs[run[w]] EXCEPT !.input = r]
<1>1. Running(w) /\ runs' = [runs EXCEPT ![run[w]].input = r] /\ r # 0
      /\ stage[w] \in {Shortlist, Picks}
  BY DEF ReadLatestRun, Running, Shortlist, Picks
<1>2. run[w] \in 1 .. Len(runs) /\ runs \in Seq(RunType) /\ runs[run[w]] \in RunType
      /\ runs[run[w]].scoreDate \in Days
  BY <1>1, OwnRun DEF Running, TypeOK, RunNumbers
<1>3. stage[w] - 1 \in Stages /\ runs[run[w]].scoreDate \in Dates
  BY <1>1, <1>2, DatesAssumption DEF Stages, Ranking, Shortlist, Picks, Days, Dates
<1>4. r \in rows[stage[w] - 1][runs[run[w]].scoreDate]
  BY <1>1, <1>3, LatestRunFound
<1> HIDE DEF r
<1>5. /\ q.stage = runs[run[w]].stage /\ q.scoreDate = runs[run[w]].scoreDate
      /\ q.previous = runs[run[w]].previous /\ q.beside = runs[run[w]].beside
      /\ q.input = r
  BY <1>2 DEF RunType
<1>6. runs' = [runs EXCEPT ![run[w]] = q]
  BY <1>1, <1>2
<1> HIDE DEF q
<1>7. Len(runs') = Len(runs) /\ runs'[run[w]] = q
      /\ \A i \in 1 .. Len(runs) : i # run[w] => runs'[i] = runs[i]
  BY <1>2, <1>6
<1>8. RunsKept /\ RunNumbers' = RunNumbers
  BY <1>5, <1>7 DEF RunsKept, RunNumbers
<1> QED BY <1>1, <1>3, <1>4, <1>5, <1>7, <1>8 DEF r, RunNumbers
-----------------------------------------------------------------------------
(* Of two runs the later one started while the earlier was in progress.    *)
Overlap(i, j) == (i < j => i \in runs[j].beside) /\ (j < i => j \in runs[i].beside)

Inserting(w) == stage[w] # 0 /\ step[w] = "insert"

(* Runs in progress overlap. Rows that were not there for a DELETE to take *)
(* are of runs in progress since, so they overlap the run that deleted.    *)
OverlapInv ==
  /\ \A v, w \in Workflows : Running(v) /\ Running(w) => Overlap(run[v], run[w])
  /\ \A w \in Workflows : Inserting(w) =>
       \A i \in rows[stage[w]][OwnKey(w)] \ deleted[w] : Overlap(i, run[w])
  /\ \A n \in Stages, d \in Dates : \A i, j \in rows[n][d] : Overlap(i, j)

LEMMA OverlapKept ==
  ASSUME RunsKept, NEW i \in RunNumbers, NEW j \in RunNumbers, Overlap(i, j)
  PROVE  Overlap(i, j)'
BY DEF RunsKept, Overlap

(* A step that writes no rows and opens no run.                            *)
LEMMA QuietOverlap ==
  ASSUME TypeOK, OverlapInv, RunsKept, rows' = rows,
         \A v \in Workflows : Running(v)' => Running(v) /\ run'[v] = run[v],
         \A v \in Workflows : Inserting(v)' =>
           \/ Inserting(v) /\ UNCHANGED <<stage[v], deleted[v]>>
           \/ rows'[stage'[v]][OwnKey(v)'] \subseteq deleted'[v]
  PROVE  OverlapInv'
<1>1. ASSUME NEW v \in Workflows, NEW w \in Workflows, Running(v)', Running(w)'
      PROVE  Overlap(run[v], run[w])'
  BY <1>1, OwnRun, OverlapKept DEF OverlapInv, Running
<1>2. ASSUME NEW w \in Workflows, Inserting(w)',
             NEW i \in rows'[stage'[w]][OwnKey(w)'], i \notin deleted'[w]
      PROVE  Overlap(i, run[w])'
  <2>1. Inserting(w) /\ UNCHANGED <<stage[w], deleted[w]>>
    BY <1>2
  <2>2. Running(w) /\ run'[w] = run[w]
    BY <1>2 DEF Inserting, Running
  <2>3. stage[w] \in Stages /\ OwnKey(w) \in Dates /\ run[w] \in RunNumbers
    BY <2>2, OwnRun DEF Running
  <2>4. OwnKey(w)' = OwnKey(w)
    BY <2>1, <2>2, <2>3 DEF OwnKey, RunsKept
  <2>5. i \in rows[stage[w]][OwnKey(w)] \ deleted[w] /\ i \in RunNumbers
    BY <1>2, <2>1, <2>3, <2>4 DEF TypeOK
  <2> QED BY <2>1, <2>2, <2>3, <2>5, OverlapKept DEF OverlapInv
<1>3. ASSUME NEW n \in Stages, NEW d \in Dates, NEW i \in rows'[n][d], NEW j \in rows'[n][d]
      PROVE  Overlap(i, j)'
  <2>1. i \in RunNumbers /\ j \in RunNumbers /\ Overlap(i, j)
    BY <1>3 DEF TypeOK, OverlapInv
  <2> QED BY <2>1, OverlapKept
<1> QED BY <1>1, <1>2, <1>3 DEF OverlapInv

LEMMA OpenOverlap ==
  ASSUME TypeOK, OverlapInv, NEW w \in Workflows, Open(w) PROVE OverlapInv'
<1>0. PICK r : r = Len(runs) + 1
  OBVIOUS
<1>1. /\ ~ Running(w) /\ run'[w] = r /\ step'[w] \in {"delete", "read"}
      /\ UNCHANGED <<rows, stage, deleted>>
      /\ \A v \in Workflows \ {w} : UNCHANGED <<run[v], step[v]>>
  BY <1>0 DEF Open, Running, TypeOK
<1>2. RunsKept /\ r \notin RunNumbers /\ runs'[r].beside = Live
  BY <1>0, OpenKeepsRuns
<1>3. r \in Nat /\ \A i \in RunNumbers : i \in Nat /\ i < r
  BY <1>0 DEF RunNumbers, TypeOK
<1>4. ASSUME NEW v \in Workflows, Running(v)', v # w PROVE Overlap(run[v], r)' /\ Overlap(r, run[v])'
  <2>1. Running(v) /\ run'[v] = run[v] /\ run[v] \in RunNumbers
    BY <1>1, <1>4, OwnRun DEF Running
  <2>2. run[v] \in Live /\ run[v] < r /\ ~ (r < run[v])
    BY <1>3, <2>1 DEF Live, Running, RunNumbers, TypeOK
  <2> QED BY <1>2, <2>1, <2>2 DEF Overlap
<1>5. ~ (r < r)
  BY <1>3
<1>6. ASSUME NEW v \in Workflows, NEW u \in Workflows, Running(v)', Running(u)'
      PROVE  Overlap(run[v], run[u])'
  <2>1. CASE v # w /\ u # w
    <3>1. Running(v) /\ Running(u) /\ run'[v] = run[v] /\ run'[u] = run[u]
      BY <1>1, <1>6, <2>1 DEF Running
    <3> QED BY <1>2, <3>1, OwnRun, OverlapKept DEF OverlapInv, Running
  <2>2. CASE v = w /\ u = w
    BY <1>1, <1>5, <2>2 DEF Overlap
  <2>3. CASE v = w /\ u # w
    BY <1>1, <1>4, <1>6, <2>3 DEF Overlap
  <2>4. CASE v # w /\ u = w
    BY <1>1, <1>4, <1>6, <2>4 DEF Overlap
  <2> QED BY <2>1, <2>2, <2>3, <2>4
<1>7. ASSUME NEW v \in Workflows, Inserting(v)',
             NEW i \in rows'[stage'[v]][OwnKey(v)'], i \notin deleted'[v]
      PROVE  Overlap(i, run[v])'
  <2>1. v # w /\ Inserting(v) /\ Running(v) /\ run'[v] = run[v]
    BY <1>1, <1>7 DEF Inserting, Running
  <2>2. stage[v] \in Stages /\ OwnKey(v) \in Dates /\ run[v] \in RunNumbers
    BY <2>1, OwnRun DEF Running
  <2>3. OwnKey(v)' = OwnKey(v)
    BY <1>1, <1>2, <2>1, <2>2 DEF OwnKey, RunsKept
  <2>4. i \in rows[stage[v]][OwnKey(v)] \ deleted[v] /\ i \in RunNumbers
    BY <1>1, <1>7, <2>2, <2>3 DEF TypeOK
  <2> QED BY <1>2, <2>1, <2>2, <2>4, OverlapKept DEF OverlapInv
<1>8. ASSUME NEW n \in Stages, NEW d \in Dates, NEW i \in rows'[n][d], NEW j \in rows'[n][d]
      PROVE  Overlap(i, j)'
  <2>1. i \in RunNumbers /\ j \in RunNumbers /\ Overlap(i, j)
    BY <1>1, <1>8 DEF TypeOK, OverlapInv
  <2> QED BY <1>2, <2>1, OverlapKept
<1> QED BY <1>6, <1>7, <1>8 DEF OverlapInv

LEMMA InsertOverlap ==
  ASSUME TypeOK, OverlapInv, NEW w \in Workflows, Insert(w) PROVE OverlapInv'
<1> DEFINE n == stage[w]
           k == OwnKey(w)
<1>1. /\ Running(w) /\ Inserting(w)
      /\ rows' = [rows EXCEPT ![n][k] = (@ \ deleted[w]) \cup {run[w]}]
      /\ step' = [step EXCEPT ![w] = "close"]
      /\ UNCHANGED <<runs, stage, run>>
      /\ \A v \in Workflows : v # w => deleted'[v] = deleted[v]
  BY DEF Insert, Running, Inserting, TypeOK
<1>2. n \in Stages /\ k \in Dates /\ run[w] \in RunNumbers
  BY <1>1, OwnRun DEF Running
<1>3. \A i, j : Overlap(i, j)' <=> Overlap(i, j)
  BY <1>1 DEF Overlap
<1>4. \A v \in Workflows : Running(v)' => Running(v) /\ run'[v] = run[v]
  BY <1>1 DEF Running, TypeOK
<1>5. \A v, u \in Workflows : Running(v)' /\ Running(u)' => Overlap(run[v], run[u])'
  BY <1>1, <1>3, <1>4 DEF OverlapInv, Overlap
<1>6. \A i \in rows[n][k] \ deleted[w] : Overlap(i, run[w]) /\ Overlap(run[w], i)
  BY <1>1 DEF OverlapInv, Overlap
<1> HIDE DEF n, k
<1>7. \A m \in Stages, d \in Dates :
        IF m = n /\ d = k THEN rows'[m][d] = (rows[n][k] \ deleted[w]) \cup {run[w]}
        ELSE rows'[m][d] = rows[m][d]
  BY <1>1, <1>2 DEF TypeOK
<1>8. ASSUME NEW v \in Workflows, Inserting(v)',
             NEW i \in rows'[stage'[v]][OwnKey(v)'], i \notin deleted'[v]
      PROVE  Overlap(i, run[v])'
  <2>1. v # w /\ Inserting(v) /\ Running(v) /\ deleted'[v] = deleted[v]
    BY <1>1, <1>8 DEF Inserting, Running, TypeOK
  <2>2. stage[v] \in Stages /\ OwnKey(v) \in Dates /\ OwnKey(v)' = OwnKey(v) /\ stage'[v] = stage[v]
    BY <1>1, <2>1, OwnRun DEF Running, OwnKey
  <2>3. i \in rows[stage[v]][OwnKey(v)] \/ i = run[w]
    BY <1>7, <1>8, <2>2
  <2>4. CASE i = run[w]
    BY <1>1, <1>3, <2>1, <2>4 DEF OverlapInv, Overlap
  <2>5. CASE i \in rows[stage[v]][OwnKey(v)]
    BY <1>1, <1>3, <1>8, <2>1, <2>5 DEF OverlapInv, Overlap
  <2> QED BY <2>3, <2>4, <2>5
<1>9. ASSUME NEW m \in Stages, NEW d \in Dates, NEW i \in rows'[m][d], NEW j \in rows'[m][d]
      PROVE  Overlap(i, j)'
  <2>1. CASE m = n /\ d = k
    <3>1. /\ i \in rows[n][k] \ deleted[w] \/ i = run[w]
          /\ j \in rows[n][k] \ deleted[w] \/ j = run[w]
      BY <1>7, <1>9, <2>1
    <3>2. i \in rows[n][k] \ deleted[w] /\ j \in rows[n][k] \ deleted[w] => Overlap(i, j)
      BY <1>2 DEF OverlapInv
    <3>3. Overlap(run[w], run[w])
      BY <1>1 DEF OverlapInv
    <3> QED BY <1>3, <1>6, <3>1, <3>2, <3>3
  <2>2. CASE ~ (m = n /\ d = k)
    BY <1>3, <1>7, <1>9, <2>2 DEF OverlapInv
  <2> QED BY <2>1, <2>2
<1> QED BY <1>5, <1>8, <1>9 DEF OverlapInv

LEMMA NextOverlapInv == TypeOK /\ OverlapInv /\ [Next]_vars => OverlapInv'
<1> SUFFICES ASSUME TypeOK, OverlapInv, [Next]_vars PROVE OverlapInv'
  OBVIOUS
<1>1. ASSUME NEW w \in Workflows, Start(w) PROVE OverlapInv'
  <2>1. RunsKept /\ rows' = rows
    BY <1>1 DEF Start, RunsKept, RunNumbers
  <2>2. step[w] = "start"
    BY <1>1 DEF Start, TypeOK
  <2>3. \A v \in Workflows : Running(v)' => Running(v) /\ run'[v] = run[v]
    BY <1>1, <2>2 DEF Start, Running, TypeOK
  <2>4. \A v \in Workflows : Inserting(v)' => Inserting(v) /\ UNCHANGED <<stage[v], deleted[v]>>
    BY <1>1, <2>2 DEF Start, Inserting, TypeOK
  <2> QED BY <2>1, <2>3, <2>4, QuietOverlap
<1>2. ASSUME NEW w \in Workflows, ReadLatestRun(w) PROVE OverlapInv'
  <2>1. RunsKept /\ Running(w)
    BY <1>2, ReadKeepsRuns
  <2>2. \A v \in Workflows : Running(v)' => Running(v) /\ run'[v] = run[v]
    BY <1>2, <2>1 DEF ReadLatestRun, Running, TypeOK
  <2>3. \A v \in Workflows : Inserting(v)' => Inserting(v) /\ UNCHANGED <<stage[v], deleted[v]>>
    BY <1>2 DEF ReadLatestRun, Inserting, TypeOK
  <2>4. rows' = rows
    BY <1>2 DEF ReadLatestRun
  <2> QED BY <2>1, <2>2, <2>3, <2>4, QuietOverlap
<1>3. ASSUME NEW w \in Workflows, Delete(w) PROVE OverlapInv'
  <2>1. RunsKept /\ rows' = rows
    BY <1>3 DEF Delete, RunsKept, RunNumbers
  <2>2. \A v \in Workflows : Running(v)' => Running(v) /\ run'[v] = run[v]
    BY <1>3 DEF Delete, Running, TypeOK
  <2>3. \A v \in Workflows \ {w} : Inserting(v)' => Inserting(v) /\ UNCHANGED <<stage[v], deleted[v]>>
    BY <1>3 DEF Delete, Inserting, TypeOK
  <2>4. rows'[stage'[w]][OwnKey(w)'] \subseteq deleted'[w]
    BY <1>3 DEF Delete, OwnKey, TypeOK
  <2> QED BY <2>1, <2>2, <2>3, <2>4, QuietOverlap
<1>4. ASSUME NEW w \in Workflows, Stop(w), RunsKept, rows' = rows PROVE OverlapInv'
  <2>1. \A v \in Workflows : Running(v)' => Running(v) /\ run'[v] = run[v]
    BY <1>4 DEF Stop, Running, TypeOK
  <2>2. \A v \in Workflows : Inserting(v)' => Inserting(v) /\ UNCHANGED <<stage[v], deleted[v]>>
    BY <1>4 DEF Stop, Inserting, TypeOK
  <2> QED BY <1>4, <2>1, <2>2, QuietOverlap
<1>5. ASSUME NEW w \in Workflows, Close(w) PROVE OverlapInv'
  <2>1. RunsKept /\ rows' = rows
    BY <1>5, MarkKeepsRuns DEF Close, Running
  <2>2. CASE Stop(w)
    BY <1>4, <2>1, <2>2
  <2>3. CASE step' = [step EXCEPT ![w] = "start"] /\ stage' = [stage EXCEPT ![w] = @ + 1]
             /\ UNCHANGED <<given, run, deleted>>
    <3>1. \A v \in Workflows : Running(v)' => Running(v) /\ run'[v] = run[v]
      BY <2>3 DEF Running, TypeOK
    <3>2. \A v \in Workflows : Inserting(v)' => Inserting(v) /\ UNCHANGED <<stage[v], deleted[v]>>
      BY <2>3 DEF Inserting, TypeOK
    <3> QED BY <2>1, <3>1, <3>2, QuietOverlap
  <2> QED BY <1>5, <2>2, <2>3 DEF Close
<1>6. ASSUME NEW w \in Workflows, Fail(w) \/ Starve(w) PROVE OverlapInv'
  <2>1. Running(w) /\ \E why : FailWith(w, why)
    BY <1>6 DEF Fail, Starve, Running, Shortlist, Picks
  <2> QED BY <1>4, <2>1, MarkKeepsRuns DEF FailWith
<1>7. ASSUME NEW w \in Workflows, Die(w) PROVE OverlapInv'
  BY <1>7, <1>4 DEF Die, RunsKept, RunNumbers
<1>8. ASSUME NextDay \/ UNCHANGED vars PROVE OverlapInv'
  BY <1>8, QuietOverlap DEF NextDay, vars, wfVars, RunsKept, RunNumbers, Running, Inserting
<1> QED
  BY <1>1, <1>2, <1>3, <1>5, <1>6, <1>7, <1>8, OpenOverlap, InsertOverlap DEF Next, WorkflowStep

(* However many workflows overlap, rows of two runs for one date are left  *)
(* only by runs that were in progress together: a rerun replaces.          *)
THEOREM RerunsReplaceTheorem == Spec => []RerunsReplace
<1>1. Init => OverlapInv
  BY DEF Init, OverlapInv, Running, Inserting, Stages, Dates
<1>2. OverlapInv => RerunsReplace
  BY DEF OverlapInv, RerunsReplace, Overlap
<1> QED BY InitTypeOK, NextTypeOK, NextOverlapInv, <1>1, <1>2, PTL DEF Spec
-----------------------------------------------------------------------------
HandsOver(w) == w \notin Scripts /\ stage[w] \in {Shortlist, Picks}

StarvedAtMidnight(i) ==
  runs[i].previous # 0 =>
    runs[i].previous \in RunNumbers /\ runs[i].scoreDate # runs[runs[i].previous].scoreDate

(* What a workflow's stage has committed stays for its next one to find.   *)
HandoverInv ==
  /\ \A w \in Workflows :
       /\ stage[w] # 0 /\ step[w] = "close" => rows[stage[w]][OwnKey(w)] # {}
       /\ HandsOver(w) /\ step[w] = "start" =>
            /\ run[w] \in RunNumbers
            /\ rows[stage[w] - 1][runs[run[w]].scoreDate] # {}
       /\ HandsOver(w) /\ step[w] = "read" =>
            LET i == runs[run[w]].previous
            IN i \in RunNumbers /\ rows[stage[w] - 1][runs[i].scoreDate] # {}
  /\ \A i \in RunNumbers : runs[i].error = "no_input" => StarvedAtMidnight(i)

(* A script run by hand follows no other.                                  *)
ScriptInv ==
  \A w \in Scripts :
    /\ step[w] = "start" => run[w] = 0
    /\ step[w] = "read" => runs[run[w]].previous = 0

(* Rows are replaced, never removed for good.                              *)
RowsStay == \A n \in Stages, d \in Dates : rows[n][d] # {} => rows'[n][d] # {}

LEMMA RowsStayAlways == TypeOK /\ [Next]_vars => RowsStay
<1>1. ASSUME rows' = rows PROVE RowsStay
  BY <1>1 DEF RowsStay
<1>2. ASSUME TypeOK, NEW w \in Workflows, Insert(w) PROVE RowsStay
  <2>1. stage[w] \in Stages /\ OwnKey(w) \in Dates
    BY <1>2, OwnRun DEF Insert
  <2> QED BY <1>2, <2>1 DEF Insert, RowsStay, TypeOK
<1> QED
  BY <1>1, <1>2 DEF Next, WorkflowStep, NextDay, Start, Open, ReadLatestRun, Starve, FailWith,
     Delete, Close, Fail, Die, vars

(* What the invariant says of a workflow that the step leaves alone.       *)
LEMMA HandoverKept ==
  ASSUME TypeOK, HandoverInv, RunsKept, RowsStay, NEW v \in Workflows,
         UNCHANGED <<stage[v], step[v], run[v]>>
  PROVE  /\ stage'[v] # 0 /\ step'[v] = "close" => rows'[stage'[v]][OwnKey(v)'] # {}
         /\ HandsOver(v)' /\ step'[v] = "start" =>
              /\ run'[v] \in RunNumbers'
              /\ rows'[stage'[v] - 1][runs'[run'[v]].scoreDate] # {}
         /\ HandsOver(v)' /\ step'[v] = "read" =>
              /\ runs'[run'[v]].previous \in RunNumbers'
              /\ rows'[stage'[v] - 1][runs'[runs'[run'[v]].previous].scoreDate] # {}
<1>1. \A i \in RunNumbers : runs[i].scoreDate \in Days /\ runs[i].scoreDate \in Dates
  <2>1. \A i \in 1 .. Len(runs) : runs[i] \in RunType
    BY DEF TypeOK
  <2>2. Days \subseteq Dates
    BY DatesAssumption DEF Days, Dates
  <2> QED BY <2>1, <2>2 DEF RunType, RunNumbers
<1>2. HandsOver(v) => stage[v] - 1 \in Stages /\ stage[v] # 0
  BY DEF HandsOver, Stages, Ranking, Shortlist, Picks
<1>3. CASE stage[v] # 0 /\ step[v] = "close"
  <2>1. run[v] \in RunNumbers /\ stage[v] \in Stages /\ OwnKey(v) \in Dates
    BY <1>3, OwnRun
  <2>2. OwnKey(v)' = OwnKey(v)
    BY <2>1 DEF OwnKey, RunsKept
  <2> QED BY <1>3, <2>1, <2>2 DEF HandoverInv, RowsStay
<1>4. CASE HandsOver(v) /\ step[v] = "start"
  <2>1. run[v] \in RunNumbers /\ rows[stage[v] - 1][runs[run[v]].scoreDate] # {}
    BY <1>4 DEF HandoverInv
  <2> QED BY <1>1, <1>2, <1>4, <2>1 DEF RunsKept, RowsStay
<1>5. CASE HandsOver(v) /\ step[v] = "read"
  <2> DEFINE i == runs[run[v]].previous
  <2>1. i \in RunNumbers /\ rows[stage[v] - 1][runs[i].scoreDate] # {}
    BY <1>5 DEF HandoverInv
  <2>2. run[v] \in RunNumbers
    BY <1>2, <1>5, OwnRun
  <2>3. runs'[run'[v]].previous = i /\ runs'[i].scoreDate = runs[i].scoreDate
    BY <2>1, <2>2 DEF RunsKept
  <2> QED BY <1>1, <1>2, <1>5, <2>1, <2>3 DEF RunsKept, RowsStay
<1> QED BY <1>3, <1>4, <1>5 DEF HandsOver

(* What it says of runs that have starved before.                          *)
LEMMA StarvedKept ==
  ASSUME HandoverInv, RunsKept, NEW i \in RunNumbers, runs[i].error = "no_input"
  PROVE  StarvedAtMidnight(i)'
<1>1. CASE runs[i].previous = 0
  BY <1>1 DEF RunsKept, StarvedAtMidnight
<1>2. CASE runs[i].previous # 0
  <2>1. runs[i].previous \in RunNumbers
    BY <1>2 DEF HandoverInv, StarvedAtMidnight
  <2> QED BY <1>2, <2>1 DEF RunsKept, HandoverInv, StarvedAtMidnight
<1> QED BY <1>1, <1>2

(* The end of a workflow asks nothing of what comes after it.              *)
LEMMA StopHandover ==
  ASSUME TypeOK, HandoverInv, RunsKept, RowsStay, NEW w \in Workflows, Stop(w),
         \A i \in RunNumbers' : runs'[i].error = "no_input" =>
           StarvedAtMidnight(i)'
  PROVE  HandoverInv'
<1>1. \A v \in Workflows \ {w} : UNCHANGED <<stage[v], step[v], run[v]>>
  BY DEF Stop, TypeOK
<1>2. stage'[w] = 0 /\ ~ HandsOver(w)'
  BY DEF Stop, TypeOK, HandsOver, Shortlist, Picks
<1> QED BY <1>1, <1>2, HandoverKept DEF HandoverInv

(* A run's error is set when it fails, and by nothing else.                *)
LEMMA ErrorsKept ==
  ASSUME TypeOK, NEW w \in Workflows, Running(w)
  PROVE  /\ \A why : FailWith(w, why) =>
              /\ runs'[run[w]].error = why
              /\ \A i \in RunNumbers : i # run[w] => runs'[i] = runs[i]
         /\ Close(w) \/ ReadLatestRun(w) =>
              \A i \in RunNumbers : runs'[i].error = runs[i].error
<1>1. run[w] \in 1 .. Len(runs) /\ runs \in Seq(RunType) /\ runs[run[w]] \in RunType
  BY OwnRun DEF Running, TypeOK, RunNumbers
<1>2. ASSUME NEW why, FailWith(w, why)
      PROVE  runs'[run[w]].error = why /\ \A i \in RunNumbers : i # run[w] => runs'[i] = runs[i]
  <2> DEFINE r == [runs[run[w]] EXCEPT !.status = "failed", !.error = why]
  <2>1. runs' = [runs EXCEPT ![run[w]] = r] /\ r.error = why
    BY <1>1, <1>2 DEF FailWith, RunType
  <2> HIDE DEF r
  <2> QED BY <1>1, <2>1 DEF RunNumbers
<1>3. ASSUME NEW r, r.error = runs[run[w]].error, runs' = [runs EXCEPT ![run[w]] = r]
      PROVE  \A i \in RunNumbers : runs'[i].error = runs[i].error
  BY <1>1, <1>3 DEF RunNumbers
<1>4. ASSUME Close(w) PROVE \A i \in RunNumbers : runs'[i].error = runs[i].error
  <2>1. runs' = [runs EXCEPT ![run[w]] = [runs[run[w]] EXCEPT !.status = "complete"]]
    BY <1>1, <1>4 DEF Close
  <2>2. [runs[run[w]] EXCEPT !.status = "complete"].error = runs[run[w]].error
    BY <1>1 DEF RunType
  <2> QED BY <1>3, <2>1, <2>2
<1>5. ASSUME ReadLatestRun(w) PROVE \A i \in RunNumbers : runs'[i].error = runs[i].error
  <2> DEFINE n == LatestRun(stage[w] - 1, runs[run[w]].scoreDate)
  <2>1. runs' = [runs EXCEPT ![run[w]] = [runs[run[w]] EXCEPT !.input = n]]
    BY <1>1, <1>5 DEF ReadLatestRun
  <2>2. [runs[run[w]] EXCEPT !.input = n].error = runs[run[w]].error
    BY <1>1 DEF RunType
  <2> HIDE DEF n
  <2> QED BY <1>3, <2>1, <2>2
<1> QED BY <1>2, <1>4, <1>5

(* Nothing to read: midnight has passed since the stage before.            *)
LEMMA StarveHandover ==
  ASSUME TypeOK, HandoverInv, ScriptInv, RowsStay, NEW w \in Workflows, Starve(w)
  PROVE  HandoverInv'
<1>1. /\ Running(w) /\ (w \in Scripts \/ HandsOver(w)) /\ step[w] = "read"
      /\ stage[w] \in {Shortlist, Picks}
      /\ LatestRun(stage[w] - 1, runs[run[w]].scoreDate) = 0
      /\ FailWith(w, "no_input")
  BY DEF Starve, Running, HandsOver, Shortlist, Picks
<1>2. RunsKept /\ RunNumbers' = RunNumbers /\ run[w] \in RunNumbers
  BY <1>1, MarkKeepsRuns, OwnRun DEF Running
<1>3. stage[w] - 1 \in Stages /\ runs[run[w]].scoreDate \in Dates
  BY <1>1, OwnRun, DatesAssumption
  DEF Running, Stages, Ranking, Shortlist, Picks, Days, Dates
<1>4. rows[stage[w] - 1][runs[run[w]].scoreDate] = {}
  BY <1>1, <1>3, LatestRunFound
<1>5. StarvedAtMidnight(run[w])
  <2>1. CASE w \in Scripts
    BY <1>1, <2>1 DEF ScriptInv, StarvedAtMidnight
  <2>2. CASE HandsOver(w)
    BY <1>1, <1>4, <2>2 DEF HandoverInv, StarvedAtMidnight
  <2> QED BY <1>1, <2>1, <2>2
<1>6. ASSUME NEW i \in RunNumbers', runs'[i].error = "no_input"
      PROVE  StarvedAtMidnight(i)'
  <2>1. CASE i = run[w]
    BY <1>2, <1>5, <2>1 DEF RunsKept, StarvedAtMidnight
  <2>2. CASE i # run[w]
    BY <1>1, <1>2, <1>6, <2>2, ErrorsKept, StarvedKept
  <2> QED BY <2>1, <2>2
<1>7. Stop(w)
  BY <1>1 DEF FailWith
<1> QED BY <1>2, <1>6, <1>7, StopHandover

LEMMA NextScriptInv == TypeOK /\ ScriptInv /\ [Next]_vars => ScriptInv'
<1> SUFFICES ASSUME TypeOK, ScriptInv, [Next]_vars, NEW v \in Scripts
             PROVE  /\ step'[v] = "start" => run'[v] = 0
                    /\ step'[v] = "read" => runs'[run'[v]].previous = 0
  BY DEF ScriptInv
<1>0. v \in Workflows
  BY ScriptsAssumption
<1>1. ASSUME RunsKept, UNCHANGED <<step[v], run[v]>>
      PROVE  /\ step'[v] = "start" => run'[v] = 0
             /\ step'[v] = "read" => runs'[run'[v]].previous = 0
  <2>1. step[v] # "start" => run[v] \in RunNumbers
    BY <1>0, ScriptsAssumption DEF TypeOK
  <2> QED BY <1>1, <2>1 DEF RunsKept, ScriptInv
<1>2. ASSUME runs' = runs PROVE RunsKept
  BY <1>2 DEF RunsKept, RunNumbers
<1>3. ASSUME NEW w \in Workflows, WorkflowStep(w)
      PROVE  RunsKept /\ (v # w => UNCHANGED <<step[v], run[v]>>)
  <2>1. v # w => UNCHANGED <<step[v], run[v]>>
    BY <1>0, <1>3 DEF WorkflowStep, Start, Open, ReadLatestRun, Starve, Delete, Insert, Close, Fail,
       Die, FailWith, Stop, TypeOK
  <2>2. Start(w) \/ Delete(w) \/ Insert(w) \/ Die(w) => runs' = runs
    BY DEF Start, Delete, Insert, Die
  <2>3. Open(w) => RunsKept
    BY OpenKeepsRuns
  <2>4. ReadLatestRun(w) => RunsKept
    BY ReadKeepsRuns
  <2>5. Starve(w) \/ Close(w) \/ Fail(w) => RunsKept
    <3>1. Starve(w) \/ Close(w) \/ Fail(w) => Running(w)
      BY DEF Starve, Fail, Close, Running, Shortlist, Picks
    <3>2. Starve(w) \/ Fail(w) => \E why : FailWith(w, why)
      BY Zenon DEF Starve, Fail
    <3> QED BY <3>1, <3>2, MarkKeepsRuns
  <2> QED BY <1>2, <1>3, <2>1, <2>2, <2>3, <2>4, <2>5 DEF WorkflowStep
<1>4. CASE Start(v)
  BY <1>0, <1>1, <1>2, <1>4 DEF Start
<1>5. CASE Open(v)
  <2>1. PICK r : r = Len(runs) + 1
    OBVIOUS
  <2>2. runs'[r].previous = run[v]
    BY <1>0, <1>5, <2>1, OpenKeepsRuns
  <2>3. step[v] = "start" /\ run'[v] = r /\ step'[v] \in {"delete", "read"}
    BY <1>0, <1>5, <2>1 DEF Open, TypeOK
  <2> QED BY <2>2, <2>3 DEF ScriptInv
<1>6. CASE ReadLatestRun(v) \/ Delete(v) \/ Insert(v)
  BY <1>0, <1>6 DEF ReadLatestRun, Delete, Insert, TypeOK
<1>7. CASE Starve(v) \/ Close(v) \/ Fail(v) \/ Die(v)
  <2>1. Stop(v)
    BY <1>7 DEF Starve, Close, Fail, Die, FailWith
  <2> QED BY <1>0, <2>1 DEF Stop, TypeOK
<1>8. CASE NextDay \/ UNCHANGED vars
  BY <1>1, <1>2, <1>8 DEF NextDay, vars, wfVars
<1> QED BY <1>1, <1>3, <1>4, <1>5, <1>6, <1>7, <1>8 DEF Next, WorkflowStep

LEMMA NextHandoverInv == TypeOK /\ HandoverInv /\ ScriptInv /\ [Next]_vars => HandoverInv'
<1> SUFFICES ASSUME TypeOK, HandoverInv, ScriptInv, [Next]_vars PROVE HandoverInv'
  OBVIOUS
<1>0. RowsStay
  BY RowsStayAlways
<1>1. ASSUME runs' = runs
      PROVE  /\ RunsKept /\ RunNumbers' = RunNumbers
             /\ \A i \in RunNumbers' : runs'[i].error = "no_input" =>
                  StarvedAtMidnight(i)'
  BY <1>1 DEF RunsKept, RunNumbers, HandoverInv, StarvedAtMidnight
<1>2. ASSUME NEW w \in Workflows, Start(w) PROVE HandoverInv'
  <2>1. runs' = runs /\ ~ HandsOver(w)' /\ step'[w] = "start"
        /\ \A v \in Workflows \ {w} : UNCHANGED <<stage[v], step[v], run[v]>>
    BY <1>2 DEF Start, TypeOK, HandsOver, Ranking, Shortlist, Picks
  <2> QED BY <1>0, <1>1, <2>1, HandoverKept DEF HandoverInv
<1>3. ASSUME NEW w \in Workflows, Open(w) PROVE HandoverInv'
  <2>1. PICK r : r = Len(runs) + 1
    OBVIOUS
  <2>2. /\ stage[w] # 0 /\ step[w] = "start" /\ stage' = stage /\ rows' = rows
        /\ run'[w] = r /\ step'[w] = IF stage[w] = Ranking THEN "delete" ELSE "read"
        /\ \A v \in Workflows \ {w} : UNCHANGED <<stage[v], step[v], run[v]>>
    BY <1>3, <2>1 DEF Open, TypeOK
  <2>3. /\ RunsKept /\ \A i \in RunNumbers : runs'[i] = runs[i]
        /\ RunNumbers' = RunNumbers \cup {r} /\ runs'[r].previous = run[w]
        /\ runs'[r].error = "none"
    BY <1>3, <2>1, OpenKeepsRuns
  <2>4. HandsOver(w)' /\ step'[w] = "read" =>
          /\ runs'[run'[w]].previous \in RunNumbers'
          /\ rows'[stage'[w] - 1][runs'[runs'[run'[w]].previous].scoreDate] # {}
    BY <2>2, <2>3 DEF HandoverInv, HandsOver
  <2>5. \A i \in RunNumbers' : runs'[i].error = "no_input" =>
          StarvedAtMidnight(i)'
    BY <2>3, StarvedKept
  <2>6. step'[w] # "start" /\ step'[w] # "close"
    BY <2>2
  <2> QED BY <1>0, <2>2, <2>3, <2>4, <2>5, <2>6, HandoverKept DEF HandoverInv
<1>4. ASSUME NEW w \in Workflows, ReadLatestRun(w) PROVE HandoverInv'
  <2>1. /\ RunsKept /\ RunNumbers' = RunNumbers /\ Running(w)
        /\ \A i \in RunNumbers : runs'[i].error = runs[i].error
    BY <1>4, ReadKeepsRuns, ErrorsKept
  <2>2. /\ step'[w] = "delete"
        /\ \A v \in Workflows \ {w} : UNCHANGED <<stage[v], step[v], run[v]>>
    BY <1>4 DEF ReadLatestRun, TypeOK
  <2> QED BY <1>0, <2>1, <2>2, HandoverKept, StarvedKept DEF HandoverInv
<1>5. ASSUME NEW w \in Workflows, Delete(w) PROVE HandoverInv'
  <2>1. /\ runs' = runs /\ step'[w] = "insert"
        /\ \A v \in Workflows \ {w} : UNCHANGED <<stage[v], step[v], run[v]>>
    BY <1>5 DEF Delete, TypeOK
  <2> QED BY <1>0, <1>1, <2>1, HandoverKept DEF HandoverInv
<1>6. ASSUME NEW w \in Workflows, Insert(w) PROVE HandoverInv'
  <2>1. /\ runs' = runs /\ step'[w] = "close" /\ stage' = stage /\ run' = run
        /\ rows' = [rows EXCEPT ![stage[w]][OwnKey(w)] = (@ \ deleted[w]) \cup {run[w]}]
        /\ \A v \in Workflows \ {w} : UNCHANGED <<stage[v], step[v], run[v]>>
        /\ stage[w] \in Stages /\ OwnKey(w) \in Dates
    BY <1>6, OwnRun DEF Insert, TypeOK
  <2>2. OwnKey(w)' = OwnKey(w)
    BY <2>1 DEF OwnKey
  <2>3. rows'[stage'[w]][OwnKey(w)'] # {}
    BY <2>1, <2>2 DEF TypeOK
  <2> QED BY <1>0, <1>1, <2>1, <2>3, HandoverKept DEF HandoverInv
<1>7. ASSUME NEW w \in Workflows, Close(w) PROVE HandoverInv'
  <2>1. /\ RunsKept /\ RunNumbers' = RunNumbers
        /\ \A i \in RunNumbers : runs'[i].error = runs[i].error
        /\ stage[w] \in Stages /\ run[w] \in RunNumbers /\ OwnKey(w) \in Dates /\ rows' = rows
    BY <1>7, MarkKeepsRuns, ErrorsKept, OwnRun DEF Close, Running
  <2>2. \A i \in RunNumbers' : runs'[i].error = "no_input" =>
          StarvedAtMidnight(i)'
    BY <2>1, StarvedKept
  <2>3. CASE Stop(w)
    BY <1>0, <2>1, <2>2, <2>3, StopHandover
  <2>4. CASE /\ stage[w] # Picks /\ stage' = [stage EXCEPT ![w] = @ + 1]
             /\ step' = [step EXCEPT ![w] = "start"] /\ UNCHANGED <<given, run, deleted>>
    <3>1. /\ stage'[w] = stage[w] + 1 /\ step'[w] = "start" /\ run'[w] = run[w]
          /\ \A v \in Workflows \ {w} : UNCHANGED <<stage[v], step[v], run[v]>>
      BY <2>4 DEF TypeOK
    <3>2. OwnKey(w) = runs[run[w]].scoreDate /\ stage'[w] - 1 = stage[w]
      BY <2>1, <2>4, <3>1 DEF OwnKey, KeyOf, Stages, Ranking, Picks
    <3>3. rows[stage[w]][OwnKey(w)] # {}
      BY <1>7 DEF Close, HandoverInv
    <3>4. rows'[stage'[w] - 1][runs'[run'[w]].scoreDate] # {}
      BY <2>1, <3>1, <3>2, <3>3 DEF RunsKept
    <3> QED BY <1>0, <2>1, <2>2, <3>1, <3>4, HandoverKept DEF HandoverInv
  <2> QED BY <1>7, <2>3, <2>4 DEF Close
<1>8. ASSUME NEW w \in Workflows, Fail(w) PROVE HandoverInv'
  <2>1. Running(w) /\ FailWith(w, "other") /\ Stop(w)
    BY <1>8 DEF Fail, FailWith, Running
  <2>2. RunsKept /\ RunNumbers' = RunNumbers /\ run[w] \in RunNumbers
    BY <2>1, MarkKeepsRuns, OwnRun DEF Running
  <2>3. \A i \in RunNumbers' : runs'[i].error = "no_input" =>
          StarvedAtMidnight(i)'
    BY <2>1, <2>2, ErrorsKept, StarvedKept
  <2> QED BY <1>0, <2>1, <2>2, <2>3, StopHandover
<1>9. ASSUME NEW w \in Workflows, Die(w) PROVE HandoverInv'
  BY <1>9, <1>0, <1>1, StopHandover DEF Die
<1>10. ASSUME NextDay \/ UNCHANGED vars PROVE HandoverInv'
  <2>1. runs' = runs /\ \A v \in Workflows : UNCHANGED <<stage[v], step[v], run[v]>>
    BY <1>10 DEF NextDay, vars, wfVars
  <2> QED BY <1>0, <1>1, <2>1, HandoverKept DEF HandoverInv
<1> QED
  BY <1>0, <1>2, <1>3, <1>4, <1>5, <1>6, <1>7, <1>8, <1>9, <1>10, StarveHandover DEF Next, WorkflowStep

(* Overlapping workflows, reruns by hand, failures and lost processes      *)
(* never take a workflow's stage its input away: only a new score date     *)
(* leaves it without one.                                                  *)
THEOREM OnlyMidnightStarvesTheorem == Spec => []OnlyMidnightStarves
<1>1. Init => HandoverInv
  BY DEF Init, HandoverInv, HandsOver, Shortlist, Picks, RunNumbers
<1>2. HandoverInv => OnlyMidnightStarves
  BY DEF HandoverInv, OnlyMidnightStarves, StarvedAtMidnight
<1>3. Init => ScriptInv
  BY ScriptsAssumption DEF Init, ScriptInv
<1> QED
  BY InitTypeOK, NextTypeOK, NextHandoverInv, NextScriptInv, <1>1, <1>2, <1>3, PTL DEF Spec
-----------------------------------------------------------------------------
(* A run's rows, and what it reads, are of its stage and its score date.   *)
InputFits(i) ==
  LET j == runs[i].input
  IN runs[i].input # 0 =>
       /\ j \in RunNumbers
       /\ runs[j].stage = runs[i].stage - 1
       /\ runs[j].scoreDate = runs[i].scoreDate
       /\ runs[j].stage = Shortlist => runs[j].input # 0

ChainInv ==
  /\ \A i \in RunNumbers : InputFits(i)
  /\ \A w \in Workflows : Running(w) =>
       /\ runs[run[w]].stage = stage[w]
       /\ step[w] \in {"delete", "insert"} /\ stage[w] # Ranking => runs[run[w]].input # 0
  /\ \A n \in Stages, d \in Dates : \A i \in rows[n][d] :
       /\ runs[i].stage = n
       /\ d = KeyOf(n, runs[i].scoreDate)
       /\ n # Ranking => runs[i].input # 0

(* An input that has been read is not forgotten.                           *)
InputsKept ==
  \A i \in RunNumbers : runs'[i].input = runs[i].input \/ (runs[i].input = 0 /\ runs'[i].input # 0)

LEMMA InputFitsKept ==
  ASSUME RunsKept, InputsKept, NEW i \in RunNumbers, runs'[i].input = runs[i].input, InputFits(i)
  PROVE  InputFits(i)'
<1>1. CASE runs[i].input # 0
  <2>1. runs[i].input \in RunNumbers
    BY <1>1 DEF InputFits
  <2> QED BY <1>1, <2>1 DEF InputFits, RunsKept, InputsKept
<1> QED BY <1>1 DEF InputFits

(* A step that writes no rows and opens no run, and reads no input.        *)
LEMMA QuietChain ==
  ASSUME TypeOK, ChainInv, RunsKept, RunNumbers' = RunNumbers, rows' = rows,
         \A i \in RunNumbers : runs'[i].input = runs[i].input,
         \A v \in Workflows : Running(v)' =>
           /\ Running(v) /\ UNCHANGED <<stage[v], run[v]>>
           /\ step'[v] \in {"delete", "insert"} => step[v] \in {"delete", "insert"}
  PROVE  ChainInv'
<1>1. \A i \in RunNumbers' : InputFits(i)'
  BY InputFitsKept DEF InputsKept, ChainInv
<1>2. ASSUME NEW w \in Workflows, Running(w)'
      PROVE  /\ runs'[run'[w]].stage = stage'[w]
             /\ step'[w] \in {"delete", "insert"} /\ stage'[w] # Ranking => runs'[run'[w]].input # 0
  <2>1. Running(w) /\ run[w] \in RunNumbers
    BY <1>2, OwnRun DEF Running
  <2> QED BY <1>2, <2>1 DEF ChainInv, RunsKept
<1>3. ASSUME NEW n \in Stages, NEW d \in Dates, NEW i \in rows'[n][d]
      PROVE  /\ runs'[i].stage = n
             /\ d = KeyOf(n, runs'[i].scoreDate)
             /\ n # Ranking => runs'[i].input # 0
  <2>1. i \in RunNumbers /\ i \in rows[n][d]
    BY DEF TypeOK
  <2>2. runs'[i].scoreDate = runs[i].scoreDate /\ runs'[i].stage = runs[i].stage
    BY <2>1 DEF RunsKept
  <2> QED BY <2>1, <2>2 DEF ChainInv
<1> QED BY <1>1, <1>2, <1>3 DEF ChainInv

LEMMA OpenChain ==
  ASSUME TypeOK, ChainInv, NEW w \in Workflows, Open(w) PROVE ChainInv'
<1>1. PICK r : r = Len(runs) + 1
  OBVIOUS
<1>2. /\ rows' = rows /\ stage' = stage /\ run'[w] = r
      /\ step'[w] = IF stage[w] = Ranking THEN "delete" ELSE "read"
      /\ \A v \in Workflows \ {w} : UNCHANGED <<step[v], run[v]>>
  BY <1>1 DEF Open, TypeOK
<1>3. /\ RunsKept /\ \A i \in RunNumbers : runs'[i] = runs[i]
      /\ RunNumbers' = RunNumbers \cup {r}
      /\ runs'[r].stage = stage[w] /\ runs'[r].input = 0
  BY <1>1, OpenKeepsRuns
<1>4. \A i \in RunNumbers' : InputFits(i)'
  <2>1. \A i \in RunNumbers : InputFits(i)'
    BY <1>3, InputFitsKept DEF InputsKept, ChainInv
  <2> QED BY <1>3, <2>1 DEF InputFits
<1>5. ASSUME NEW v \in Workflows, Running(v)', v # w
      PROVE  /\ runs'[run'[v]].stage = stage'[v]
             /\ step'[v] \in {"delete", "insert"} /\ stage'[v] # Ranking => runs'[run'[v]].input # 0
  <2>1. Running(v) /\ run[v] \in RunNumbers
    BY <1>2, <1>5, OwnRun DEF Running
  <2> QED BY <1>2, <1>3, <1>5, <2>1 DEF ChainInv
<1>6. /\ runs'[run'[w]].stage = stage'[w]
      /\ step'[w] \in {"delete", "insert"} /\ stage'[w] # Ranking => runs'[run'[w]].input # 0
  BY <1>2, <1>3
<1>7. \A n \in Stages, d \in Dates : \A i \in rows[n][d] : runs'[i] = runs[i]
  BY <1>3 DEF TypeOK
<1> QED BY <1>2, <1>4, <1>5, <1>6, <1>7 DEF ChainInv

LEMMA ReadChain ==
  ASSUME TypeOK, ChainInv, NEW w \in Workflows, ReadLatestRun(w) PROVE ChainInv'
<1> DEFINE r == LatestRun(stage[w] - 1, runs[run[w]].scoreDate)
<1>1. /\ RunsKept /\ RunNumbers' = RunNumbers /\ Running(w)
      /\ stage[w] - 1 \in Stages /\ runs[run[w]].scoreDate \in Dates
      /\ r \in rows[stage[w] - 1][runs[run[w]].scoreDate]
      /\ runs'[run[w]].input = r
      /\ \A i \in RunNumbers : i # run[w] => runs'[i] = runs[i]
  BY ReadKeepsRuns
<1>2. /\ rows' = rows /\ stage' = stage /\ run' = run /\ stage[w] \in {Shortlist, Picks}
      /\ \A v \in Workflows \ {w} : UNCHANGED step[v]
  BY DEF ReadLatestRun, TypeOK
<1> HIDE DEF r
<1>3. run[w] \in RunNumbers /\ runs[run[w]].stage = stage[w] /\ r \in RunNumbers /\ r # 0
  BY <1>1, OwnRun DEF Running, TypeOK, ChainInv, RunNumbers
<1>4. /\ runs[r].stage = stage[w] - 1
      /\ runs[r].scoreDate = runs[run[w]].scoreDate
      /\ runs[r].stage # Ranking => runs[r].input # 0
  <2>1. stage[w] - 1 # Picks
    BY <1>2 DEF Shortlist, Picks
  <2> QED BY <1>1, <2>1 DEF ChainInv, KeyOf
<1>5. \A i \in RunNumbers : runs[i].input # 0 => runs'[i].input # 0
  BY <1>1, <1>3
<1>6. ASSUME NEW i \in RunNumbers PROVE InputFits(i)'
  <2>1. CASE i = run[w]
    <3>1. runs'[i].input = r /\ r \in RunNumbers'
      BY <1>1, <1>3, <2>1
    <3>2. runs'[r].stage = runs'[i].stage - 1 /\ runs'[r].scoreDate = runs'[i].scoreDate
      BY <1>1, <1>3, <1>4, <2>1 DEF RunsKept
    <3>3. runs'[r].stage = Shortlist => runs'[r].input # 0
      BY <1>1, <1>3, <1>4, <1>5 DEF RunsKept, Shortlist, Ranking
    <3> QED BY <3>1, <3>2, <3>3 DEF InputFits
  <2>2. CASE i # run[w] /\ runs[i].input # 0
    <3> DEFINE j == runs[i].input
    <3>1. /\ j \in RunNumbers /\ runs[j].stage = runs[i].stage - 1
          /\ runs[j].scoreDate = runs[i].scoreDate
          /\ runs[j].stage = Shortlist => runs[j].input # 0
      BY <2>2 DEF ChainInv, InputFits
    <3>2. runs'[i].input = runs[i].input
      BY <1>1, <2>2
    <3> QED BY <1>1, <1>5, <3>1, <3>2 DEF InputFits, RunsKept
  <2>3. CASE i # run[w] /\ runs[i].input = 0
    BY <1>1, <2>3 DEF InputFits
  <2> QED BY <2>1, <2>2, <2>3
<1>7. ASSUME NEW v \in Workflows, Running(v)'
      PROVE  /\ runs'[run'[v]].stage = stage'[v]
             /\ step'[v] \in {"delete", "insert"} /\ stage'[v] # Ranking => runs'[run'[v]].input # 0
  <2>1. CASE v = w
    BY <1>1, <1>2, <1>3, <2>1 DEF RunsKept
  <2>2. CASE v # w
    <3>1. Running(v) /\ run[v] \in RunNumbers /\ step'[v] = step[v]
      BY <1>2, <1>7, <2>2, OwnRun DEF Running
    <3> QED BY <1>1, <1>2, <1>5, <3>1 DEF ChainInv, RunsKept
  <2> QED BY <2>1, <2>2
<1>8. ASSUME NEW n \in Stages, NEW d \in Dates, NEW i \in rows'[n][d]
      PROVE  /\ runs'[i].stage = n
             /\ d = KeyOf(n, runs'[i].scoreDate)
             /\ n # Ranking => runs'[i].input # 0
  <2>1. i \in RunNumbers /\ i \in rows[n][d]
    BY <1>2, <1>8 DEF TypeOK
  <2>2. runs'[i].scoreDate = runs[i].scoreDate /\ runs'[i].stage = runs[i].stage
    BY <1>1, <2>1 DEF RunsKept
  <2> QED BY <1>5, <2>1, <2>2 DEF ChainInv
<1> QED BY <1>1, <1>6, <1>7, <1>8 DEF ChainInv

LEMMA InsertChain ==
  ASSUME TypeOK, ChainInv, NEW w \in Workflows, Insert(w) PROVE ChainInv'
<1> DEFINE n == stage[w]
           k == OwnKey(w)
<1>1. /\ Running(w) /\ step[w] = "insert"
      /\ rows' = [rows EXCEPT ![n][k] = (@ \ deleted[w]) \cup {run[w]}]
      /\ step' = [step EXCEPT ![w] = "close"]
      /\ UNCHANGED <<runs, stage, run>>
  BY DEF Insert, Running
<1>2. n \in Stages /\ k \in Dates /\ k = KeyOf(n, runs[run[w]].scoreDate)
  BY <1>1, OwnRun DEF Running, OwnKey
<1>3. /\ runs[run[w]].stage = n
      /\ n # Ranking => runs[run[w]].input # 0
  BY <1>1 DEF ChainInv
<1>4. \A v \in Workflows : Running(v)' =>
        /\ runs'[run'[v]].stage = stage'[v]
        /\ step'[v] \in {"delete", "insert"} /\ stage'[v] # Ranking => runs'[run'[v]].input # 0
  BY <1>1 DEF ChainInv, Running, TypeOK
<1>5. \A i \in RunNumbers' : InputFits(i)'
  BY <1>1 DEF ChainInv, InputFits, RunNumbers
<1> HIDE DEF n, k
<1>6. ASSUME NEW m \in Stages, NEW d \in Dates, NEW i \in rows'[m][d]
      PROVE  /\ runs'[i].stage = m
             /\ d = KeyOf(m, runs'[i].scoreDate)
             /\ m # Ranking => runs'[i].input # 0
  <2>1. i \in rows[m][d] \/ (m = n /\ d = k /\ i = run[w])
    BY <1>1, <1>2, <1>6 DEF TypeOK
  <2> QED BY <1>1, <1>2, <1>3, <2>1 DEF ChainInv
<1> QED BY <1>4, <1>5, <1>6 DEF ChainInv

LEMMA NextChainInv == TypeOK /\ ChainInv /\ [Next]_vars => ChainInv'
<1> SUFFICES ASSUME TypeOK, ChainInv, [Next]_vars PROVE ChainInv'
  OBVIOUS
<1>1. ASSUME runs' = runs
      PROVE  /\ RunsKept /\ RunNumbers' = RunNumbers
             /\ \A i \in RunNumbers : runs'[i].input = runs[i].input
  BY <1>1 DEF RunsKept, RunNumbers
<1>2. ASSUME NEW w \in Workflows, Start(w) \/ Delete(w) PROVE ChainInv'
  <2>1. runs' = runs /\ rows' = rows
    BY <1>2 DEF Start, Delete
  <2>2. \A v \in Workflows : Running(v)' =>
          /\ Running(v) /\ UNCHANGED <<stage[v], run[v]>>
          /\ step'[v] \in {"delete", "insert"} => step[v] \in {"delete", "insert"}
    BY <1>2 DEF Start, Delete, Running, TypeOK
  <2> QED BY <1>1, <2>1, <2>2, QuietChain
<1>3. ASSUME NEW w \in Workflows, Stop(w)
      PROVE  \A v \in Workflows : Running(v)' =>
               /\ Running(v) /\ UNCHANGED <<stage[v], run[v]>>
               /\ step'[v] \in {"delete", "insert"} => step[v] \in {"delete", "insert"}
  BY <1>3 DEF Stop, Running, TypeOK
<1>4. ASSUME NEW w \in Workflows, Close(w) PROVE ChainInv'
  <2>1. /\ RunsKept /\ RunNumbers' = RunNumbers /\ rows' = rows
        /\ \A i \in RunNumbers : runs'[i].input = runs[i].input
    BY <1>4, MarkKeepsRuns DEF Close, Running
  <2>2. \A v \in Workflows : Running(v)' =>
          /\ Running(v) /\ UNCHANGED <<stage[v], run[v]>>
          /\ step'[v] \in {"delete", "insert"} => step[v] \in {"delete", "insert"}
    BY <1>3, <1>4 DEF Close, Running, TypeOK
  <2> QED BY <2>1, <2>2, QuietChain
<1>5. ASSUME NEW w \in Workflows, Fail(w) \/ Starve(w) PROVE ChainInv'
  <2>1. PICK why : FailWith(w, why) /\ Running(w)
    BY <1>5 DEF Fail, Starve, Running, Shortlist, Picks
  <2>2. Stop(w) /\ rows' = rows
    BY <2>1 DEF FailWith
  <2> QED BY <1>3, <2>1, <2>2, MarkKeepsRuns, QuietChain
<1>6. ASSUME NEW w \in Workflows, Die(w) PROVE ChainInv'
  BY <1>1, <1>3, <1>6, QuietChain DEF Die
<1>7. ASSUME NextDay \/ UNCHANGED vars PROVE ChainInv'
  BY <1>1, <1>7, QuietChain DEF NextDay, vars, wfVars, Running
<1> QED
  BY <1>2, <1>4, <1>5, <1>6, <1>7, OpenChain, ReadChain, InsertChain DEF Next, WorkflowStep

(* The picks a run has stored for a trading day come, in every state and   *)
(* whatever overlaps or fails, from one chain of runs of one score date,   *)
(* and the trading day is the next one after it. (Two runs that overlapped *)
(* may both have stored picks for the day, each from a chain of its own.)  *)
THEOREM PicksAreOfOneDayTheorem == Spec => []PicksAreOfOneDay
<1>1. Init => ChainInv
  BY DEF Init, ChainInv, Running, RunNumbers, Stages, Dates
<1>2. TypeOK /\ ChainInv => PicksAreOfOneDay
  <2> SUFFICES ASSUME TypeOK, ChainInv, NEW d \in Dates, NEW p \in rows[Picks][d]
               PROVE  LET s == runs[p].input
                          r == runs[s].input
                      IN /\ runs[p].stage = Picks /\ runs[s].stage = Shortlist
                         /\ runs[r].stage = Ranking
                         /\ runs[p].scoreDate = runs[s].scoreDate
                         /\ runs[s].scoreDate = runs[r].scoreDate
                         /\ d = NextTradingDay(runs[p].scoreDate)
    BY DEF PicksAreOfOneDay
  <2>1. /\ p \in RunNumbers /\ runs[p].stage = Picks /\ runs[p].input # 0
        /\ d = NextTradingDay(runs[p].scoreDate)
    BY DEF TypeOK, ChainInv, KeyOf, Stages, Ranking, Picks
  <2> DEFINE s == runs[p].input
  <2>2. /\ s \in RunNumbers /\ runs[s].stage = Shortlist /\ runs[s].input # 0
        /\ runs[s].scoreDate = runs[p].scoreDate
    BY <2>1 DEF ChainInv, InputFits, Shortlist, Picks
  <2>3. runs[runs[s].input].stage = Ranking /\ runs[runs[s].input].scoreDate = runs[s].scoreDate
    BY <2>2 DEF ChainInv, InputFits, Shortlist, Ranking
  <2> QED BY <2>1, <2>2, <2>3
<1> QED BY InitTypeOK, NextTypeOK, NextChainInv, <1>1, <1>2, PTL DEF Spec
=============================================================================
