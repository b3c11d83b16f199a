------------------------ MODULE TrainingLabels_proofs ------------------------
(***************************************************************************)
(* Proofs about TrainingLabels, for any tickers, prices, horizon, chunk    *)
(* size and number of jobs that overlap: its types, that labels stay true  *)
(* to a history that grows, and that a run recorded as complete has stored *)
(* what it computed.                                                       *)
(***************************************************************************)
EXTENDS TrainingLabels, TLAPS, FiniteSetTheorems, WellFoundedInduction

USE DEF Days, Pairs, Return, Label, Empty, feedVars, jobVars

ScoredPairs == {p \in Pairs : p[1] \in scored[p[2]]}

(* What TypeOK leaves open: the domains, and that pairs in hand are scored.*)
Shape ==
  /\ DOMAIN history = Tickers
  /\ DOMAIN pending = Jobs /\ DOMAIN batch = Jobs /\ DOMAIN todo = Jobs
  /\ DOMAIN attempt = Jobs
  /\ \A j \in Jobs : pending[j] \subseteq ScoredPairs
                     /\ DOMAIN batch[j] \subseteq ScoredPairs
  /\ \A j \in Jobs : step[j] = "compute" => pending[j] # {}

TypeInv == TypeOK /\ Shape

(* The least of a set of numbers.                                          *)
LEMMA MinIsLeast ==
  ASSUME NEW S \in SUBSET Nat, S # {}
  PROVE  Min(S) \in S /\ \A x \in S : Min(S) <= x
<1>1. PICK m \in S : \A y \in S : ~ (<<y, m>> \in OpToRel(<, Nat))
  BY NatLessThanWellFounded, WFMin
<1>2. ASSUME NEW y \in S PROVE m <= y
  <2>1. m \in Nat /\ y \in Nat
    OBVIOUS
  <2>2. ~ (y < m)
    BY <1>1, <2>1 DEF OpToRel
  <2> QED BY <2>1, <2>2
<1> QED BY <1>2 DEF Min

(* What _forward_return_for_ticker returns is made of two prices.          *)
LEMMA FoundAreReturns ==
  ASSUME TypeInv, NEW j \in Jobs, NEW p \in Pairs
  PROVE  Found(j, p) \subseteq Return
<1>1. DOMAIN history[p[1]] \subseteq 0 .. today
      /\ \A d \in DOMAIN history[p[1]] : history[p[1]][d] \in Prices
  BY DEF TypeInv, TypeOK
<1>2. \A d \in DOMAIN Window(j, p[1]) : Window(j, p[1])[d] \in Prices
  BY <1>1 DEF Window
<1>3. ASSUME NEW r \in ForwardReturns(Window(j, p[1]), p[2], Horizon) PROVE r \in Return
  <2>1. PICK w \in (DOMAIN Window(j, p[1])) \X (DOMAIN Window(j, p[1])) :
          r = [start |-> Window(j, p[1])[w[1]], end |-> Window(j, p[1])[w[2]]]
    BY <1>3 DEF ForwardReturns
  <2> QED BY <1>2, <2>1
<1> QED BY <1>3 DEF Found

(* Every label of a batch is a label.                                      *)
LEMMA LabelsAreLabels ==
  ASSUME TypeInv, NEW j \in Jobs
  PROVE  /\ Computable(j) \subseteq pending[j]
         /\ \A p \in Computable(j) : LabelOf(j, p) \in Label
<1>1. Computable(j) \subseteq pending[j] /\ pending[j] \subseteq Pairs
  BY DEF Computable, TypeInv, TypeOK
<1>2. ASSUME NEW p \in Computable(j) PROVE LabelOf(j, p) \in Label
  <2>1. ReturnOf(j, p) \in Found(j, p)
    BY DEF Computable, ReturnOf
  <2>2. ReturnOf(j, p) \in Return
    BY <1>1, <2>1, FoundAreReturns
  <2>3. Cohort(j, p[2]) \in SUBSET Tickers
    BY DEF Cohort
  <2>4. Outperforms(p[1], [t \in Cohort(j, p[2]) |-> ReturnOf(j, <<t, p[2]>>)]) \in BOOLEAN
    BY DEF Outperforms
  <2> QED BY <2>2, <2>3, <2>4 DEF LabelOf
<1> QED BY <1>1, <1>2

(* A chunk is a part of what is left of the batch, and not empty.          *)
LEMMA ChunkOfBatch ==
  ASSUME TypeInv, NEW j \in Jobs, NEW c \in Chunks(j)
  PROVE  /\ c \subseteq todo[j]
         /\ c \subseteq DOMAIN batch[j]
         /\ DOMAIN Upserted(j, c) = DOMAIN labels \cup c
         /\ \A p \in DOMAIN labels \cup c :
              Upserted(j, c)[p] = IF p \in c THEN batch[j][p] ELSE labels[p]
  BY DEF Chunks, Upserted, TypeInv, TypeOK

(* Upserting labels keeps the table's type.                                *)
LEMMA UpsertedTyped ==
  ASSUME TypeInv, NEW j \in Jobs, NEW c \in Chunks(j)
  PROVE  /\ DOMAIN Upserted(j, c) \subseteq ScoredPairs
         /\ \A p \in DOMAIN Upserted(j, c) : Upserted(j, c)[p] \in Label
<1>1. DOMAIN labels \subseteq ScoredPairs /\ DOMAIN batch[j] \subseteq ScoredPairs
  BY DEF TypeInv, TypeOK, Shape, ScoredPairs
<1>2. /\ \A p \in DOMAIN labels : labels[p] \in Label
      /\ \A p \in DOMAIN batch[j] : batch[j][p] \in Label
  BY DEF TypeInv, TypeOK
<1>3. ASSUME NEW p \in DOMAIN Upserted(j, c)
      PROVE  p \in ScoredPairs /\ Upserted(j, c)[p] \in Label
  <2>a. DOMAIN Upserted(j, c) = DOMAIN labels \cup c
    BY ChunkOfBatch
  <2>b. c \subseteq DOMAIN batch[j]
    BY ChunkOfBatch
  <2>c. \A q \in DOMAIN labels \cup c :
          Upserted(j, c)[q] = IF q \in c THEN batch[j][q] ELSE labels[q]
    BY ChunkOfBatch
  <2>0. /\ c \subseteq DOMAIN batch[j] /\ p \in DOMAIN labels \cup c
        /\ Upserted(j, c)[p] = IF p \in c THEN batch[j][p] ELSE labels[p]
    BY <1>3, <2>a, <2>b, <2>c
  <2>1. CASE p \in c
    <3>1. p \in DOMAIN batch[j] /\ Upserted(j, c)[p] = batch[j][p]
      BY <2>0, <2>1
    <3> QED BY <1>1, <1>2, <3>1
  <2>2. CASE p \notin c
    <3>1. p \in DOMAIN labels /\ Upserted(j, c)[p] = labels[p]
      BY <2>0, <2>2
    <3> QED BY <1>1, <1>2, <3>1
  <2> QED BY <2>1, <2>2
<1> QED BY <1>3
-----------------------------------------------------------------------------
(* A batch's step takes a chunk away: what is left, and where the job is.  *)
LEMMA ChunkTaken ==
  ASSUME TypeInv, NEW j \in Jobs, NEW c \in Chunks(j),
         todo' = [todo EXCEPT ![j] = @ \ c],
         step' = [step EXCEPT ![j] = IF c = todo[j] THEN "close" ELSE "upsert"]
  PROVE  \A i \in Jobs :
           /\ todo'[i] \subseteq DOMAIN batch[i]
           /\ step[j] = "upsert" => (step'[i] = "upsert" <=> todo'[i] # {})
           /\ step'[i] # "compute" \/ step[i] = "compute"
           /\ step'[i] = "idle" => step[i] = "idle"
<1> USE DEF TypeInv, TypeOK, Shape
<1>1. c \subseteq todo[j]
  BY ChunkOfBatch
<1>2. ASSUME NEW i \in Jobs, i # j
      PROVE  todo'[i] = todo[i] /\ step'[i] = step[i]
  BY <1>2
<1>3. todo'[j] = todo[j] \ c /\ step'[j] = IF c = todo[j] THEN "close" ELSE "upsert"
  OBVIOUS
<1>4. c # todo[j] => todo[j] \ c # {}
  BY <1>1
<1> QED BY <1>1, <1>2, <1>3, <1>4

(* Initially nothing is stored, and no step breaks a type.                 *)
LEMMA TypeInit == Init => TypeInv
<1> SUFFICES ASSUME Init PROVE TypeInv
  OBVIOUS
<1>1. today \in Days /\ scored \in [ScoreDates -> SUBSET Tickers]
  BY DaysAssumption DEF Init
<1>2. \A j \in Jobs : attempt[j] \in 0 .. MaxRetries
  BY LabelAssumption DEF Init
<1> QED BY <1>1, <1>2 DEF Init, TypeInv, TypeOK, Shape

LEMMA TypeStep == TypeInv /\ [Next]_vars => TypeInv'
<1> SUFFICES ASSUME TypeInv, [Next]_vars PROVE TypeInv'
  OBVIOUS
<1> USE DEF ScoredPairs
<1>1. CASE NextDay
  <2>1. today' \in Days /\ \A t \in Tickers : DOMAIN history[t] \subseteq 0 .. today'
    BY <1>1, DaysAssumption DEF NextDay, TypeInv, TypeOK
  <2> QED BY <1>1, <2>1 DEF NextDay, TypeInv, TypeOK, Shape
<1>2. ASSUME NEW t \in Tickers, Ingest(t) PROVE TypeInv'
  <2>1. PICK new \in SUBSET {d \in MarketDays : d <= today} :
          \E p \in [new -> Prices] :
            history' = [history EXCEPT ![t] = [d \in DOMAIN @ \cup new |->
                          IF d \in new THEN p[d] ELSE @[d]]]
    BY <1>2 DEF Ingest
  <2>0. new \subseteq 0 .. today
    BY <2>1, DaysAssumption DEF TypeInv, TypeOK, Days
  <2>2. PICK p \in [new -> Prices] :
          history' = [history EXCEPT ![t] = [d \in DOMAIN @ \cup new |->
                        IF d \in new THEN p[d] ELSE @[d]]]
    BY <2>1
  <2>3. ASSUME NEW u \in Tickers
        PROVE  DOMAIN history'[u] \subseteq 0 .. today
               /\ \A d \in DOMAIN history'[u] : history'[u][d] \in Prices
    <3>1. CASE u = t
      BY <2>0, <2>2, <3>1 DEF TypeInv, TypeOK, Shape
    <3>2. CASE u # t
      BY <2>2, <3>2 DEF TypeInv, TypeOK, Shape
    <3> QED BY <3>1, <3>2
  <2>4. DOMAIN history' = Tickers
    BY <2>2 DEF TypeInv, Shape
  <2> QED BY <1>2, <2>3, <2>4 DEF Ingest, TypeInv, TypeOK, Shape
<1>3. ASSUME NEW s \in ScoreDates, Score(s) PROVE TypeInv'
  <2>1. PICK active \in SUBSET Tickers : scored' = [scored EXCEPT ![s] = @ \cup active]
    BY <1>3 DEF Score
  <2>2. scored' \in [ScoreDates -> SUBSET Tickers]
    BY <2>1 DEF TypeInv, TypeOK
  <2>3. \A r \in ScoreDates : scored[r] \subseteq scored'[r]
    BY <2>1 DEF TypeInv, TypeOK
  <2>4. ScoredPairs \subseteq ScoredPairs'
    BY <2>3
  <2> QED BY <1>3, <2>2, <2>4 DEF Score, TypeInv, TypeOK, Shape
<1>4. ASSUME NEW j \in Jobs, Open(j) PROVE TypeInv'
  BY <1>4 DEF Open, TypeInv, TypeOK, Shape
<1>5. ASSUME NEW j \in Jobs, FindPending(j) PROVE TypeInv'
  <2>1. Unlabelled \subseteq ScoredPairs
    BY DEF Unlabelled
  <2> QED BY <1>5, <2>1 DEF FindPending, TypeInv, TypeOK, Shape
<1>6. ASSUME NEW j \in Jobs, Compute(j) PROVE TypeInv'
  <2>1. Computable(j) \subseteq ScoredPairs /\ Computable(j) \subseteq Pairs
    BY LabelsAreLabels DEF TypeInv, TypeOK, Shape
  <2>2. ASSUME NEW i \in Jobs
        PROVE  /\ DOMAIN batch'[i] \subseteq ScoredPairs
               /\ \A p \in DOMAIN batch'[i] : batch'[i][p] \in Label
               /\ todo'[i] \subseteq DOMAIN batch'[i]
               /\ step'[i] = "upsert" <=> todo'[i] # {}
    <3>1. CASE i = j
      <4>1. batch'[j] = [p \in Computable(j) |-> LabelOf(j, p)]
            /\ todo'[j] = Computable(j)
            /\ step'[j] = IF Computable(j) = {} THEN "close" ELSE "upsert"
        BY <1>6 DEF Compute, TypeInv, TypeOK, Shape
      <4> QED BY <2>1, <3>1, <4>1, LabelsAreLabels
    <3>2. CASE i # j
      <4>1. batch'[i] = batch[i] /\ todo'[i] = todo[i] /\ step'[i] = step[i]
        BY <1>6, <3>2 DEF Compute, TypeInv, TypeOK, Shape
      <4> QED BY <4>1 DEF TypeInv, TypeOK, Shape
    <3> QED BY <3>1, <3>2
  <2>3. \A i \in Jobs : pending'[i] \in {pending[i], {}}
                        /\ (step'[i] = "compute" => i # j /\ step[i] = "compute")
                        /\ (step'[i] = "idle" => step[i] = "idle")
                        /\ attempt'[i] \in 0 .. MaxRetries
    BY <1>6, LabelAssumption DEF Compute, TypeInv, TypeOK, Shape
  <2>4. /\ \A i \in Jobs : i # j => pending'[i] = pending[i]
        /\ DOMAIN pending' = Jobs /\ DOMAIN batch' = Jobs /\ DOMAIN todo' = Jobs
        /\ DOMAIN attempt' = Jobs
        /\ step' \in [Jobs -> {"idle", "find", "compute", "upsert", "close"}]
        /\ UNCHANGED <<feedVars, labels, connected, recorded>>
    BY <1>6 DEF Compute, TypeInv, TypeOK, Shape
  <2>5. TypeOK'
    <3>1. /\ today' \in Days
          /\ \A t \in Tickers : DOMAIN history'[t] \subseteq 0 .. today'
                                /\ \A d \in DOMAIN history'[t] : history'[t][d] \in Prices
          /\ scored' \in [ScoreDates -> SUBSET Tickers]
          /\ DOMAIN labels' \subseteq {p \in Pairs : p[1] \in scored'[p[2]]}
          /\ \A p \in DOMAIN labels' : labels'[p] \in Label
          /\ connected' \in [Jobs -> BOOLEAN]
          /\ recorded' \in [Jobs -> {"none", "running", "complete", "failed"}]
      BY <2>4 DEF TypeInv, TypeOK
    <3>2. \A i \in Jobs :
            /\ pending'[i] \subseteq Pairs
            /\ DOMAIN batch'[i] \subseteq Pairs
            /\ step'[i] = "idle" => ~ connected'[i]
      BY <2>2, <2>3, <2>4 DEF TypeInv, TypeOK
    <3> QED BY <2>2, <2>3, <2>4, <3>1, <3>2 DEF TypeOK
  <2>6. Shape'
    BY <2>2, <2>3, <2>4 DEF TypeInv, Shape
  <2> QED BY <2>5, <2>6 DEF TypeInv
<1>7. ASSUME NEW j \in Jobs, Upsert(j) PROVE TypeInv'
  <2>1. PICK c \in Chunks(j) :
          /\ labels' = Upserted(j, c)
          /\ todo' = [todo EXCEPT ![j] = @ \ c]
          /\ step' = [step EXCEPT ![j] = IF c = todo[j] THEN "close" ELSE "upsert"]
    BY <1>7 DEF Upsert
  <2>2. \A i \in Jobs :
          /\ todo'[i] \subseteq DOMAIN batch[i]
          /\ step'[i] = "upsert" <=> todo'[i] # {}
          /\ step'[i] # "compute" \/ step[i] = "compute"
          /\ step'[i] = "idle" => step[i] = "idle"
    BY <1>7, <2>1, ChunkTaken DEF Upsert
  <2>3. /\ DOMAIN labels' \subseteq ScoredPairs
        /\ \A p \in DOMAIN labels' : labels'[p] \in Label
    BY <2>1, UpsertedTyped
  <2>4. /\ \A i \in Jobs : attempt'[i] \in 0 .. MaxRetries
        /\ DOMAIN todo' = Jobs /\ DOMAIN attempt' = Jobs
        /\ step' \in [Jobs -> {"idle", "find", "compute", "upsert", "close"}]
        /\ UNCHANGED <<feedVars, pending, batch, connected, recorded>>
    BY <1>7, <2>1, LabelAssumption DEF Upsert, TypeInv, TypeOK, Shape
  <2>5. DOMAIN labels' \subseteq {p \in Pairs : p[1] \in scored'[p[2]]}
    BY <2>3, <2>4
  <2>6. TypeOK'
    BY <2>2, <2>3, <2>4, <2>5 DEF TypeInv, TypeOK
  <2>7. Shape'
    BY <2>2, <2>4 DEF TypeInv, Shape
  <2> QED BY <2>6, <2>7 DEF TypeInv
<1>8. ASSUME NEW j \in Jobs, Lose(j) PROVE TypeInv'
  <2>1. /\ DOMAIN labels' \subseteq ScoredPairs
        /\ \A p \in DOMAIN labels' : labels'[p] \in Label
    <3>1. CASE UNCHANGED labels
      BY <3>1 DEF TypeInv, TypeOK
    <3>2. CASE \E c \in Chunks(j) : labels' = Upserted(j, c)
      BY <3>2, UpsertedTyped
    <3> QED BY <1>8, <3>1, <3>2 DEF Lose
  <2>2. CASE attempt[j] + 1 > MaxRetries
    <3>1. /\ step' = [step EXCEPT ![j] = "idle"]
          /\ todo' = [todo EXCEPT ![j] = {}]
          /\ attempt' = [attempt EXCEPT ![j] = 0]
          /\ connected' = [connected EXCEPT ![j] = FALSE]
          /\ UNCHANGED <<feedVars, pending, batch, recorded>>
      BY <1>8, <2>2 DEF Lose
    <3> QED BY <2>1, <3>1, LabelAssumption DEF TypeInv, TypeOK, Shape
  <2>3. CASE ~ (attempt[j] + 1 > MaxRetries)
    <3>1. /\ attempt' = [attempt EXCEPT ![j] = @ + 1]
          /\ connected' = [connected EXCEPT ![j] = FALSE]
          /\ UNCHANGED <<feedVars, pending, batch, recorded, step, todo>>
      BY <1>8, <2>3 DEF Lose
    <3>2. \A i \in Jobs : attempt'[i] \in 0 .. MaxRetries
      BY <2>3, <3>1, LabelAssumption DEF TypeInv, TypeOK, Shape
    <3> QED BY <2>1, <3>1, <3>2 DEF TypeInv, TypeOK, Shape
  <2> QED BY <2>2, <2>3
<1>9. ASSUME NEW j \in Jobs, Close(j) PROVE TypeInv'
  BY <1>9 DEF Close, TypeInv, TypeOK, Shape
<1>10. ASSUME NEW j \in Jobs, Die(j) PROVE TypeInv'
  <2>1. recorded' \in [Jobs -> {"none", "running", "complete", "failed"}]
    BY <1>10 DEF Die, TypeInv, TypeOK
  <2> QED BY <1>10, <2>1, LabelAssumption DEF Die, TypeInv, TypeOK, Shape
<1>11. CASE UNCHANGED vars
  BY <1>11 DEF vars, TypeInv, TypeOK, Shape
<1> QED BY <1>1, <1>2, <1>3, <1>4, <1>5, <1>6, <1>7, <1>8, <1>9, <1>10, <1>11
        DEF Next, JobStep

(* Tables and locals keep their types, whatever the jobs meet.             *)
THEOREM TypeCorrect == Spec => []TypeOK
<1>1. Spec => []TypeInv
  BY TypeInit, TypeStep, PTL DEF Spec
<1> QED BY <1>1, PTL DEF TypeInv
-----------------------------------------------------------------------------
(* r is the return of the rows over the Horizon rows after the last one at *)
(* or before s.                                                            *)
IsReturn(rows, s, r) ==
  \E d, e \in DOMAIN rows :
    /\ d <= s /\ s < e
    /\ \A f \in DOMAIN rows : f <= s => f <= d
    /\ Cardinality({f \in DOMAIN rows : d < f /\ f <= e}) = Horizon
    /\ r = [start |-> rows[d], end |-> rows[e]]

(* What ends after the score date does not move when later rows come.      *)
LEMMA ReturnStays ==
  ASSUME NEW old, NEW new, NEW s \in Nat, NEW r,
         DOMAIN old \subseteq Nat, DOMAIN new \subseteq Nat,
         DOMAIN old \subseteq DOMAIN new,
         \A d \in DOMAIN old : new[d] = old[d],
         \A d \in DOMAIN new : d \in DOMAIN old \/ \A e \in DOMAIN old : e < d,
         IsReturn(old, s, r)
  PROVE  IsReturn(new, s, r)
<1>1. PICK d \in DOMAIN old : \E e \in DOMAIN old :
        /\ d <= s /\ s < e
        /\ \A f \in DOMAIN old : f <= s => f <= d
        /\ Cardinality({f \in DOMAIN old : d < f /\ f <= e}) = Horizon
        /\ r = [start |-> old[d], end |-> old[e]]
  BY DEF IsReturn
<1>2. PICK e \in DOMAIN old :
        /\ d <= s /\ s < e
        /\ \A f \in DOMAIN old : f <= s => f <= d
        /\ Cardinality({f \in DOMAIN old : d < f /\ f <= e}) = Horizon
        /\ r = [start |-> old[d], end |-> old[e]]
  BY <1>1
<1>3. ASSUME NEW f \in DOMAIN new, f <= e PROVE f \in DOMAIN old
  BY <1>3
<1>4. {f \in DOMAIN new : d < f /\ f <= e} = {f \in DOMAIN old : d < f /\ f <= e}
  BY <1>3
<1>5. ASSUME NEW f \in DOMAIN new, f <= s PROVE f <= d
  <2>1. f <= e
    BY <1>2, <1>5
  <2> QED BY <1>2, <1>3, <1>5, <2>1
<1> QED BY <1>2, <1>4, <1>5 DEF IsReturn

(* Rows that are left out below the window change nothing: the start is in *)
(* the window, or there is no return.                                      *)
LEMMA WindowSuffices ==
  ASSUME NEW rows, DOMAIN rows \subseteq Nat, NEW from \in Nat, NEW s \in Nat, NEW r,
         r \in ForwardReturns([d \in {e \in DOMAIN rows : e + Buffer >= from} |-> rows[d]],
                              s, Horizon)
  PROVE  IsReturn(rows, s, r)
<1> DEFINE window == [d \in {e \in DOMAIN rows : e + Buffer >= from} |-> rows[d]]
<1>1. DOMAIN window = {e \in DOMAIN rows : e + Buffer >= from}
      /\ \A d \in DOMAIN window : window[d] = rows[d]
  OBVIOUS
<1> HIDE DEF window
<1>2. PICK w \in (DOMAIN window) \X (DOMAIN window) :
        /\ IsLastBy(window, w[1], s)
        /\ s < w[2] /\ Cardinality({e \in DOMAIN window : s < e /\ e <= w[2]}) = Horizon
        /\ r = [start |-> window[w[1]], end |-> window[w[2]]]
  BY DEF ForwardReturns, window
<1>3. PICK d \in DOMAIN window, e \in DOMAIN window : d = w[1] /\ e = w[2]
  OBVIOUS
<1>4. /\ d <= s /\ s < e /\ d \in DOMAIN rows /\ e \in DOMAIN rows
      /\ \A f \in DOMAIN window : f <= s => f <= d
      /\ Cardinality({f \in DOMAIN window : s < f /\ f <= e}) = Horizon
      /\ r = [start |-> rows[d], end |-> rows[e]]
  BY <1>1, <1>2, <1>3 DEF IsLastBy
<1>5. ASSUME NEW f \in DOMAIN rows, f <= s PROVE f <= d
  BY <1>1, <1>4, <1>5, LabelAssumption
<1>6. ASSUME NEW f \in DOMAIN rows
      PROVE  (d < f /\ f <= e) <=> (f \in DOMAIN window /\ s < f /\ f <= e)
  BY <1>1, <1>4, <1>5, LabelAssumption
<1>7. {f \in DOMAIN rows : d < f /\ f <= e} = {f \in DOMAIN window : s < f /\ f <= e}
  BY <1>1, <1>6
<1> QED BY <1>4, <1>5, <1>7 DEF IsReturn

(* The rows determine the return.                                          *)
LEMMA ReturnIsUnique ==
  ASSUME NEW rows, NEW n \in Nat, DOMAIN rows \subseteq 0 .. n, NEW s \in Nat,
         NEW r, NEW q, IsReturn(rows, s, r), IsReturn(rows, s, q)
  PROVE  r = q
<1> DEFINE after(d, e) == {f \in DOMAIN rows : d < f /\ f <= e}
           fits(d, e, x) == /\ d <= s /\ s < e
                            /\ \A f \in DOMAIN rows : f <= s => f <= d
                            /\ Cardinality(after(d, e)) = Horizon
                            /\ x = [start |-> rows[d], end |-> rows[e]]
<1>1. PICK d \in DOMAIN rows : \E e \in DOMAIN rows : fits(d, e, r)
  BY DEF IsReturn
<1>2. PICK e \in DOMAIN rows : fits(d, e, r)
  BY <1>1
<1>3. PICK a \in DOMAIN rows : \E b \in DOMAIN rows : fits(a, b, q)
  BY DEF IsReturn
<1>4. PICK b \in DOMAIN rows : fits(a, b, q)
  BY <1>3
<1>5. a = d
  BY <1>2, <1>4
<1>6. \A x \in DOMAIN rows : IsFiniteSet(after(d, x))
  <2>1. IsFiniteSet(0 .. n)
    BY FS_Interval
  <2> QED BY <2>1, FS_Subset
<1>7. ASSUME NEW x \in DOMAIN rows, NEW y \in DOMAIN rows, d < y, x < y,
             Cardinality(after(d, x)) = Cardinality(after(d, y))
      PROVE  FALSE
  <2>1. after(d, x) \subseteq after(d, y) /\ y \in after(d, y) /\ y \notin after(d, x)
    BY <1>7
  <2> QED BY <1>6, <1>7, <2>1, FS_Subset
<1>8. d < e /\ d < b /\ Cardinality(after(d, e)) = Cardinality(after(d, b))
  BY <1>2, <1>4, <1>5
<1>9. e = b
  BY <1>7, <1>8
<1> QED BY <1>2, <1>4, <1>5, <1>9
-----------------------------------------------------------------------------
(* Labels are true in the table and in the hands of the jobs.              *)
TrueTable == \A p \in DOMAIN labels : IsReturn(history[p[1]], p[2], labels[p].return)
TrueBatches ==
  \A j \in Jobs : \A p \in DOMAIN batch[j] :
    IsReturn(history[p[1]], p[2], batch[j][p].return)
TrueInv == TrueTable /\ TrueBatches

LEMMA TrueTableIsTrue == TrueTable <=> LabelsAreTrue
  BY DEF TrueTable, LabelsAreTrue, IsReturn

LEMMA DaysAreNumbers ==
  ASSUME TypeInv
  PROVE  /\ \A p \in Pairs : p[1] \in Tickers /\ p[2] \in Nat
         /\ \A t \in Tickers : DOMAIN history[t] \subseteq Nat
<1>1. ScoreDates \subseteq Nat /\ 0 .. today \subseteq Nat
  BY DaysAssumption
<1>2. \A t \in Tickers : DOMAIN history[t] \subseteq 0 .. today
  BY DEF TypeInv, TypeOK
<1> QED BY <1>1, <1>2

(* A return once true is true of the history after any step.               *)
LEMMA HistoryGrows ==
  ASSUME TypeInv, [Next]_vars, NEW p \in Pairs, NEW r,
         IsReturn(history[p[1]], p[2], r)
  PROVE  IsReturn(history'[p[1]], p[2], r)
<1> USE DEF TypeInv, TypeOK, Shape
<1>1. CASE history' = history
  BY <1>1
<1>2. ASSUME NEW t \in Tickers, Ingest(t) PROVE IsReturn(history'[p[1]], p[2], r)
  <2>1. PICK new \in SUBSET {d \in MarketDays : d <= today /\ \A e \in DOMAIN history[t] : e < d} :
          \E f \in [new -> Prices] :
            history' = [history EXCEPT ![t] = [d \in DOMAIN @ \cup new |->
                          IF d \in new THEN f[d] ELSE @[d]]]
    BY <1>2 DEF Ingest
  <2>2. PICK f \in [new -> Prices] :
          history' = [history EXCEPT ![t] = [d \in DOMAIN @ \cup new |->
                        IF d \in new THEN f[d] ELSE @[d]]]
    BY <2>1
  <2>3. CASE p[1] # t
    BY <2>2, <2>3
  <2>4. CASE p[1] = t
    <3>1. history'[t] = [d \in DOMAIN history[t] \cup new |->
                           IF d \in new THEN f[d] ELSE history[t][d]]
      BY <2>2
    <3>2. DOMAIN history[t] \subseteq Nat /\ new \subseteq Nat /\ p[2] \in Nat
      <4>1. 0 .. today \subseteq Nat /\ MarketDays \subseteq Nat
        BY DaysAssumption
      <4> QED BY <4>1, DaysAreNumbers
    <3>3. \A d \in DOMAIN history[t] : d \notin new
      BY <3>2
    <3>4. /\ DOMAIN history'[t] = DOMAIN history[t] \cup new
          /\ \A d \in DOMAIN history[t] : history'[t][d] = history[t][d]
      BY <3>1, <3>3
    <3> HIDE DEF TypeInv
    <3>5. \A d \in DOMAIN history'[t] :
            d \in DOMAIN history[t] \/ \A e \in DOMAIN history[t] : e < d
      BY <3>4
    <3>6. PICK old, grown : old = history[t] /\ grown = history'[t]
      OBVIOUS
    <3>7. IsReturn(old, p[2], r)
      BY <2>4, <3>6
    <3>8. IsReturn(grown, p[2], r)
      BY <3>2, <3>4, <3>5, <3>6, <3>7, ReturnStays
    <3> QED BY <2>4, <3>6, <3>8
  <2> QED BY <2>3, <2>4
<1>3. history' = history \/ \E t \in Tickers : Ingest(t)
  BY DEF Next, JobStep, vars, NextDay, Score, Open, FindPending, Compute, Upsert,
         Lose, Close, Die
<1> QED BY <1>1, <1>2, <1>3

(* What a job computes is true of the history it reads.                    *)
LEMMA ComputedAreTrue ==
  ASSUME TypeInv, NEW j \in Jobs, step[j] = "compute", NEW p \in Computable(j)
  PROVE  IsReturn(history[p[1]], p[2], ReturnOf(j, p))
<1>1. p \in pending[j] /\ pending[j] \subseteq Pairs /\ ReturnOf(j, p) \in Found(j, p)
  BY DEF Computable, ReturnOf, TypeInv, TypeOK
<1>2. {q[2] : q \in pending[j]} \in SUBSET Nat /\ {q[2] : q \in pending[j]} # {}
  <2>1. pending[j] # {}
    BY DEF TypeInv, Shape
  <2> QED BY <1>1, <2>1, DaysAreNumbers
<1>3. PICK from \in Nat : from = Min({q[2] : q \in pending[j]})
  BY <1>2, MinIsLeast
<1>4. DOMAIN history[p[1]] \subseteq Nat /\ p[2] \in Nat
  BY <1>1, DaysAreNumbers
<1>5. ReturnOf(j, p) \in
        ForwardReturns([d \in {e \in DOMAIN history[p[1]] : e + Buffer >= from}
                          |-> history[p[1]][d]], p[2], Horizon)
  BY <1>1, <1>3 DEF Found, Window
<1> QED BY <1>4, <1>5, WindowSuffices

(* Initially there are none; a step computes, stores or keeps true ones.   *)
LEMMA TrueStep == TypeInv /\ TrueInv /\ [Next]_vars => TrueInv'
<1> SUFFICES ASSUME TypeInv, TrueInv, [Next]_vars PROVE TrueInv'
  OBVIOUS
<1>0. /\ DOMAIN labels \subseteq Pairs
      /\ \A j \in Jobs : DOMAIN batch[j] \subseteq Pairs
  BY DEF TypeInv, TypeOK
<1>1. \A p \in DOMAIN labels : IsReturn(history'[p[1]], p[2], labels[p].return)
  BY <1>0, HistoryGrows DEF TrueInv, TrueTable
<1>2. \A j \in Jobs : \A p \in DOMAIN batch[j] :
        IsReturn(history'[p[1]], p[2], batch[j][p].return)
  BY <1>0, HistoryGrows DEF TrueInv, TrueBatches
<1>3. ASSUME UNCHANGED <<labels, batch>> PROVE TrueInv'
  BY <1>1, <1>2, <1>3 DEF TrueInv, TrueTable, TrueBatches
<1>4. ASSUME NEW j \in Jobs, NEW c \in Chunks(j), labels' = Upserted(j, c), UNCHANGED batch
      PROVE  TrueInv'
  <2>1. ASSUME NEW p \in DOMAIN labels'
        PROVE  IsReturn(history'[p[1]], p[2], labels'[p].return)
    <3>1. p \in DOMAIN labels \cup c /\ c \subseteq DOMAIN batch[j]
      BY <1>4, ChunkOfBatch
    <3>2. labels'[p] = IF p \in c THEN batch[j][p] ELSE labels[p]
      BY <1>4, <3>1, ChunkOfBatch
    <3>3. CASE p \in c
      <4>1. p \in DOMAIN batch[j] /\ labels'[p] = batch[j][p]
        BY <3>1, <3>2, <3>3
      <4> QED BY <1>2, <4>1
    <3>4. CASE p \notin c
      <4>1. p \in DOMAIN labels /\ labels'[p] = labels[p]
        BY <3>1, <3>2, <3>4
      <4> QED BY <1>1, <4>1
    <3> QED BY <3>3, <3>4
  <2> QED BY <1>2, <1>4, <2>1 DEF TrueInv, TrueTable, TrueBatches
<1>5. ASSUME NEW j \in Jobs, Open(j) PROVE TrueInv'
  <2>1. \A i \in Jobs : DOMAIN batch'[i] = {} \/ batch'[i] = batch[i]
    BY <1>5 DEF Open, TypeInv, Shape
  <2>2. labels' = labels
    BY <1>5 DEF Open
  <2> QED BY <1>1, <1>2, <2>1, <2>2 DEF TrueInv, TrueTable, TrueBatches
<1>6. ASSUME NEW j \in Jobs, Compute(j) PROVE TrueInv'
  <2>1. labels' = labels /\ history' = history /\ step[j] = "compute"
        /\ batch' = [batch EXCEPT ![j] = [p \in Computable(j) |-> LabelOf(j, p)]]
    BY <1>6 DEF Compute
  <2>2. ASSUME NEW i \in Jobs, NEW p \in DOMAIN batch'[i]
        PROVE  IsReturn(history[p[1]], p[2], batch'[i][p].return)
    <3>1. CASE i = j
      <4>1. batch'[j] = [q \in Computable(j) |-> LabelOf(j, q)]
        BY <2>1 DEF TypeInv, Shape
      <4>2. p \in Computable(j) /\ batch'[i][p].return = ReturnOf(j, p)
        BY <2>2, <3>1, <4>1 DEF LabelOf
      <4> QED BY <2>1, <4>2, ComputedAreTrue
    <3>2. CASE i # j
      <4>1. batch'[i] = batch[i]
        BY <2>1, <3>2 DEF TypeInv, Shape
      <4> QED BY <2>2, <4>1 DEF TrueInv, TrueBatches
    <3> QED BY <3>1, <3>2
  <2> QED BY <1>1, <2>1, <2>2 DEF TrueInv, TrueTable, TrueBatches
<1>7. ASSUME NEW j \in Jobs, Upsert(j) PROVE TrueInv'
  BY <1>4, <1>7 DEF Upsert
<1>8. ASSUME NEW j \in Jobs, Lose(j) PROVE TrueInv'
  BY <1>3, <1>4, <1>8 DEF Lose
<1>9. ASSUME NEW j \in Jobs, FindPending(j) \/ Close(j) \/ Die(j) PROVE TrueInv'
  BY <1>3, <1>9 DEF FindPending, Close, Die
<1>10. CASE NextDay \/ (\E t \in Tickers : Ingest(t)) \/ (\E s \in ScoreDates : Score(s))
  BY <1>3, <1>10 DEF NextDay, Ingest, Score
<1>11. CASE UNCHANGED vars
  BY <1>3, <1>11 DEF vars
<1> QED BY <1>5, <1>6, <1>7, <1>8, <1>9, <1>10, <1>11 DEF Next, JobStep

(* "The label is a pure function of price history": a label stays that of  *)
(* the Horizon trading days after its score date, whenever it was computed,*)
(* whatever has been ingested since and however it was stored.             *)
THEOREM LabelsAreTrueTheorem == Spec => []LabelsAreTrue
<1>1. Init => TrueInv
  BY DEF Init, TrueInv, TrueTable, TrueBatches
<1>2. Spec => [](TypeInv /\ TrueInv)
  BY <1>1, TypeInit, TypeStep, TrueStep, PTL DEF Spec
<1>3. TrueInv => LabelsAreTrue
  BY TrueTableIsTrue DEF TrueInv
<1> QED BY <1>2, <1>3, PTL
-----------------------------------------------------------------------------
(* What is gone from todo is in the table, with the return of the batch.   *)
Stored(j, p) == p \in DOMAIN labels /\ labels[p].return = batch[j][p].return
StoredInv ==
  \A j \in Jobs :
    /\ recorded[j] = "complete" => step[j] = "idle"
    /\ step[j] \in {"find", "compute"} => DOMAIN batch[j] = {}
    /\ (recorded[j] = "complete" \/ step[j] \in {"upsert", "close"}) =>
         \A p \in DOMAIN batch[j] : p \in todo[j] \/ Stored(j, p)

(* A chunk of one job leaves what another has stored: labels of a pair are *)
(* of one return, for both are true of the history.                        *)
LEMMA UpsertKeepsStored ==
  ASSUME TypeInv, TrueInv, NEW j \in Jobs, NEW c \in Chunks(j),
         labels' = Upserted(j, c), UNCHANGED batch
  PROVE  /\ \A p \in c : Stored(j, p)'
         /\ \A i \in Jobs : \A p \in DOMAIN batch[i] : Stored(i, p) => Stored(i, p)'
<1>0. /\ c \subseteq DOMAIN batch[j] /\ DOMAIN labels' = DOMAIN labels \cup c
      /\ \A p \in DOMAIN labels \cup c :
           labels'[p] = IF p \in c THEN batch[j][p] ELSE labels[p]
  BY ChunkOfBatch
<1>1. \A p \in c : Stored(j, p)'
  BY <1>0 DEF Stored
<1>2. ASSUME NEW i \in Jobs, NEW p \in DOMAIN batch[i], Stored(i, p)
      PROVE  Stored(i, p)'
  <2>1. CASE p \notin c
    BY <1>0, <1>2, <2>1 DEF Stored
  <2>2. CASE p \in c
    <3>1. p \in DOMAIN batch[j] /\ p \in Pairs
      BY <1>0, <2>2 DEF TypeInv, TypeOK
    <3>2. /\ IsReturn(history[p[1]], p[2], batch[j][p].return)
          /\ IsReturn(history[p[1]], p[2], batch[i][p].return)
      BY <3>1 DEF TrueInv, TrueBatches
    <3>3. DOMAIN history[p[1]] \subseteq 0 .. today /\ today \in Nat /\ p[2] \in Nat
      BY <3>1, DaysAreNumbers, DaysAssumption DEF TypeInv, TypeOK
    <3>4. batch[j][p].return = batch[i][p].return
      BY <3>2, <3>3, ReturnIsUnique
    <3> QED BY <1>0, <2>2, <3>4 DEF Stored
  <2> QED BY <2>1, <2>2
<1> QED BY <1>1, <1>2

LEMMA StoredStep == TypeInv /\ TrueInv /\ StoredInv /\ [Next]_vars => StoredInv'
<1> SUFFICES ASSUME TypeInv, TrueInv, StoredInv, [Next]_vars PROVE StoredInv'
  OBVIOUS
<1>1. CASE UNCHANGED <<labels, batch, todo, step, recorded>>
  BY <1>1 DEF StoredInv, Stored
<1>2. ASSUME NEW j \in Jobs, Open(j) PROVE StoredInv'
  BY <1>2 DEF Open, StoredInv, Stored, TypeInv, TypeOK, Shape
<1>3. ASSUME NEW j \in Jobs, FindPending(j) PROVE StoredInv'
  BY <1>3 DEF FindPending, StoredInv, Stored, TypeInv, TypeOK, Shape
<1>4. ASSUME NEW j \in Jobs, Compute(j) PROVE StoredInv'
  <2>1. /\ UNCHANGED <<labels, recorded>> /\ step[j] = "compute"
        /\ DOMAIN batch'[j] = Computable(j) /\ todo'[j] = Computable(j)
        /\ step'[j] \in {"close", "upsert"}
    BY <1>4 DEF Compute, TypeInv, TypeOK, Shape
  <2>2. \A i \in Jobs : i # j =>
          batch'[i] = batch[i] /\ todo'[i] = todo[i] /\ step'[i] = step[i]
    BY <1>4 DEF Compute, TypeInv, TypeOK, Shape
  <2>3. recorded[j] # "complete"
    BY <2>1 DEF StoredInv
  <2> QED BY <2>1, <2>2, <2>3 DEF StoredInv, Stored
<1>5. ASSUME NEW j \in Jobs, Upsert(j) PROVE StoredInv'
  <2>1. PICK c \in Chunks(j) :
          /\ labels' = Upserted(j, c)
          /\ todo' = [todo EXCEPT ![j] = @ \ c]
          /\ step' = [step EXCEPT ![j] = IF c = todo[j] THEN "close" ELSE "upsert"]
    BY <1>5 DEF Upsert
  <2>2. UNCHANGED <<batch, recorded>> /\ step[j] = "upsert"
    BY <1>5 DEF Upsert
  <2>3. todo'[j] = todo[j] \ c /\ step'[j] \in {"close", "upsert"}
    BY <2>1 DEF TypeInv, TypeOK, Shape
  <2>4. \A i \in Jobs : i # j => todo'[i] = todo[i] /\ step'[i] = step[i]
    BY <2>1 DEF TypeInv, TypeOK, Shape
  <2>5. /\ \A p \in c : Stored(j, p)'
        /\ \A i \in Jobs : \A p \in DOMAIN batch[i] : Stored(i, p) => Stored(i, p)'
    BY <2>1, <2>2, UpsertKeepsStored
  <2>6. ASSUME NEW i \in Jobs
        PROVE  /\ recorded'[i] = "complete" => step'[i] = "idle"
               /\ step'[i] \in {"find", "compute"} => DOMAIN batch'[i] = {}
               /\ (recorded'[i] = "complete" \/ step'[i] \in {"upsert", "close"}) =>
                    \A p \in DOMAIN batch'[i] : p \in todo'[i] \/ Stored(i, p)'
    <3>1. CASE i = j
      BY <2>2, <2>3, <2>5, <3>1 DEF StoredInv
    <3>2. CASE i # j
      BY <2>2, <2>4, <2>5, <3>2 DEF StoredInv
    <3> QED BY <3>1, <3>2
  <2> QED BY <2>6 DEF StoredInv
<1>6. ASSUME NEW j \in Jobs, Lose(j) PROVE StoredInv'
  <2>1. UNCHANGED <<batch, recorded>> /\ step[j] = "upsert"
    BY <1>6 DEF Lose
  <2>2. \A i \in Jobs : \A p \in DOMAIN batch[i] : Stored(i, p) => Stored(i, p)'
    <3>1. CASE UNCHANGED labels
      BY <2>1, <3>1 DEF Stored
    <3>2. ASSUME NEW c \in Chunks(j), labels' = Upserted(j, c)
          PROVE  \A i \in Jobs : \A p \in DOMAIN batch[i] : Stored(i, p) => Stored(i, p)'
      BY <2>1, <3>2, UpsertKeepsStored
    <3> QED BY <1>6, <3>1, <3>2 DEF Lose
  <2>3. \/ step'[j] = "idle"
        \/ step'[j] = step[j] /\ todo'[j] = todo[j]
    BY <1>6 DEF Lose, TypeInv, TypeOK, Shape
  <2>4. \A i \in Jobs : i # j => todo'[i] = todo[i] /\ step'[i] = step[i]
    BY <1>6 DEF Lose, TypeInv, TypeOK, Shape
  <2>5. recorded[j] # "complete"
    BY <2>1 DEF StoredInv
  <2> QED BY <2>1, <2>2, <2>3, <2>4, <2>5 DEF StoredInv
<1>7. ASSUME NEW j \in Jobs, Close(j) PROVE StoredInv'
  BY <1>7 DEF Close, StoredInv, Stored, TypeInv, TypeOK, Shape
<1>8. ASSUME NEW j \in Jobs, Die(j) PROVE StoredInv'
  <2>1. UNCHANGED <<labels, batch>> /\ step'[j] = "idle" /\ recorded'[j] # "complete"
    BY <1>8 DEF Die, TypeInv, TypeOK
  <2>2. \A i \in Jobs : i # j =>
          todo'[i] = todo[i] /\ step'[i] = step[i] /\ recorded'[i] = recorded[i]
    BY <1>8 DEF Die, TypeInv, TypeOK, Shape
  <2> QED BY <2>1, <2>2 DEF StoredInv, Stored
<1>9. CASE NextDay \/ (\E t \in Tickers : Ingest(t)) \/ (\E s \in ScoreDates : Score(s))
  BY <1>1, <1>9 DEF NextDay, Ingest, Score
<1>10. CASE UNCHANGED vars
  BY <1>1, <1>10 DEF vars
<1> QED BY <1>2, <1>3, <1>4, <1>5, <1>6, <1>7, <1>8, <1>9, <1>10 DEF Next, JobStep

(* A run recorded as complete has stored every label it computed, through  *)
(* however many chunks, lost connections and overlapping runs.             *)
THEOREM CompleteMeansStoredTheorem == Spec => []CompleteMeansStored
<1>1. Init => TrueInv /\ StoredInv
  BY DEF Init, TrueInv, TrueTable, TrueBatches, StoredInv
<1>2. Spec => [](TypeInv /\ TrueInv /\ StoredInv)
  BY <1>1, TypeInit, TypeStep, TrueStep, StoredStep, PTL DEF Spec
<1>3. TypeInv /\ StoredInv => CompleteMeansStored
  <2> SUFFICES ASSUME TypeInv, StoredInv, NEW j \in Jobs, recorded[j] = "complete",
                      NEW p \in DOMAIN batch[j]
               PROVE  Stored(j, p)
    BY DEF CompleteMeansStored, Stored
  <2>1. step[j] = "idle" /\ todo[j] = {}
    BY DEF StoredInv, TypeInv, TypeOK
  <2> QED BY <2>1 DEF StoredInv
<1> QED BY <1>2, <1>3, PTL
-----------------------------------------------------------------------------
(* Arithmetic on fractions, without dividing.                              *)
LEMMA TimesMono ==
  ASSUME NEW x \in Nat, NEW y \in Nat, NEW z \in Nat, x <= y
  PROVE  x * z <= y * z
  BY SMT

LEMMA TimesCancel ==
  ASSUME NEW x \in Nat, NEW y \in Nat, NEW z \in Nat \ {0}, x * z <= y * z
  PROVE  x <= y
  BY SMT

LEMMA TimesSwap ==
  ASSUME NEW x \in Nat, NEW y \in Nat, NEW z \in Nat
  PROVE  (x * y) * z = (x * z) * y
  BY SMT

LEMMA FractionsAreOrdered ==
  ASSUME NEW a \in Nat, NEW b \in Nat, NEW c \in Nat, NEW d \in Nat \ {0},
         NEW e \in Nat, NEW f \in Nat,
         a * d <= c * b, c * f <= e * d
  PROVE  a * f <= e * b
<1>0. /\ a * d \in Nat /\ c * b \in Nat /\ c * f \in Nat
      /\ e * d \in Nat /\ a * f \in Nat /\ e * b \in Nat
  OBVIOUS
<1>1. (a * d) * f <= (c * b) * f /\ (c * f) * b <= (e * d) * b
  BY <1>0, TimesMono
<1>2. (a * d) * f = (a * f) * d /\ (c * b) * f = (c * f) * b /\ (e * d) * b = (e * b) * d
  BY TimesSwap
<1>3. (a * f) * d \in Nat /\ (c * f) * b \in Nat /\ (e * b) * d \in Nat
  BY <1>0
<1>4. (a * f) * d <= (e * b) * d
  BY <1>1, <1>2, <1>3
<1> QED BY <1>0, <1>4, TimesCancel

(* Returns of a price that is not 0 are totally preordered.                *)
RealReturn == {r \in Return : r.start # 0}

LEMMA ReturnsAreOrdered ==
  /\ \A r, q \in RealReturn : ~ (Better(r, q) /\ Better(q, r))
  /\ \A r, q, x \in RealReturn : ~ Better(r, q) /\ ~ Better(q, x) => ~ Better(r, x)
<1>1. \A r \in RealReturn : r.end \in Nat /\ r.start \in Nat \ {0}
  BY PricesAssumption DEF RealReturn
<1>2. \A r, q \in RealReturn : r.end * q.start \in Nat
  BY <1>1
<1>3. \A r, q \in RealReturn : ~ Better(r, q) <=> r.end * q.start <= q.end * r.start
  BY <1>2 DEF Better
<1>4. \A r, q \in RealReturn : ~ (Better(r, q) /\ Better(q, r))
  BY <1>2 DEF Better
<1>5. ASSUME NEW r \in RealReturn, NEW q \in RealReturn, NEW x \in RealReturn,
             ~ Better(r, q), ~ Better(q, x)
      PROVE  ~ Better(r, x)
  <2>1. r.end * q.start <= q.end * r.start /\ q.end * x.start <= x.end * q.start
    BY <1>3, <1>5
  <2>2. r.end * x.start <= x.end * r.start
    BY <1>1, <2>1, FractionsAreOrdered
  <2> QED BY <1>3, <2>2
<1> QED BY <1>4, <1>5

(* A ticker that did as well as an outperformer is one, ties included.     *)
LEMMA RankIsMonotone ==
  ASSUME NEW C, IsFiniteSet(C), NEW F \in [C -> RealReturn], NEW t \in C, NEW u \in C,
         ~ Better(F[t], F[u]), Outperforms(t, F)
  PROVE  Outperforms(u, F)
<1> DEFINE beaten(x) == {v \in DOMAIN F : Better(F[x], F[v])}
           equal(x) == {v \in DOMAIN F : ~ Better(F[x], F[v]) /\ ~ Better(F[v], F[x])}
           score(x) == 2 * Cardinality(beaten(x)) + Cardinality(equal(x)) + 1
<1>1. /\ \A v, w \in C : ~ (Better(F[v], F[w]) /\ Better(F[w], F[v]))
      /\ \A v, w, x \in C :
           ~ Better(F[v], F[w]) /\ ~ Better(F[w], F[x]) => ~ Better(F[v], F[x])
  BY ReturnsAreOrdered
<1>2. DOMAIN F = C
  OBVIOUS
<1>3. ASSUME NEW x \in C
      PROVE  /\ IsFiniteSet(beaten(x)) /\ IsFiniteSet(equal(x))
             /\ Cardinality(beaten(x)) \in Nat /\ Cardinality(equal(x)) \in Nat
  <2>1. beaten(x) \subseteq C /\ equal(x) \subseteq C
    BY <1>2
  <2> QED BY <2>1, FS_Subset, FS_CardinalityType
<1>4. score(t) <= score(u)
  <2>1. CASE Better(F[u], F[t])
    <3>1. beaten(t) \cup equal(t) \subseteq beaten(u)
      BY <1>1, <1>2, <2>1
    <3>2. beaten(t) \cap equal(t) = {}
      OBVIOUS
    <3>3. Cardinality(beaten(t) \cup equal(t)) = Cardinality(beaten(t)) + Cardinality(equal(t))
      <4> HIDE DEF beaten, equal
      <4>1. IsFiniteSet(beaten(t)) /\ IsFiniteSet(equal(t))
            /\ Cardinality(beaten(t)) \in Nat /\ Cardinality(equal(t)) \in Nat
        BY <1>3
      <4>2. Cardinality(beaten(t) \cap equal(t)) = 0
        BY <3>2, FS_EmptySet
      <4>3. Cardinality(beaten(t) \cup equal(t))
              = Cardinality(beaten(t)) + Cardinality(equal(t))
                - Cardinality(beaten(t) \cap equal(t))
        BY <4>1, FS_Union
      <4> QED BY <4>1, <4>2, <4>3
    <3>4. Cardinality(beaten(t) \cup equal(t)) <= Cardinality(beaten(u))
          /\ Cardinality(beaten(t)) <= Cardinality(beaten(u))
      BY <1>3, <3>1, FS_Subset
    <3> HIDE DEF beaten, equal
    <3> QED BY <1>3, <3>3, <3>4
  <2>2. CASE ~ Better(F[u], F[t])
    <3>1. beaten(t) = beaten(u) /\ equal(t) = equal(u)
      BY <1>1, <1>2, <2>2
    <3> HIDE DEF beaten, equal
    <3> QED BY <1>3, <3>1
  <2> QED BY <2>1, <2>2
<1>5. \A x \in C : Outperforms(x, F) <=>
        TopDen * score(x) >= TopNum * 2 * Cardinality(DOMAIN F)
  BY DEF Outperforms
<1>6. Cardinality(DOMAIN F) \in Nat
  BY <1>2, FS_CardinalityType
<1>7. score(t) \in Nat /\ score(u) \in Nat
  <2> HIDE DEF beaten, equal
  <2> QED BY <1>3
<1> HIDE DEF score
<1>8. score(t) * TopDen <= score(u) * TopDen
  BY <1>4, <1>7, TimesMono, LabelAssumption
<1>9. PICK m \in Nat : m = TopNum * 2 * Cardinality(DOMAIN F)
  BY <1>6, LabelAssumption
<1>10. TopDen * score(t) >= m
  BY <1>5, <1>9
<1>11. TopDen * score(t) = score(t) * TopDen /\ TopDen * score(u) = score(u) * TopDen
       /\ score(t) * TopDen \in Nat /\ score(u) * TopDen \in Nat
  BY <1>7, LabelAssumption
<1>12. TopDen * score(u) >= m
  BY <1>8, <1>9, <1>10, <1>11
<1> QED BY <1>5, <1>9, <1>12
-----------------------------------------------------------------------------
(* F gives the tickers label l was ranked with their true returns, and l is*)
(* the outcome for pair p.                                                 *)
Ranks(F, p, l) ==
  /\ p[1] \in l.cohort /\ F[p[1]] = l.return
  /\ \A t \in l.cohort : IsReturn(history[t], p[2], F[t])
  /\ l.outperform <=> Outperforms(p[1], F)
Ranked(p, l) == \E F \in [l.cohort -> RealReturn] : Ranks(F, p, l)

RankedInv ==
  /\ \A p \in DOMAIN labels : Ranked(p, labels[p])
  /\ \A j \in Jobs : \A p \in DOMAIN batch[j] : Ranked(p, batch[j][p])

LEMMA RankedStays ==
  ASSUME TypeInv, [Next]_vars, NEW p \in Pairs, NEW l \in Label, Ranked(p, l)
  PROVE  Ranked(p, l)'
<1>1. PICK F \in [l.cohort -> RealReturn] : Ranks(F, p, l)
  BY DEF Ranked
<1>2. ASSUME NEW t \in l.cohort PROVE IsReturn(history'[t], p[2], F[t])
  <2>1. <<t, p[2]>> \in Pairs /\ <<t, p[2]>>[1] = t /\ <<t, p[2]>>[2] = p[2]
    OBVIOUS
  <2>2. IsReturn(history[t], p[2], F[t])
    BY <1>1 DEF Ranks
  <2>3. PICK q \in Pairs : q = <<t, p[2]>>
    BY <2>1
  <2>4. q[1] = t /\ q[2] = p[2]
    BY <2>3
  <2>5. IsReturn(history'[q[1]], q[2], F[t])
    BY <2>2, <2>4, HistoryGrows
  <2> QED BY <2>4, <2>5
<1>3. Ranks(F, p, l)'
  BY <1>1, <1>2 DEF Ranks
<1> QED BY <1>3 DEF Ranked

(* A job ranks the true returns of the tickers it found for the date.      *)
LEMMA ComputedAreRanked ==
  ASSUME TypeInv, NEW j \in Jobs, step[j] = "compute", NEW p \in Computable(j)
  PROVE  Ranked(p, LabelOf(j, p))
<1>1. Computable(j) \subseteq Pairs
  BY LabelsAreLabels DEF TypeInv, TypeOK
<1>2. ASSUME NEW q \in Computable(j)
      PROVE  ReturnOf(j, q) \in RealReturn /\ IsReturn(history[q[1]], q[2], ReturnOf(j, q))
  <2>1. ReturnOf(j, q) \in Found(j, q)
    BY DEF Computable, ReturnOf
  <2>2. ReturnOf(j, q) \in Return
    BY <1>1, <2>1, FoundAreReturns
  <2>3. ReturnOf(j, q).start # 0
    <3>1. PICK rows : rows = Window(j, q[1])
      OBVIOUS
    <3>2. ReturnOf(j, q) \in ForwardReturns(rows, q[2], Horizon)
      BY <2>1, <3>1 DEF Found
    <3>3. PICK w \in (DOMAIN rows) \X (DOMAIN rows) :
            rows[w[1]] # 0 /\ ReturnOf(j, q) = [start |-> rows[w[1]], end |-> rows[w[2]]]
      BY <3>2 DEF ForwardReturns
    <3> QED BY <3>3
  <2> QED BY <2>2, <2>3, ComputedAreTrue DEF RealReturn
<1> DEFINE s == p[2]
           C == Cohort(j, s)
           F == [t \in C |-> ReturnOf(j, <<t, s>>)]
<1>3. p = <<p[1], s>> /\ p[1] \in C
  BY <1>1 DEF Cohort
<1>4. ASSUME NEW t \in C
      PROVE  F[t] \in RealReturn /\ IsReturn(history[t], s, F[t])
  <2>1. PICK q \in Computable(j) : q = <<t, s>>
    BY DEF Cohort
  <2>2. q[1] = t /\ q[2] = s /\ F[t] = ReturnOf(j, q)
    BY <2>1
  <2> QED BY <1>2, <2>2
<1>5. F[p[1]] = ReturnOf(j, p)
  BY <1>3
<1>6. /\ LabelOf(j, p).return = ReturnOf(j, p)
      /\ LabelOf(j, p).cohort = C
      /\ LabelOf(j, p).outperform = Outperforms(p[1], F)
  BY DEF LabelOf
<1>7. F \in [C -> RealReturn]
  BY <1>4
<1> HIDE DEF F, C
<1>8. Ranks(F, p, LabelOf(j, p))
  BY <1>3, <1>4, <1>5, <1>6 DEF Ranks
<1> QED BY <1>6, <1>7, <1>8 DEF Ranked

LEMMA RankedStep == TypeInv /\ RankedInv /\ [Next]_vars => RankedInv'
<1> SUFFICES ASSUME TypeInv, RankedInv, [Next]_vars PROVE RankedInv'
  OBVIOUS
<1>0. /\ \A p \in DOMAIN labels : p \in Pairs /\ labels[p] \in Label
      /\ \A j \in Jobs : \A p \in DOMAIN batch[j] : p \in Pairs /\ batch[j][p] \in Label
  BY DEF TypeInv, TypeOK
<1>1. ASSUME NEW p \in DOMAIN labels, NEW l, l = labels[p] PROVE Ranked(p, l)'
  BY <1>0, <1>1, RankedStays DEF RankedInv
<1>2. ASSUME NEW j \in Jobs, NEW p \in DOMAIN batch[j], NEW l, l = batch[j][p]
      PROVE  Ranked(p, l)'
  BY <1>0, <1>2, RankedStays DEF RankedInv
<1>3. ASSUME NEW p, NEW l, l = labels'[p],
             \/ p \in DOMAIN labels /\ l = labels[p]
             \/ \E j \in Jobs : p \in DOMAIN batch[j] /\ l = batch[j][p]
      PROVE  Ranked(p, labels[p])'
  <2>1. Ranked(p, l)'
    BY <1>1, <1>2, <1>3
  <2> QED BY <1>3, <2>1 DEF Ranked, Ranks
<1>4. ASSUME \A p \in DOMAIN labels' :
               \/ p \in DOMAIN labels /\ labels'[p] = labels[p]
               \/ \E j \in Jobs : p \in DOMAIN batch[j] /\ labels'[p] = batch[j][p]
      PROVE  \A p \in DOMAIN labels' : Ranked(p, labels[p])'
  BY <1>3, <1>4
<1>5. ASSUME NEW j \in Jobs, NEW p \in DOMAIN batch'[j],
             p \in DOMAIN batch[j] /\ batch'[j][p] = batch[j][p]
      PROVE  Ranked(p, batch[j][p])'
  <2>1. PICK l : l = batch[j][p]
    OBVIOUS
  <2>2. Ranked(p, l)'
    BY <1>2, <1>5, <2>1
  <2>3. batch'[j][p] = l
    BY <1>5, <2>1
  <2> QED BY <2>2, <2>3 DEF Ranked, Ranks
<1>6. ASSUME NEW j \in Jobs, Compute(j) PROVE RankedInv'
  <2>1. labels' = labels /\ history' = history /\ step[j] = "compute"
        /\ batch' = [batch EXCEPT ![j] = [p \in Computable(j) |-> LabelOf(j, p)]]
    BY <1>6 DEF Compute
  <2>2. ASSUME NEW i \in Jobs, NEW p \in DOMAIN batch'[i]
        PROVE  Ranked(p, batch[i][p])'
    <3>1. CASE i = j
      <4>1. batch'[j] = [q \in Computable(j) |-> LabelOf(j, q)]
        BY <2>1 DEF TypeInv, Shape
      <4>2. p \in Computable(j) /\ batch'[i][p] = LabelOf(j, p)
        BY <2>2, <3>1, <4>1
      <4>3. PICK l : l = LabelOf(j, p)
        OBVIOUS
      <4>4. Ranked(p, l)
        BY <2>1, <4>2, <4>3, ComputedAreRanked
      <4>5. batch'[i][p] = l
        BY <4>2, <4>3
      <4> QED BY <2>1, <4>4, <4>5 DEF Ranked, Ranks
    <3>2. CASE i # j
      <4>1. batch'[i] = batch[i]
        BY <2>1, <3>2 DEF TypeInv, Shape
      <4> QED BY <1>5, <2>2, <4>1
    <3> QED BY <3>1, <3>2
  <2>3. \A p \in DOMAIN labels' : Ranked(p, labels[p])'
    BY <1>4, <2>1
  <2> QED BY <2>2, <2>3 DEF RankedInv
<1>7. ASSUME \A j \in Jobs : batch'[j] = batch[j] \/ DOMAIN batch'[j] = {},
             \/ labels' = labels
             \/ \E j \in Jobs : \E c \in Chunks(j) : labels' = Upserted(j, c)
      PROVE  RankedInv'
  <2>1. \A j \in Jobs : \A p \in DOMAIN batch'[j] : Ranked(p, batch[j][p])'
    BY <1>5, <1>7
  <2>2. ASSUME NEW j \in Jobs, NEW c \in Chunks(j), labels' = Upserted(j, c),
               NEW p \in DOMAIN labels'
        PROVE  \/ p \in DOMAIN labels /\ labels'[p] = labels[p]
               \/ \E i \in Jobs : p \in DOMAIN batch[i] /\ labels'[p] = batch[i][p]
    <3>1. p \in DOMAIN labels \cup c /\ c \subseteq DOMAIN batch[j]
      BY <2>2, ChunkOfBatch
    <3>2. labels'[p] = IF p \in c THEN batch[j][p] ELSE labels[p]
      BY <2>2, <3>1, ChunkOfBatch
    <3> QED BY <3>1, <3>2
  <2>3. \A p \in DOMAIN labels' : Ranked(p, labels[p])'
    BY <1>4, <1>7, <2>2
  <2> QED BY <2>1, <2>3 DEF RankedInv
<1>8. ASSUME NEW j \in Jobs,
             Open(j) \/ FindPending(j) \/ Upsert(j) \/ Lose(j) \/ Close(j) \/ Die(j)
      PROVE  RankedInv'
  <2>1. \A i \in Jobs : batch'[i] = batch[i] \/ DOMAIN batch'[i] = {}
    BY <1>8 DEF Open, FindPending, Upsert, Lose, Close, Die, TypeInv, Shape
  <2>2. labels' = labels \/ \E c \in Chunks(j) : labels' = Upserted(j, c)
    BY <1>8 DEF Open, FindPending, Upsert, Lose, Close, Die
  <2> QED BY <1>7, <2>1, <2>2
<1>9. CASE NextDay \/ (\E t \in Tickers : Ingest(t)) \/ (\E s \in ScoreDates : Score(s))
  BY <1>7, <1>9 DEF NextDay, Ingest, Score
<1>10. CASE UNCHANGED vars
  BY <1>7, <1>10 DEF vars
<1> QED BY <1>6, <1>8, <1>9, <1>10 DEF Next, JobStep

(* Two labels ranked in one cohort were ranked by the same returns.        *)
LEMMA BetterInCohort ==
  ASSUME TypeInv, RankedInv, NEW p \in DOMAIN labels, NEW q \in DOMAIN labels,
         p[2] = q[2], labels[p].cohort = labels[q].cohort,
         labels[p].outperform, ~ labels[q].outperform
  PROVE  Better(labels[p].return, labels[q].return)
<1> DEFINE C == labels[p].cohort
<1>1. /\ p \in Pairs /\ q \in Pairs /\ C \subseteq Tickers
  BY DEF TypeInv, TypeOK
<1>2. PICK F \in [C -> RealReturn] : Ranks(F, p, labels[p])
  BY DEF RankedInv, Ranked
<1>3. PICK G \in [C -> RealReturn] : Ranks(G, q, labels[q])
  BY DEF RankedInv, Ranked
<1>4. ASSUME NEW t \in C PROVE F[t] = G[t]
  <2>1. IsReturn(history[t], p[2], F[t]) /\ IsReturn(history[t], p[2], G[t])
    BY <1>2, <1>3 DEF Ranks
  <2>2. DOMAIN history[t] \subseteq 0 .. today /\ today \in Nat /\ p[2] \in Nat
    BY <1>1, DaysAreNumbers, DaysAssumption DEF TypeInv, TypeOK
  <2> QED BY <2>1, <2>2, ReturnIsUnique
<1>5. F = G
  BY <1>4
<1>6. IsFiniteSet(C)
  BY <1>1, TickersAssumption, FS_Subset
<1>7. /\ p[1] \in C /\ q[1] \in C
      /\ F[p[1]] = labels[p].return /\ F[q[1]] = labels[q].return
      /\ Outperforms(p[1], F) /\ ~ Outperforms(q[1], F)
  BY <1>2, <1>3, <1>5 DEF Ranks
<1> HIDE DEF C
<1>8. Better(F[p[1]], F[q[1]])
  BY <1>6, <1>7, RankIsMonotone
<1> QED BY <1>7, <1>8

(* Of the tickers of a date that were ranked together, those labelled 1    *)
(* did better than those labelled 0, in whatever chunks, attempts and runs *)
(* the labels were stored.                                                 *)
THEOREM OutperformersDidBetterTheorem == Spec => []OutperformersDidBetter
<1>1. Init => RankedInv
  BY DEF Init, RankedInv
<1>2. Spec => [](TypeInv /\ RankedInv)
  BY <1>1, TypeInit, TypeStep, RankedStep, PTL DEF Spec
<1>3. TypeInv /\ RankedInv => OutperformersDidBetter
  BY BetterInCohort DEF OutperformersDidBetter
<1> QED BY <1>2, <1>3, PTL
-----------------------------------------------------------------------------
(* What IsReturn says is what the store calls concluded.                   *)
LEMMA ConcludesIsReturn ==
  ASSUME NEW rows, NEW s, NEW r
  PROVE  IsReturn(rows, s, r) <=> Store!Concludes(rows, s, r)
<1>1. \A S : Store!Cardinality(S) = Cardinality(S)
  BY DEF Store!Cardinality, Cardinality
<1> QED BY <1>1 DEF IsReturn, Store!Concludes

(* An upsert records returns that are true and changes none.               *)
LEMMA UpsertRecords ==
  ASSUME TypeInv, TrueInv, NEW j \in Jobs, NEW c \in Chunks(j),
         labels' = Upserted(j, c), UNCHANGED <<history, scored>>
  PROVE  Store!Record
<1> DEFINE R == [p \in DOMAIN labels |-> labels[p].return]
           S == [p \in DOMAIN labels' |-> labels'[p].return]
<1>1. /\ c \subseteq DOMAIN batch[j] /\ DOMAIN labels' = DOMAIN labels \cup c
      /\ \A p \in DOMAIN labels \cup c :
           labels'[p] = IF p \in c THEN batch[j][p] ELSE labels[p]
  BY ChunkOfBatch
<1>2. DOMAIN batch[j] \subseteq ScoredPairs /\ DOMAIN labels \subseteq Pairs
  BY DEF TypeInv, TypeOK, Shape
<1>3. \A p \in c : IsReturn(history[p[1]], p[2], batch[j][p].return)
  BY <1>1 DEF TrueInv, TrueBatches
<1>4. ASSUME NEW p \in DOMAIN labels PROVE labels'[p].return = labels[p].return
  <2>1. CASE p \notin c
    BY <1>1, <2>1
  <2>2. CASE p \in c
    <3>1. IsReturn(history[p[1]], p[2], labels[p].return)
      BY DEF TrueInv, TrueTable
    <3>2. p \in Pairs
      BY <1>2
    <3>3. p[1] \in Tickers /\ p[2] \in Nat
      BY <3>2, DaysAreNumbers
    <3>4. DOMAIN history[p[1]] \subseteq 0 .. today /\ today \in Nat
      BY <3>3, DaysAssumption DEF TypeInv, TypeOK
    <3>5. batch[j][p].return = labels[p].return
      BY <1>3, <2>2, <3>1, <3>3, <3>4, ReturnIsUnique
    <3> QED BY <1>1, <2>2, <3>5
  <2> QED BY <2>1, <2>2
<1>5. \A p \in DOMAIN R : p \in DOMAIN S /\ S[p] = R[p]
  BY <1>1, <1>4
<1>6. ASSUME NEW p \in DOMAIN S \ DOMAIN R
      PROVE  p[1] \in scored[p[2]] /\ Store!Concludes(history[p[1]], p[2], S[p])
  <2>1. p \in c /\ S[p] = batch[j][p].return
    BY <1>1
  <2>2. p \in ScoredPairs
    BY <1>1, <1>2, <2>1
  <2>3. IsReturn(history[p[1]], p[2], S[p])
    BY <1>3, <2>1
  <2>4. Store!Concludes(history[p[1]], p[2], S[p])
    BY <2>3, ConcludesIsReturn
  <2> QED BY <2>2, <2>4 DEF ScoredPairs
<1> QED BY <1>5, <1>6 DEF Store!Record

(* A fetch is a step of the store: its days come after those there are.    *)
LEMMA IngestTrades ==
  ASSUME TypeInv, NEW t \in Tickers, Ingest(t)
  PROVE  Store!Trade
<1>1. PICK new \in SUBSET {d \in MarketDays : d <= today /\ \A e \in DOMAIN history[t] : e < d} :
        \E f \in [new -> Prices] :
          history' = [history EXCEPT ![t] = [d \in DOMAIN @ \cup new |->
                        IF d \in new THEN f[d] ELSE @[d]]]
  BY DEF Ingest
<1>2. PICK f \in [new -> Prices] :
        history' = [history EXCEPT ![t] = [d \in DOMAIN @ \cup new |->
                      IF d \in new THEN f[d] ELSE @[d]]]
  BY <1>1
<1>3. DOMAIN history = Tickers /\ DOMAIN history[t] \subseteq 0 .. today /\ today \in Nat
  BY DaysAssumption DEF TypeInv, TypeOK, Shape
<1>4. history'[t] = [d \in DOMAIN history[t] \cup new |->
                      IF d \in new THEN f[d] ELSE history[t][d]]
  BY <1>2, <1>3
<1>5. ASSUME NEW d \in DOMAIN history[t] PROVE d \notin new
  <2>1. \A e \in new : d < e /\ e \in Nat
    BY <1>3, DaysAssumption
  <2> QED BY <1>3, <2>1
<1>6. \A u \in Tickers : u # t => history'[u] = history[u]
  BY <1>2, <1>3
<1>7. /\ \A d \in DOMAIN history[t] : d \in DOMAIN history'[t] /\ history'[t][d] = history[t][d]
      /\ \A d \in DOMAIN history'[t] \ DOMAIN history[t] : \A e \in DOMAIN history[t] : e < d
  BY <1>4, <1>5
<1>8. ASSUME NEW u \in Tickers
      PROVE  /\ \A d \in DOMAIN history[u] : d \in DOMAIN history'[u] /\ history'[u][d] = history[u][d]
             /\ \A d \in DOMAIN history'[u] \ DOMAIN history[u] : \A e \in DOMAIN history[u] : e < d
  BY <1>6, <1>7
<1>9. UNCHANGED <<scored, labels>>
  BY DEF Ingest
<1> QED BY <1>8, <1>9 DEF Store!Trade

LEMMA StoreInit == Init => Store!Init
  BY DEF Init, Store!Init

LEMMA StoreStep == TypeInv /\ TrueInv /\ [Next]_vars => [Store!Next]_(Store!vars)
<1> SUFFICES ASSUME TypeInv, TrueInv, [Next]_vars PROVE [Store!Next]_(Store!vars)
  OBVIOUS
<1>1. CASE UNCHANGED <<history, scored, labels>>
  BY <1>1 DEF Store!vars
<1>2. ASSUME NEW t \in Tickers, Ingest(t) PROVE Store!Next
  BY <1>2, IngestTrades DEF Store!Next
<1>3. ASSUME NEW s \in ScoreDates, Score(s) PROVE Store!Next
  <2>1. PICK active \in SUBSET Tickers : scored' = [scored EXCEPT ![s] = @ \cup active]
    BY <1>3 DEF Score
  <2>2. \A u \in ScoreDates : scored[u] \subseteq scored'[u]
    BY <2>1 DEF TypeInv, TypeOK
  <2>3. UNCHANGED <<history, labels>>
    BY <1>3 DEF Score
  <2> QED BY <2>2, <2>3 DEF Store!Next, Store!Score
<1>4. ASSUME NEW j \in Jobs, JobStep(j) PROVE [Store!Next]_(Store!vars)
  <2>1. UNCHANGED <<history, scored>>
    BY <1>4 DEF JobStep, Open, FindPending, Compute, Upsert, Lose, Close, Die
  <2>2. labels' = labels \/ \E c \in Chunks(j) : labels' = Upserted(j, c)
    BY <1>4 DEF JobStep, Open, FindPending, Compute, Upsert, Lose, Close, Die
  <2>3. CASE labels' = labels
    BY <1>1, <2>1, <2>3
  <2>4. ASSUME NEW c \in Chunks(j), labels' = Upserted(j, c) PROVE Store!Next
    BY <2>1, <2>4, UpsertRecords DEF Store!Next
  <2> QED BY <2>2, <2>3, <2>4
<1>5. CASE NextDay \/ UNCHANGED vars
  BY <1>1, <1>5 DEF NextDay, vars
<1> QED BY <1>2, <1>3, <1>4, <1>5 DEF Next

(* For any number of jobs that overlap, are retried and killed, the        *)
(* returns of the labels are the write-once table of LabelStore.           *)
THEOREM ImplementsStoreTheorem == Spec => ImplementsStore
<1>1. Init => TrueInv
  BY DEF Init, TrueInv, TrueTable, TrueBatches
<1>2. Spec => [](TypeInv /\ TrueInv)
  BY <1>1, TypeInit, TypeStep, TrueStep, PTL DEF Spec
<1> QED BY <1>2, StoreInit, StoreStep, PTL DEF Spec, ImplementsStore, Store!Spec
=============================================================================
