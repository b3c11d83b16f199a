--------------------------- MODULE TrainingLabels ---------------------------
(***************************************************************************)
(* Labelling for the ranking model: scripts/compute_training_labels.py and *)
(* src/scoring/compute_labels.py, beside the jobs that feed it. A label is *)
(* given to a ticker's score date once its forward window has concluded,   *)
(* in the price history as the job reads it; labels are committed in       *)
(* chunks, over connections that may be lost, by a process that may be     *)
(* killed, and a later run goes on with what is still pending.             *)
(*                                                                         *)
(* Prices are small numbers; a forward return is the pair of its two       *)
(* prices, and only the order of returns matters. A provider that answers  *)
(* twice for a day answers the same, and no stored price is NULL.          *)
(***************************************************************************)
EXTENDS Naturals, FiniteSets, FiniteSetsExt

CONSTANTS
  Tickers,
  Prices,                (* COALESCE(adj_close, close)                      *)
  Jobs,                  (* The labelling jobs that may run at once.        *)
  Horizon,               (* LABEL_HORIZON_TRADING_DAYS                      *)
  Buffer,                (* Days read before the first pending date: 30.    *)
  TopNum, TopDen,        (* TOP_DECILE_THRESHOLD is TopNum / TopDen.        *)
  ChunkSize,             (* UPSERT_CHUNK_SIZE                               *)
  MaxRetries,            (* UPSERT_MAX_RETRIES                              *)
  LastDay,               (* Bound: the last day.                            *)
  MarketDays,            (* The days on which there are prices.             *)
  ScoreDates             (* Bound: the dates that are scored.               *)

ASSUME PricesAssumption == Prices \subseteq Nat
ASSUME TickersAssumption == IsFiniteSet(Tickers)
ASSUME LabelAssumption ==
  /\ Horizon \in Nat \ {0} /\ Buffer \in Nat
  /\ TopNum \in Nat /\ TopDen \in Nat \ {0}
  /\ ChunkSize \in Nat \ {0} /\ MaxRetries \in Nat \ {0}
ASSUME DaysAssumption ==
  LastDay \in Nat /\ ScoreDates \subseteq 0 .. LastDay /\ MarketDays \subseteq 0 .. LastDay

VARIABLES
  today,
  history,     (* price_history: by ticker, the prices of the days it has.  *)
  scored,      (* factor_scores: by score date, the tickers with a row.     *)
  labels,      (* training_labels of the horizon, by ticker and score date. *)
  step,        (* By job: where it is.                                      *)
  pending,     (* By job: the pairs it found without a label.               *)
  batch,       (* By job: the labels it computed.                           *)
  todo,        (* By job: the pairs of the batch it has not yet committed.  *)
  attempt,     (* By job: the failed attempts at the current chunk.         *)
  connected,   (* By job: whether the connection JobRun holds is open.      *)
  recorded     (* By job: the status of its last row of job_runs.           *)

feedVars == <<today, history, scored>>
jobVars == <<step, pending, batch, todo, attempt, connected, recorded>>
vars == <<feedVars, labels, jobVars>>

Days == 0 .. LastDay
Pairs == Tickers \X ScoreDates
Return == [start : Prices, end : Prices]
Label == [return : Return,
          outperform : BOOLEAN,
          cohort : SUBSET Tickers]    (* The tickers it was ranked with.    *)

Empty == [x \in {} |-> x]

Init ==
  /\ today = 0
  /\ history = [t \in Tickers |-> Empty]
  /\ scored = [s \in ScoreDates |-> {}]
  /\ labels = Empty
  /\ step = [j \in Jobs |-> "idle"]
  /\ pending = [j \in Jobs |-> {}]
  /\ batch = [j \in Jobs |-> Empty]
  /\ todo = [j \in Jobs |-> {}]
  /\ attempt = [j \in Jobs |-> 0]
  /\ connected = [j \in Jobs |-> FALSE]
  /\ recorded = [j \in Jobs |-> "none"]
-----------------------------------------------------------------------------
(* What feeds the job.                                                     *)

NextDay ==
  /\ today < LastDay
  /\ today' = today + 1
  /\ UNCHANGED <<history, scored, labels, jobVars>>

(* A fetch adds days after those the ticker has: all of them, or some if   *)
(* it did not trade or its provider had no bar.                            *)
Ingest(t) ==
  /\ \E new \in (SUBSET {d \in MarketDays : d <= today /\ \A e \in DOMAIN history[t] : e < d}) \ {{}} :
       \E p \in [new -> Prices] :
         history' = [history EXCEPT ![t] = [d \in DOMAIN @ \cup new |->
                       IF d \in new THEN p[d] ELSE @[d]]]
  /\ UNCHANGED <<today, scored, labels, jobVars>>

(* Factor scoring writes rows for the tickers active now, for today or for *)
(* a date in the past (--score-date, the backfill); rows are never deleted.*)
Score(s) ==
  /\ s <= today
  /\ \E active \in (SUBSET Tickers) \ {{}} :
       /\ ~ (active \subseteq scored[s])
       /\ scored' = [scored EXCEPT ![s] = @ \cup active]
  /\ UNCHANGED <<today, history, labels, jobVars>>
-----------------------------------------------------------------------------
(* d is the last day of rows at or before s.                               *)
IsLastBy(rows, d, s) == d <= s /\ \A e \in DOMAIN rows : e <= s => e <= d

(* A window of calendar days.                                              *)
ForwardReturnsByCalendar(rows, s, h) ==
  {[start |-> rows[w[1]], end |-> rows[w[2]]] :
     w \in {v \in (DOMAIN rows) \X (DOMAIN rows) :
             /\ IsLastBy(rows, v[1], s) /\ IsLastBy(rows, v[2], s + h)
             /\ \E e \in DOMAIN rows : s + h <= e
             /\ rows[v[1]] # 0}}

(* _forward_return_for_ticker: from the last row at or before the score    *)
(* date to the horizon-th row after it. The set is empty for None.         *)
ForwardReturns(rows, s, h) ==
  {[start |-> rows[w[1]], end |-> rows[w[2]]] :
     w \in {v \in (DOMAIN rows) \X (DOMAIN rows) :
             /\ IsLastBy(rows, v[1], s)
             /\ s < v[2] /\ Cardinality({e \in DOMAIN rows : s < e /\ e <= v[2]}) = h
             /\ rows[v[1]] # 0}}

Better(r, q) == r.end * q.start > q.end * r.start

(* rank(method="first"): of equal returns one is ranked above the other.   *)
OutperformsByOrder(t, returns) ==
  LET beaten == {u \in DOMAIN returns : Better(returns[t], returns[u])}
      equal == {u \in DOMAIN returns : ~ Better(returns[t], returns[u])
                                       /\ ~ Better(returns[u], returns[t])}
  IN TopDen * (Cardinality(beaten) + (IF t = CHOOSE u \in equal : TRUE THEN Cardinality(equal) ELSE 1))
       >= TopNum * Cardinality(DOMAIN returns)

(* rank(pct=True) >= TOP_DECILE_THRESHOLD among the returns of a date;     *)
(* equal returns share the mean of their ranks.                            *)
Outperforms(t, returns) ==
  LET beaten == {u \in DOMAIN returns : Better(returns[t], returns[u])}
      equal == {u \in DOMAIN returns : ~ Better(returns[t], returns[u])
                                       /\ ~ Better(returns[u], returns[t])}
  IN TopDen * (2 * Cardinality(beaten) + Cardinality(equal) + 1)
       >= TopNum * 2 * Cardinality(DOMAIN returns)
-----------------------------------------------------------------------------
(* JobRun commits a row 'running'.                                         *)
Open(j) ==
  /\ step[j] = "idle"
  /\ step' = [step EXCEPT ![j] = "find"]
  /\ connected' = [connected EXCEPT ![j] = TRUE]
  /\ recorded' = [recorded EXCEPT ![j] = "running"]
  /\ batch' = [batch EXCEPT ![j] = Empty]
  /\ UNCHANGED <<feedVars, labels, pending, todo, attempt>>

(* Only dates that have no label at all.                                   *)
UnlabelledDates ==
  {p \in Pairs : p[1] \in scored[p[2]]
                 /\ \A t \in Tickers : <<t, p[2]>> \notin DOMAIN labels}

(* Every ticker, with a row of factor_scores or not.                       *)
UnlabelledOrUnscored == Pairs \ DOMAIN labels

Unlabelled == {p \in Pairs : p[1] \in scored[p[2]] /\ p \notin DOMAIN labels}

(* The pairs with a score and without a label, each once.                  *)
FindPending(j) ==
  /\ step[j] = "find"
  /\ pending' = [pending EXCEPT ![j] = Unlabelled]
  /\ step' = [step EXCEPT ![j] = IF Unlabelled = {} THEN "close" ELSE "compute"]
  /\ UNCHANGED <<feedVars, labels, batch, todo, attempt, connected, recorded>>

(* The rows of price_history read for t: from Buffer days before the first *)
(* pending date.                                                           *)
Window(j, t) ==
  LET from == Min({p[2] : p \in pending[j]})
  IN [d \in {e \in DOMAIN history[t] : e + Buffer >= from} |-> history[t][d]]

Found(j, p) == ForwardReturns(Window(j, p[1]), p[2], Horizon)
Computable(j) == {p \in pending[j] : Found(j, p) # {}}
ReturnOf(j, p) == CHOOSE r \in Found(j, p) : TRUE

(* The rank is among the returns of this batch for the date.               *)
Cohort(j, s) == {t \in Tickers : <<t, s>> \in Computable(j)}
LabelOf(j, p) ==
  [return |-> ReturnOf(j, p),
   outperform |-> Outperforms(p[1], [t \in Cohort(j, p[2]) |-> ReturnOf(j, <<t, p[2]>>)]),
   cohort |-> Cohort(j, p[2])]

(* The prices are read in a later query than the pairs, and what can be    *)
(* labelled is.                                                            *)
Compute(j) ==
  /\ step[j] = "compute"
  /\ batch' = [batch EXCEPT ![j] = [p \in Computable(j) |-> LabelOf(j, p)]]
  /\ todo' = [todo EXCEPT ![j] = Computable(j)]
  /\ attempt' = [attempt EXCEPT ![j] = 0]
  /\ step' = [step EXCEPT ![j] = IF Computable(j) = {} THEN "close" ELSE "upsert"]
  /\ pending' = [pending EXCEPT ![j] = {}]
  /\ UNCHANGED <<feedVars, labels, connected, recorded>>

(* The next chunk, in the order of the dates.                              *)
Chunks(j) ==
  {c \in SUBSET todo[j] :
     /\ Cardinality(c) = Min({ChunkSize, Cardinality(todo[j])})
     /\ \A p \in c, q \in todo[j] \ c : p[2] <= q[2]}

(* INSERT ... ON CONFLICT DO UPDATE.                                       *)
Upserted(j, c) ==
  [p \in DOMAIN labels \cup c |-> IF p \in c THEN batch[j][p] ELSE labels[p]]

(* A chunk is committed.                                                   *)
Upsert(j) ==
  /\ step[j] = "upsert"
  /\ \E c \in Chunks(j) :
       /\ labels' = Upserted(j, c)
       /\ todo' = [todo EXCEPT ![j] = @ \ c]
       /\ step' = [step EXCEPT ![j] = IF c = todo[j] THEN "close" ELSE "upsert"]
  /\ attempt' = [attempt EXCEPT ![j] = 0]
  /\ UNCHANGED <<feedVars, pending, batch, connected, recorded>>

(* A chunk that keeps failing is skipped.                                  *)
LoseAndSkip(j) ==
  /\ step[j] = "upsert"
  /\ \E c \in Chunks(j) :
       /\ todo' = [todo EXCEPT ![j] = @ \ c]
       /\ step' = [step EXCEPT ![j] = IF c = todo[j] THEN "close" ELSE "upsert"]
  /\ attempt' = [attempt EXCEPT ![j] = 0]
  /\ UNCHANGED <<feedVars, labels, pending, batch, connected, recorded>>

(* The connection is lost, before the commit or after it: the chunk is     *)
(* tried again over a new one, or given up. JobRun's connection is closed  *)
(* either way once it has been replaced.                                   *)
Lose(j) ==
  /\ step[j] = "upsert"
  /\ \/ UNCHANGED labels
     \/ \E c \in Chunks(j) : labels' = Upserted(j, c)
  /\ connected' = [connected EXCEPT ![j] = FALSE]
  /\ IF attempt[j] + 1 > MaxRetries
     THEN /\ step' = [step EXCEPT ![j] = "idle"]
          /\ todo' = [todo EXCEPT ![j] = {}]
          /\ attempt' = [attempt EXCEPT ![j] = 0]
     ELSE /\ attempt' = [attempt EXCEPT ![j] = @ + 1]
          /\ UNCHANGED <<step, todo>>
  /\ UNCHANGED <<feedVars, pending, batch, recorded>>

(* __exit__ records success, if the connection it holds is still open; if  *)
(* not it raises, and the row stays 'running'.                             *)
Close(j) ==
  /\ step[j] = "close"
  /\ recorded' = [recorded EXCEPT ![j] = IF connected[j] THEN "complete" ELSE "running"]
  /\ step' = [step EXCEPT ![j] = "idle"]
  /\ connected' = [connected EXCEPT ![j] = FALSE]
  /\ UNCHANGED <<feedVars, labels, pending, batch, todo, attempt>>

(* Killed, or any other error: nothing is recorded, or the failure is.     *)
Die(j) ==
  /\ step[j] # "idle"
  /\ step' = [step EXCEPT ![j] = "idle"]
  /\ recorded' \in {[recorded EXCEPT ![j] = r] : r \in {"running", "failed"}}
  /\ recorded'[j] = "failed" => connected[j]
  /\ connected' = [connected EXCEPT ![j] = FALSE]
  /\ pending' = [pending EXCEPT ![j] = {}]
  /\ todo' = [todo EXCEPT ![j] = {}]
  /\ attempt' = [attempt EXCEPT ![j] = 0]
  /\ UNCHANGED <<feedVars, labels, batch>>

JobStep(j) ==
  \/ Open(j) \/ FindPending(j) \/ Compute(j)
  \/ Upsert(j) \/ Lose(j) \/ Close(j) \/ Die(j)

Next ==
  \/ NextDay
  \/ \E t \in Tickers : Ingest(t)
  \/ \E s \in ScoreDates : Score(s)
  \/ \E j \in Jobs : JobStep(j)

Spec == Init /\ [][Next]_vars

(* The job is run again and again, and may be killed or cut off at any     *)
(* point, but not at the same point of every run for ever.                 *)
Fairness ==
  \A j \in Jobs :
    /\ WF_vars(Open(j))
    /\ SF_vars(FindPending(j)) /\ SF_vars(Compute(j))
    /\ SF_vars(Upsert(j)) /\ SF_vars(Close(j))

FairSpec == Spec /\ Fairness
-----------------------------------------------------------------------------
(* Tables and locals keep their types; a label is for a scored pair, and a *)
(* job's chunks are of its batch.                                          *)
TypeOK ==
  /\ today \in Days
  /\ \A t \in Tickers : DOMAIN history[t] \subseteq 0 .. today
                        /\ \A d \in DOMAIN history[t] : history[t][d] \in Prices
  /\ scored \in [ScoreDates -> SUBSET Tickers]
  /\ DOMAIN labels \subseteq {p \in Pairs : p[1] \in scored[p[2]]}
  /\ \A p \in DOMAIN labels : labels[p] \in Label
  /\ step \in [Jobs -> {"idle", "find", "compute", "upsert", "close"}]
  /\ \A j \in Jobs :
       /\ pending[j] \subseteq Pairs
       /\ DOMAIN batch[j] \subseteq Pairs
       /\ \A p \in DOMAIN batch[j] : batch[j][p] \in Label
       /\ todo[j] \subseteq DOMAIN batch[j]
       /\ step[j] = "upsert" <=> todo[j] # {}
       /\ attempt[j] \in 0 .. MaxRetries
       /\ step[j] = "idle" => ~ connected[j]
  /\ connected \in [Jobs -> BOOLEAN]
  /\ recorded \in [Jobs -> {"none", "running", "complete", "failed"}]

(* "The label is a pure function of price history": whichever run computed *)
(* it, and whatever was ingested since, a label's return runs from the     *)
(* last day at or before the score date to the Horizon-th day after it on  *)
(* which the ticker traded.                                                *)
LabelsAreTrue ==
  \A p \in DOMAIN labels :
    LET rows == history[p[1]]
    IN \E d, e \in DOMAIN rows :
         /\ d <= p[2] /\ p[2] < e
         /\ \A f \in DOMAIN rows : f <= p[2] => f <= d
         /\ Cardinality({f \in DOMAIN rows : d < f /\ f <= e}) = Horizon
         /\ labels[p].return = [start |-> rows[d], end |-> rows[e]]

(* Of the tickers of a date that were ranked together, in however many     *)
(* chunks and attempts they were stored, those labelled 1 did better than  *)
(* those labelled 0.                                                       *)
OutperformersDidBetter ==
  \A p, q \in DOMAIN labels :
    p[2] = q[2] /\ labels[p].cohort = labels[q].cohort
      /\ labels[p].outperform /\ ~ labels[q].outperform =>
        Better(labels[p].return, labels[q].return)

(* A run recorded as complete has stored every label it computed.          *)
CompleteMeansStored ==
  \A j \in Jobs : recorded[j] = "complete" =>
    \A p \in DOMAIN batch[j] : p \in DOMAIN labels /\ labels[p].return = batch[j][p].return

(* "Re-running this later naturally fills them in": every scored pair      *)
(* whose forward window has concluded is labelled in the end, also one     *)
(* whose peers were labelled long before, whatever runs were cut off. The  *)
(* promise holds for a pair whose last price at or before the score date   *)
(* is within the Buffer; one with an older price is read only in a run     *)
(* that has an earlier date pending, and may wait for ever.                *)
NearRows(p) ==
  [d \in {e \in DOMAIN history[p[1]] : e + Buffer >= p[2]} |-> history[p[1]][d]]
EveryPairLabelled ==
  \A p \in Pairs :
    (p[1] \in scored[p[2]] /\ ForwardReturns(NearRows(p), p[2], Horizon) # {})
      ~> (p \in DOMAIN labels)

(* compute_labels.py:20-21: "Re-running this later naturally fills them in *)
(* as more real price history accumulates", with no exception.             *)
EveryConcludedPairLabelled ==
  \A p \in Pairs :
    (p[1] \in scored[p[2]] /\ ForwardReturns(history[p[1]], p[2], Horizon) # {})
      ~> (p \in DOMAIN labels)

(* The returns of training_labels behave as a write-once table.            *)
Store == INSTANCE LabelStore WITH returns <- [p \in DOMAIN labels |-> labels[p].return]

(* A label's return never changes once it is stored, by no upsert of an    *)
(* overlapping, repeated or retried run, and was true when it was stored.  *)
ImplementsStore == Store!Spec

(* compute_labels.py:12-15: a label is 1 if the return "lands in the TOP   *)
(* DECILE of that score_date's cross-sectional forward-return distribution,*)
(* else 0": once every ticker scored for a date is labelled.               *)
LabelsAreOfTheirDate ==
  \A s \in ScoreDates :
    (\A t \in scored[s] : <<t, s>> \in DOMAIN labels) =>
      \A t \in scored[s] :
        labels[<<t, s>>].outperform
          <=> Outperforms(t, [u \in scored[s] |-> labels[<<u, s>>].return])
=============================================================================
