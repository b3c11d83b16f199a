----------------------------- MODULE LabelStore -----------------------------
(***************************************************************************)
(* What labelling promises its readers, whatever runs, chunks, connections *)
(* and retries are behind it: "the label is a pure function of price       *)
(* history" (scripts/compute_training_labels.py). The returns of the       *)
(* training labels are a write-once table: a pair of a ticker and a score  *)
(* date gets its return once, when it has been scored and its window has   *)
(* concluded, and neither later prices nor later runs change it.           *)
(***************************************************************************)
EXTENDS Naturals, FiniteSets

CONSTANTS Tickers, ScoreDates, Horizon

VARIABLES
  history,   (* By ticker, the prices of the days it has.                   *)
  scored,    (* By score date, the tickers that have a score.               *)
  returns    (* The table: by ticker and score date.                        *)

vars == <<history, scored, returns>>

(* r is the return from the last day at or before s to the Horizon-th of   *)
(* the days after it.                                                      *)
Concludes(days, s, r) ==
  \E d, e \in DOMAIN days :
    /\ d <= s /\ s < e
    /\ \A f \in DOMAIN days : f <= s => f <= d
    /\ Cardinality({f \in DOMAIN days : d < f /\ f <= e}) = Horizon
    /\ r = [start |-> days[d], end |-> days[e]]

(* The table is empty, before the first prices and scores.                 *)
Init ==
  /\ \A t \in Tickers : DOMAIN history[t] = {}
  /\ \A s \in ScoreDates : scored[s] = {}
  /\ DOMAIN returns = {}

(* Prices come after those there are.                                      *)
Trade ==
  /\ \A t \in Tickers :
       /\ \A d \in DOMAIN history[t] : d \in DOMAIN history'[t] /\ history'[t][d] = history[t][d]
       /\ \A d \in DOMAIN history'[t] \ DOMAIN history[t] : \A e \in DOMAIN history[t] : e < d
  /\ UNCHANGED <<scored, returns>>

Score ==
  /\ \A s \in ScoreDates : scored[s] \subseteq scored'[s]
  /\ UNCHANGED <<history, returns>>

(* Any number of pairs at once, each with the return it will always have.  *)
Record ==
  /\ \A p \in DOMAIN returns : p \in DOMAIN returns' /\ returns'[p] = returns[p]
  /\ \A p \in DOMAIN returns' \ DOMAIN returns :
       p[1] \in scored[p[2]] /\ Concludes(history[p[1]], p[2], returns'[p])
  /\ UNCHANGED <<history, scored>>

Next == Trade \/ Score \/ Record

Spec == Init /\ [][Next]_vars
=============================================================================
