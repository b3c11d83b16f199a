--------------------------- MODULE MCFactorScores ---------------------------
(* Two tickers of one sector and one of another, two Mondays a week apart  *)
(* (the unit), and a report of two of them, one long known and one to be   *)
(* published a week after its period's end. The sync may drop the first,   *)
(* and all.                                                                *)
EXTENDS FactorScores, TLC
CONSTANTS t1, t2, t3
MCSector == t1 :> "Tech" @@ t2 :> "Tech" @@ t3 :> "Energy"
MCEnoughOn == t1 :> {0, 1} @@ t2 :> {1} @@ t3 :> {0, 1}
MCDrops == {{t1}, Tickers}
MCReports ==
  {[ticker |-> t1, period |-> 0, published |-> 1, subs |-> SubMetrics],
   [ticker |-> t2, period |-> -2, published |-> -1, subs |-> {"roe"}]}
=============================================================================
