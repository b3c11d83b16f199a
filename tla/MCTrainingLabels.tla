-------------------------- MODULE MCTrainingLabels --------------------------
(* Symmetry for the small instance of TrainingLabels that is killed.       *)
EXTENDS TrainingLabels, TLC

TickerSymmetry == Permutations(Tickers)
=============================================================================
