---------------------------- MODULE MCSelection ----------------------------
(* Symmetry for the small instances of Selection.                          *)
EXTENDS Selection, TLC

TickerSymmetry == Permutations(Tickers)
=============================================================================
