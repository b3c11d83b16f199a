----------------------------- MODULE MCUniverse -----------------------------
(* The tickers of the small instances of Universe other than SPY, and      *)
(* the feeds, are interchangeable.                                         *)
EXTENDS Universe, TLC

Symmetry == Permutations(Tickers \ {Spy}) \cup Permutations(Sources)
=============================================================================
