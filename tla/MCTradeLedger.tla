--------------------------- MODULE MCTradeLedger ---------------------------
(* Symmetry for the small instances of TradeLedger.                        *)
EXTENDS TradeLedger, TLC

ProcessSymmetry == Permutations(Processes)
=============================================================================
