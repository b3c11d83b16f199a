-------------------------- MODULE MCPriceIngestion --------------------------
(* Symmetry for the small instances of PriceIngestion.                     *)
EXTENDS PriceIngestion, TLC

RunSymmetry == Permutations(Runs)
=============================================================================
