---------------------- MODULE MCFundamentalsIngestion ----------------------
(* A small instance of FundamentalsIngestion.                              *)
EXTENDS FundamentalsIngestion
=============================================================================
