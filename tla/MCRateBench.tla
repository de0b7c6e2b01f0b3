---------------------------- MODULE MCRateBench ----------------------------
(***************************************************************************)
(* Instances of the benchmark.                                             *)
(***************************************************************************)
EXTENDS RateBench, TLC
=============================================================================
