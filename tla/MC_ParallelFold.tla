-------------------------- MODULE MC_ParallelFold --------------------------
(* Up to three chunks and three executors, every kind of call.             *)
EXTENDS ParallelFold
=============================================================================
