------------------------------ MODULE MC_Reactor ------------------------------
(* Two threads share one reactor and one waker; registrations ask for both   *)
(* filters, and the batch holds one event, so that the two filters of a      *)
(* socket come in different batches.                                         *)
EXTENDS Reactor, TLC

BothFilters == {{"read", "write"}}
ThreadSymmetry == Permutations(Threads)
=============================================================================
