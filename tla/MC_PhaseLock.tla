--------------------------- MODULE MC_PhaseLock ---------------------------
(* Four threads, each holding at most two read guards.                      *)
EXTENDS PhaseFairness

CONSTANTS t1, t2, t3, t4
MCThreads == {t1, t2, t3, t4}
===============================================================================
