----------------------------- MODULE MC_GenArena -----------------------------
(* Two generations make a slot go from fresh to reused to retired.           *)
EXTENDS GenArena
=============================================================================
