--------------------------- MODULE MC_Incremental ---------------------------
(* Two functions, one of which is edited and one removed or added, and two  *)
(* processes; three builds can undo an edit.                                *)
EXTENDS Incremental, TLC

MCVersions == {[f |-> 1, g |-> 1], [f |-> 2, g |-> 1], [f |-> 2]}

ProcessSymmetry == Permutations(Processes)
=============================================================================
