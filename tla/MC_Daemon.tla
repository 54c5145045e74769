----------------------------- MODULE MC_Daemon -----------------------------
(* Two clients: one builds again and again, the other asks for the same     *)
(* build, another one, one of another toolchain, or a stop, and may go away *)
(* before it is answered.                                                   *)
EXTENDS Daemon, TLC

CONSTANTS c1, c2, k1, k2, idA, idB

Build(k, i) == [key |-> k, id |-> i]

MCAsks ==
  c1 :> {Build(k1, idA)}
  @@ c2 :> {Build(k1, idA), Build(k2, idA), Build(k1, idB), Build(Shutdown, idA)}
=============================================================================
