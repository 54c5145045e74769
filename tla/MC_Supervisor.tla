---------------------------- MODULE MC_Supervisor ----------------------------
(* One thread starts the workers, another deals with them too, and a third   *)
(* only waits, so that a worker can be polled while it is waited for and     *)
(* another one is to be killed or started.                                   *)
EXTENDS Supervisor, TLC

CONSTANTS t1, t2, t3

MCCalls ==
  t1 :> {"spawn", "poll", "destroy"}
  @@ t2 :> {"poll", "kill", "destroy"}
  @@ t3 :> {"wait"}
=============================================================================
