--------------------------- MODULE MC_WorkerPool ---------------------------
(* One worker, two clients, three tasks and a queue of one: tasks nest two  *)
(* deep while the queue is empty, full and blocked on.                      *)
EXTENDS WorkerPool
=============================================================================
