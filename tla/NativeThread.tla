---------------------------- MODULE NativeThread ----------------------------
(***************************************************************************)
(* Owned native threads (arandu_runtime/src/native_thread.rs): the table   *)
(* of running threads, the claims join and drop make on it, and the        *)
(* barrier join_module_threads that runs before a JIT module is unloaded.  *)
(*                                                                         *)
(* Handles are the ids 1, 2, ... in the order of their allocation; actor 0 *)
(* is the thread that will unload the module, actor h the child with that  *)
(* handle.  All children run callbacks of the module.  An actor may claim  *)
(* any later handle that a spawn has returned, also one that another actor *)
(* claims, and may drop its own; wait cycles of the program are left out.  *)
(***************************************************************************)
EXTENDS Naturals, FiniteSets

CONSTANT MaxId    \* the largest id the counter yields

ASSUME MaxIdAssumption == MaxId \in Nat

VARIABLES
  next_id,     \* NEXT_ID
  row,         \* per handle: "none", "live", "claimed" (thread is None) or "gone"
  finished,    \* handles whose finished flag is set
  child,       \* per child: "unborn", "running", "returned" or "exited"
  result,      \* per child: "uninit", "value", "none" (failed or panicked),
               \* "taken" by the caller of a join, or "destroyed"
  pc,          \* per actor: where it is
  arg, op,     \* per actor: the handle it claims, and for which operation
  spawning,    \* per actor: the child it has started and not yet inserted
  batch,       \* the handles the barrier still has to join
  signalled    \* a notify_all has reached the waiting barrier

vars == <<next_id, row, finished, child, result, pc, arg, op, spawning, batch, signalled>>
table  == <<next_id, row, finished>>
claims == <<arg, op, spawning, batch>>

Handles == 1 .. MaxId
Main    == 0
Actors  == Handles \union {Main}

Init ==
  /\ next_id = 1
  /\ row = [h \in Handles |-> "none"]
  /\ finished = {}
  /\ child = [h \in Handles |-> "unborn"]
  /\ result = [h \in Handles |-> "uninit"]
  /\ pc = [a \in Actors |-> IF a = Main THEN "run" ELSE "idle"]
  /\ arg = [a \in Actors |-> 0]
  /\ op = [a \in Actors |-> "none"]
  /\ spawning = [a \in Actors |-> 0]
  /\ batch = {}
  /\ signalled = FALSE

Goto(a, where) == pc' = [pc EXCEPT ![a] = where]

(* COMPLETED.notify_all *)
NotifyAll == signalled' = (signalled \/ pc[Main] = "barrier_wait")

(* Code of the module runs in its callbacks, in result destructors too. *)
InModule(a) == pc[a] \in {"run", "destroying"} /\ spawning[a] = 0

(* ar_rt_native_thread_spawn up to the start of the child. *)
Spawn(a) ==
  /\ InModule(a)
  /\ next_id \in Handles
  /\ next_id' = next_id + 1
  /\ child' = [child EXCEPT ![next_id] = "running"]
  /\ Goto(next_id, "run")
  /\ spawning' = [spawning EXCEPT ![a] = next_id]
  /\ UNCHANGED <<row, finished, result, arg, op, batch, signalled>>

(* The OS refuses the thread: the id is spent, the task is dropped. *)
SpawnFails(a) ==
  /\ InModule(a)
  /\ next_id \in Handles
  /\ next_id' = next_id + 1
  /\ UNCHANGED <<row, finished, child, result, pc, claims, signalled>>

(* The row is inserted; the child may have returned long ago. *)
Insert(a) ==
  /\ spawning[a] # 0
  /\ row' = [row EXCEPT ![spawning[a]] = "live"]
  /\ spawning' = [spawning EXCEPT ![a] = 0]
  /\ UNCHANGED <<next_id, finished, child, result, pc, arg, op, batch, signalled>>

(* The callback of child h returns, fails or panics. *)
Return(h) ==
  /\ pc[h] = "run" /\ spawning[h] = 0
  /\ child' = [child EXCEPT ![h] = "returned"]
  /\ \E r \in {"value", "none"} : result' = [result EXCEPT ![h] = r]
  /\ Goto(h, "over")
  /\ UNCHANGED <<table, claims, signalled>>

(* Mutant: completion is published without a notify. *)
CompleteSilent(h) ==
  /\ child[h] = "returned"
  /\ finished' = finished \union {h}
  /\ child' = [child EXCEPT ![h] = "exited"]
  /\ UNCHANGED <<next_id, row, result, pc, claims, signalled>>

(* The child publishes its completion under the registry lock and exits. *)
Complete(h) ==
  /\ child[h] = "returned"
  /\ finished' = finished \union {h}
  /\ NotifyAll
  /\ child' = [child EXCEPT ![h] = "exited"]
  /\ UNCHANGED <<next_id, row, result, pc, claims>>

(* ar_rt_native_thread_join, or _drop once is_current_thread has said no. *)
Call(a, h, o) ==
  /\ pc[a] = "run" /\ spawning[a] = 0
  /\ row[h] # "none"
  /\ IF o = "join" THEN h > a ELSE h > a \/ (h = a /\ row[h] # "live")
  /\ arg' = [arg EXCEPT ![a] = h]
  /\ op' = [op EXCEPT ![a] = o]
  /\ Goto(a, "claiming")
  /\ UNCHANGED <<table, child, result, spawning, batch, signalled>>

(* Mutant: the JoinHandle is copied out of the row instead of taken. *)
ClaimCopies(a) ==
  /\ pc[a] = "claiming"
  /\ Goto(a, IF row[arg[a]] = "live" THEN "claimed" ELSE "run")
  /\ UNCHANGED <<table, child, result, claims, signalled>>

(* claim_thread: the thread is taken out of its row.  An unknown handle     *)
(* ends the operation, a consumed one notifies before it does.              *)
Claim(a) ==
  /\ pc[a] = "claiming"
  /\ IF row[arg[a]] = "live"
       THEN row' = [row EXCEPT ![arg[a]] = "claimed"] /\ Goto(a, "claimed")
       ELSE Goto(a, "run") /\ UNCHANGED row
  /\ IF row[arg[a]] = "claimed" THEN NotifyAll ELSE UNCHANGED signalled
  /\ UNCHANGED <<next_id, finished, child, result, claims>>

(* The notify_all of claim_thread, after the lock is released. *)
ClaimNotify(a) ==
  /\ pc[a] = "claimed"
  /\ NotifyAll
  /\ Goto(a, "joining")
  /\ UNCHANGED <<table, child, result, claims>>

(* thread.join returns: join hands the value to its caller, drop and the    *)
(* barrier destroy it; of a failed child there is nothing to destroy.       *)
Joined(a) ==
  /\ pc[a] = "joining"
  /\ child[arg[a]] = "exited"
  /\ IF result[arg[a]] = "value" /\ op[a] # "join"
       THEN Goto(a, "destroying") /\ UNCHANGED result
       ELSE /\ Goto(a, "removing")
            /\ result' = [result EXCEPT ![arg[a]] = IF @ = "value" THEN "taken" ELSE @]
  /\ UNCHANGED <<table, child, claims, signalled>>

(* The result's destructor, module code that may spawn, returns. *)
Destroyed(a) ==
  /\ pc[a] = "destroying" /\ spawning[a] = 0
  /\ result' = [result EXCEPT ![arg[a]] = "destroyed"]
  /\ Goto(a, "removing")
  /\ UNCHANGED <<table, child, claims, signalled>>

(* finish_claim: the row goes, then the waiters are notified. *)
FinishClaim(a) ==
  /\ pc[a] = "removing"
  /\ row' = [row EXCEPT ![arg[a]] = "gone"]
  /\ Goto(a, "removed")
  /\ UNCHANGED <<next_id, finished, child, result, claims, signalled>>

FinishNotify(a) ==
  /\ pc[a] = "removed"
  /\ NotifyAll
  /\ Goto(a, IF op[a] = "barrier" THEN "batch" ELSE "run")
  /\ UNCHANGED <<table, child, result, claims>>

(* CompiledModule's drop, once external calls have stopped. *)
Unload ==
  /\ pc[Main] = "run" /\ spawning[Main] = 0
  /\ Goto(Main, "barrier")
  /\ op' = [op EXCEPT ![Main] = "barrier"]
  /\ UNCHANGED <<table, child, result, arg, spawning, batch, signalled>>

Rows == {h \in Handles : row[h] \in {"live", "claimed"}}

(* join_module_threads under the lock: wait while a matching row is claimed *)
(* or unfinished, else claim every row; with no row left the module goes.   *)
Barrier ==
  /\ pc[Main] = "barrier"
  /\ IF \E h \in Rows : row[h] = "claimed" \/ h \notin finished
       THEN Goto(Main, "barrier_wait") /\ signalled' = FALSE /\ UNCHANGED <<row, batch>>
       ELSE /\ row' = [h \in Handles |-> IF h \in Rows THEN "claimed" ELSE row[h]]
            /\ batch' = Rows
            /\ Goto(Main, IF Rows = {} THEN "unloaded" ELSE "batch")
            /\ UNCHANGED signalled
  /\ UNCHANGED <<next_id, finished, child, result, arg, op, spawning>>

BarrierWakes ==
  /\ pc[Main] = "barrier_wait" /\ signalled
  /\ Goto(Main, "barrier")
  /\ UNCHANGED <<table, child, result, claims, signalled>>

(* Mutant: the loop is not repeated after a batch. *)
JoinBatchOnce ==
  /\ pc[Main] = "batch"
  /\ IF batch = {}
       THEN Goto(Main, "unloaded") /\ UNCHANGED <<arg, batch>>
       ELSE \E h \in batch : /\ batch' = batch \ {h}
                             /\ arg' = [arg EXCEPT ![Main] = h]
                             /\ Goto(Main, "joining")
  /\ UNCHANGED <<table, child, result, op, spawning, signalled>>

(* The next thread of the batch, in the table's arbitrary order, or again. *)
JoinBatch ==
  /\ pc[Main] = "batch"
  /\ IF batch = {}
       THEN Goto(Main, "barrier") /\ UNCHANGED <<arg, batch>>
       ELSE \E h \in batch : /\ batch' = batch \ {h}
                             /\ arg' = [arg EXCEPT ![Main] = h]
                             /\ Goto(Main, "joining")
  /\ UNCHANGED <<table, child, result, op, spawning, signalled>>

Unloaded == pc[Main] = "unloaded" /\ UNCHANGED vars

(* The steps of an actor that its own program takes. *)
Act(a) ==
  \/ Spawn(a) \/ SpawnFails(a) \/ Insert(a)
  \/ \E h \in Handles, o \in {"join", "drop"} : Call(a, h, o)
  \/ Claim(a) \/ ClaimNotify(a) \/ Joined(a) \/ Destroyed(a)
  \/ FinishClaim(a) \/ FinishNotify(a)

MainStep  == Act(Main) \/ Unload \/ Barrier \/ BarrierWakes \/ JoinBatch
ChildStep(h) == Act(h) \/ Return(h) \/ Complete(h)

Next == MainStep \/ (\E h \in Handles : ChildStep(h)) \/ Unloaded

Spec == Init /\ [][Next]_vars

(* The runtime's own steps are taken.  The callbacks of the module return,  *)
(* and its owner unloads it, however often they call the runtime before.    *)
Fairness ==
  /\ \A a \in Actors :
       /\ WF_vars(Insert(a)) /\ WF_vars(Claim(a)) /\ WF_vars(ClaimNotify(a))
       /\ WF_vars(Joined(a)) /\ WF_vars(Destroyed(a))
       /\ WF_vars(FinishClaim(a)) /\ WF_vars(FinishNotify(a))
  /\ \A h \in Handles : SF_vars(Return(h)) /\ WF_vars(Complete(h))
  /\ SF_vars(Unload)
  /\ WF_vars(Barrier) /\ WF_vars(BarrierWakes) /\ WF_vars(JoinBatch)

FairSpec == Spec /\ Fairness

----------------------------------------------------------------------------
(* "Completes all threads referencing a module before its callbacks         *)
(* disappear": once the barrier has returned no child runs, also none that  *)
(* was not yet in the table when the barrier looked, and no destructor.     *)
NoCallbackAfterUnload ==
  pc[Main] = "unloaded" =>
    /\ \A h \in Handles : child[h] \in {"unborn", "exited"} /\ row[h] \in {"none", "gone"}
    /\ \A a \in Handles : pc[a] \in {"idle", "over"}

Claimants(h) == {a \in Actors : /\ arg[a] = h
                                /\ pc[a] \in {"claimed", "joining", "destroying", "removing"}}

(* claim_thread takes the thread out of the row: of all joins, drops and    *)
(* barriers on one handle, one has it, and the row says so.  "Keep the row  *)
(* visible until the claimant finishes joining and any result destructor    *)
(* has returned": a row that is gone was joined, so no thread is detached.  *)
OneClaimant ==
  \A h \in Handles :
    /\ Cardinality(Claimants(h)) + (IF h \in batch THEN 1 ELSE 0)
         = IF row[h] = "claimed" THEN 1 ELSE 0
    /\ row[h] = "gone" =>
         child[h] = "exited" /\ result[h] \in {"taken", "destroyed", "none"}

(* The barrier waits "without polling or losing a wakeup": unloading ends.  *)
UnloadEnds == <>(pc[Main] = "unloaded")
=============================================================================
