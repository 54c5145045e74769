----------------------------- MODULE Supervisor -----------------------------
(***************************************************************************)
(* The process supervisor (arandu_runtime/src/supervisor_runtime.rs): one  *)
(* supervisor from its creation to its destruction, called by several      *)
(* threads, with its worker table, the lock on it and a lock per child.    *)
(*                                                                         *)
(* Workers are the indices of the table; processes are numbered in the     *)
(* order in which they are started.  A call with a bad argument, an        *)
(* unknown worker or a closed supervisor returns -1 and changes nothing.   *)
(***************************************************************************)
EXTENDS Naturals, Sequences, FiniteSets, SequencesExt

CONSTANTS
  Threads, Nobody,
  Calls,            \* per thread: the functions the program calls there
  MaxProcesses,     \* bound on the processes ever started
  MaxWorkers,       \* bound on the table
  MaxRestarts       \* the workers' max_restarts

ASSUME SupervisorAssumption ==
  /\ Nobody \notin Threads
  /\ Calls \in [Threads -> SUBSET {"spawn", "poll", "wait", "kill", "destroy"}]
  /\ MaxProcesses \in Nat /\ MaxWorkers \in Nat /\ MaxRestarts \in Nat

VARIABLES
  registered,   \* the table of supervisors still has this one
  closed,
  workers,      \* per worker: its child and its restarts
  locked,       \* who holds the supervisor's lock across steps
  processes,    \* per process: "running", "exited" or "reaped"
  holder,       \* per process: who holds its Child's lock across steps
  pc, arg, at,  \* per thread: where it is, its process and its worker
  taken,        \* per thread: the children its destroy still has to reap
  displaced     \* history: the live children a replacement was stored over

vars == <<registered, closed, workers, locked, processes, holder, pc, arg, at, taken, displaced>>
calls == <<arg, at>>

Init ==
  /\ registered = TRUE
  /\ closed = FALSE
  /\ workers = <<>>
  /\ locked = Nobody
  /\ processes = <<>>
  /\ holder = <<>>
  /\ pc = [t \in Threads |-> "idle"]
  /\ arg = [t \in Threads |-> 0]
  /\ at = [t \in Threads |-> 0]
  /\ taken = [t \in Threads |-> <<>>]
  /\ displaced = {}

Goto(t, where) == pc' = [pc EXCEPT ![t] = where] /\ UNCHANGED calls

(* The call returns; its variables are gone. *)
Return(t) ==
  /\ pc' = [pc EXCEPT ![t] = "idle"]
  /\ arg' = [arg EXCEPT ![t] = 0]
  /\ at' = [at EXCEPT ![t] = 0]

(* Command::spawn *)
Start ==
  /\ Len(processes) < MaxProcesses
  /\ processes' = Append(processes, "running")
  /\ holder' = Append(holder, Nobody)

NewProcess == Len(processes) + 1

(* A worker process ends by itself. *)
Exit(p) ==
  /\ processes[p] = "running"
  /\ processes' = [processes EXCEPT ![p] = "exited"]
  /\ UNCHANGED <<registered, closed, workers, locked, holder, pc, calls, taken, displaced>>

(* A call that finds the supervisor and is about to lock it. *)
Enter(t, call, w) ==
  /\ pc[t] = "idle" /\ registered
  /\ pc' = [pc EXCEPT ![t] = call]
  /\ at' = [at EXCEPT ![t] = w]
  /\ UNCHANGED <<registered, closed, workers, locked, processes, holder, arg, taken, displaced>>

(* ar_rt_supervisor_spawn, all of it under the supervisor's lock: nobody    *)
(* sees the process before its worker.                                      *)
Spawn(t) ==
  /\ pc[t] = "spawn" /\ locked = Nobody
  /\ \/ /\ ~closed /\ Len(workers) < MaxWorkers /\ Start
        /\ workers' = Append(workers, [child |-> NewProcess, restarts |-> 0])
     \/ UNCHANGED <<workers, processes, holder>>   \* closed, or no process
  /\ Return(t)
  /\ UNCHANGED <<registered, closed, locked, taken, displaced>>

(* poll, wait and kill under the supervisor's lock: poll keeps it.          *)
FindWorker(t) ==
  /\ pc[t] \in {"poll", "wait", "kill"}
  /\ locked = Nobody
  /\ IF closed
       THEN Return(t) /\ UNCHANGED locked
       ELSE /\ arg' = [arg EXCEPT ![t] = workers[at[t]].child]
            /\ pc' = [pc EXCEPT ![t] = @ \o "_child"]
            /\ locked' = IF pc[t] = "poll" THEN t ELSE Nobody
            /\ UNCHANGED at
  /\ UNCHANGED <<registered, closed, workers, processes, holder, taken, displaced>>

Reap(p) == processes' = [processes EXCEPT ![p] = "reaped"]

(* poll: try_wait under the child's lock, then both locks are released.     *)
PollChild(t) ==
  /\ pc[t] = "poll_child" /\ holder[arg[t]] = Nobody
  /\ locked' = Nobody
  /\ IF processes[arg[t]] = "running"
       THEN Return(t) /\ UNCHANGED processes
       ELSE /\ Reap(arg[t])
            /\ IF workers[at[t]].restarts < MaxRestarts THEN Goto(t, "restart") ELSE Return(t)
  /\ UNCHANGED <<registered, closed, workers, holder, taken, displaced>>

(* poll starts the replacement with no lock held, or fails to. *)
PollRestart(t) ==
  /\ pc[t] = "restart"
  /\ Start
  /\ arg' = [arg EXCEPT ![t] = NewProcess]
  /\ pc' = [pc EXCEPT ![t] = "replace"]
  /\ UNCHANGED <<registered, closed, workers, locked, at, taken, displaced>>

PollRestartFails(t) ==
  /\ pc[t] = "restart"
  /\ Return(t)
  /\ UNCHANGED <<registered, closed, workers, locked, processes, holder, taken, displaced>>

(* The replacement is stored over the child the worker has by then: one     *)
(* that still runs, or is not reaped, loses the handle of its worker.       *)
Replace(t) ==
  LET w == at[t]
      old == workers[w].child
  IN /\ workers' = [workers EXCEPT ![w].child = arg[t], ![w].restarts = @ + 1]
     /\ displaced' = displaced \union {p \in {old} : processes[p] # "reaped"}

(* Mutant: a replacement that comes too late is left running. *)
PollReplaceLeaves(t) ==
  /\ pc[t] = "replace" /\ locked = Nobody
  /\ IF closed THEN UNCHANGED <<workers, displaced>> ELSE Replace(t)
  /\ Return(t)
  /\ UNCHANGED <<registered, closed, locked, processes, holder, taken>>

(* poll installs the replacement, or kills and reaps it after a close.      *)
PollReplace(t) ==
  /\ pc[t] = "replace" /\ locked = Nobody
  /\ IF closed
       THEN Reap(arg[t]) /\ UNCHANGED <<workers, displaced>>
       ELSE Replace(t) /\ UNCHANGED processes
  /\ Return(t)
  /\ UNCHANGED <<registered, closed, locked, holder, taken>>

(* wait locks the child and keeps it locked while the child runs. *)
WaitChild(t) ==
  /\ pc[t] = "wait_child" /\ holder[arg[t]] = Nobody
  /\ holder' = [holder EXCEPT ![arg[t]] = t]
  /\ Goto(t, "waiting")
  /\ UNCHANGED <<registered, closed, workers, locked, processes, taken, displaced>>

(* Mutant: wait forgets to let go of the child. *)
WaitReturnsLocked(t) ==
  /\ pc[t] = "waiting" /\ processes[arg[t]] # "running"
  /\ Reap(arg[t])
  /\ Return(t)
  /\ UNCHANGED <<registered, closed, workers, locked, holder, taken, displaced>>

WaitReturns(t) ==
  /\ pc[t] = "waiting" /\ processes[arg[t]] # "running"
  /\ Reap(arg[t])
  /\ holder' = [holder EXCEPT ![arg[t]] = Nobody]
  /\ Return(t)
  /\ UNCHANGED <<registered, closed, workers, locked, taken, displaced>>

(* kill: the signal and the wait for it, under the child's lock. *)
KillChild(t) ==
  /\ pc[t] = "kill_child" /\ holder[arg[t]] = Nobody
  /\ Reap(arg[t])
  /\ Return(t)
  /\ UNCHANGED <<registered, closed, workers, locked, holder, taken, displaced>>

(* ar_rt_supervisor_destroy under the lock: close and take the workers.     *)
DestroyClose(t) ==
  /\ pc[t] = "destroy" /\ locked = Nobody
  /\ closed' = TRUE
  /\ taken' = [taken EXCEPT ![t] = [w \in DOMAIN workers |-> workers[w].child]]
  /\ workers' = <<>>
  /\ Goto(t, "unregister")
  /\ UNCHANGED <<registered, locked, processes, holder, displaced>>

(* The table of supervisors forgets this one. *)
Unregister(t) ==
  /\ pc[t] = "unregister"
  /\ registered' = FALSE
  /\ Goto(t, "reaping")
  /\ UNCHANGED <<closed, workers, locked, processes, holder, taken, displaced>>

(* The taken workers are killed and reaped in order, each under its lock. *)
DestroyReap(t) ==
  /\ pc[t] = "reaping"
  /\ IF taken[t] = <<>>
       THEN Return(t) /\ UNCHANGED <<processes, taken>>
       ELSE /\ holder[Head(taken[t])] = Nobody
            /\ Reap(Head(taken[t]))
            /\ taken' = [taken EXCEPT ![t] = Tail(@)]
            /\ UNCHANGED <<pc, calls>>
  /\ UNCHANGED <<registered, closed, workers, locked, holder, displaced>>

(* The supervisor is gone and nothing is left to do. *)
Gone ==
  /\ ~registered /\ \A t \in Threads : pc[t] = "idle"
  /\ UNCHANGED vars

Step(t) ==
  \/ Spawn(t) \/ FindWorker(t) \/ PollChild(t) \/ PollRestart(t) \/ PollRestartFails(t) \/ PollReplace(t)
  \/ WaitChild(t) \/ WaitReturns(t) \/ KillChild(t)
  \/ DestroyClose(t) \/ Unregister(t) \/ DestroyReap(t)

Next ==
  \/ \E t \in Threads :
       \/ Step(t)
       \/ \E call \in Calls[t] \intersect {"spawn", "destroy"} : Enter(t, call, 0)
       \/ \E call \in Calls[t] \ {"spawn", "destroy"}, w \in DOMAIN workers : Enter(t, call, w)
  \/ \E p \in DOMAIN processes : Exit(p)
  \/ Gone

Spec == Init /\ [][Next]_vars

(* A lock that is free again and again is eventually had.  A worker process *)
(* need not ever end.                                                       *)
FairSpec == Spec /\ \A t \in Threads : SF_vars(Step(t))

----------------------------------------------------------------------------
(* Somebody can still wait for or kill process p. *)
Held(p) ==
  \/ \E w \in DOMAIN workers : workers[w].child = p
  \/ \E t \in Threads : \/ p \in Range(taken[t])
                        \/ pc[t] \in {"replace", "wait_child", "waiting", "kill_child"} /\ arg[t] = p

(* "Close is not detach: a child does not keep running without a handle.":  *)
(* through restarts, kills, waits and a destroy in the middle of any of     *)
(* them, a process is in the hands of somebody until it has been reaped.    *)
(* The one exception: two polls of a worker that both saw it exit, where    *)
(* the second replacement is stored over the first.                         *)
NoOrphan ==
  \A p \in DOMAIN processes : processes[p] # "reaped" => Held(p) \/ p \in displaced

(* Thread t waits for process p to end, itself or behind the one that has   *)
(* p's lock.                                                                *)
BlockedOn(t, p) ==
  \/ pc[t] = "waiting" /\ arg[t] = p
  \/ /\ holder[p] # Nobody
     /\ \/ pc[t] \in {"poll_child", "wait_child", "kill_child"} /\ arg[t] = p
        \/ pc[t] = "reaping" /\ taken[t] # <<>> /\ p = Head(taken[t])

BehindWorker(t) == \E p \in DOMAIN processes : processes[p] = "running" /\ BlockedOn(t, p)

(* t waits for the supervisor's lock, which a poll keeps while it waits for *)
(* the lock of its own worker.                                              *)
BehindPoll(t) ==
  /\ pc[t] \in {"spawn", "poll", "wait", "kill", "replace", "destroy"}
  /\ locked # Nobody /\ BehindWorker(locked)

(* "Wait and kill take the per-worker lock only after releasing the         *)
(* supervisor lock, so one blocked worker does not stall lifecycle of       *)
(* another": every call returns, although workers may run forever, unless a *)
(* wait for its own worker holds it up for good, or one for the worker that *)
(* somebody polls.                                                          *)
CallsReturn ==
  \A t \in Threads : pc[t] # "idle" ~> (pc[t] = "idle" \/ [](BehindWorker(t) \/ BehindPoll(t)))
=============================================================================
