----------------------------- MODULE WorkerPool -----------------------------
(***************************************************************************)
(* The bounded worker pool of arandu_runtime (worker_scheduler/pool.rs)    *)
(* and the task transport it runs (worker_runtime.rs).                     *)
(*                                                                         *)
(* Workers are the pool's threads; Clients are other threads that hold a   *)
(* PoolCore, one of them, Owner, holds the WorkerPool itself.  Whoever is  *)
(* running code, a client or the task on top of a worker's stack, may      *)
(* submit a task it has in hand and wait for the result of a task it       *)
(* submitted.  NestedOps says which entry points task bodies use, Results  *)
(* which statuses their thunks return.                                     *)
(***************************************************************************)
EXTENDS Naturals, Sequences, FiniteSets, FiniteSetsExt, SequencesExt

CONSTANTS Workers, Clients, Owner, Tasks, Nobody, Bound, NestedOps, Results

ASSUME ThreadsAssumption ==
  /\ Workers # {} /\ Owner \in Clients /\ Workers \cap Clients = {}
  /\ IsFiniteSet(Workers) /\ IsFiniteSet(Clients) /\ IsFiniteSet(Tasks)
ASSUME BoundAssumption == Bound \in Nat \ {0}
ASSUME NamesAssumption ==
  /\ Nobody \notin Workers \union Clients \union Tasks
  /\ Tasks \cap (Workers \union Clients) = {}
  /\ NestedOps \subseteq {"submit", "try_submit"}
  /\ Results \subseteq {"completed", "failed", "canceled"} /\ Results # {}

VARIABLES
  pool,       \* "new", "open", "dropped" or "failed": the owner's PoolState
  queue,      \* the sync_channel
  queued,     \* the advisory counter
  hand,       \* tasks in a caller's hands: not submitted, or given back
  token,      \* tasks whose cancel token is set
  outcome,    \* what the task's one-shot channel has carried
  holder,     \* who holds the PendingResult of a task
  pc, on,     \* what a thread is doing, and the task it is doing it to
  stack,      \* the tasks a worker executes, the innermost last
  helped      \* tasks a worker executes inside try_submit

vars == <<pool, queue, queued, hand, token, outcome, holder, pc, on, stack, helped>>

Threads == Workers \union Clients

(* Who is running on t: the innermost task, or the client itself. *)
Frame(t) == IF stack[t] = <<>> THEN t ELSE Last(stack[t])

Goto(t, where, k) ==
  /\ pc' = [pc EXCEPT ![t] = where]
  /\ on' = [on EXCEPT ![t] = k]

(* A strong PoolState exists: the owner's, or one a submission upgraded to. *)
SenderAlive ==
  \/ pool = "open"
  \/ \E t \in Threads : pc[t] \in {"trying", "sending"}
  \/ helped # {}

Init ==
  /\ pool = "new"
  /\ queue = <<>>
  /\ queued = 0
  /\ hand = Tasks
  /\ token = {}
  /\ outcome = [k \in Tasks |-> "none"]
  /\ holder = [k \in Tasks |-> Nobody]
  /\ pc = [t \in Threads |-> IF t \in Workers THEN "unborn" ELSE "run"]
  /\ on = [t \in Threads |-> Nobody]
  /\ stack = [t \in Threads |-> <<>>]
  /\ helped = {}

(* WorkerPool::new: a thread that cannot be created tears the others down. *)
New(started) ==
  /\ pool = "new"
  /\ pool' = IF started = Workers THEN "open" ELSE "failed"
  /\ pc' = [t \in Threads |->
              IF t \in Workers THEN IF t \in started THEN "idle" ELSE "exited"
              ELSE IF t = Owner /\ started # Workers THEN "joining" ELSE pc[t]]
  /\ UNCHANGED <<queue, queued, hand, token, outcome, holder, on, stack, helped>>

(* WorkerTask::execute, up to the thunk: a set token skips it. *)
Execute(t, k) ==
  IF k \in token
    THEN /\ outcome' = [outcome EXCEPT ![k] = "canceled"]
         /\ UNCHANGED stack
    ELSE /\ stack' = [stack EXCEPT ![t] = Append(@, k)]
         /\ UNCHANGED outcome

MayCall(t, operation) ==
  /\ pool \in {"open", "dropped"}
  /\ pc[t] = "run"
  /\ t \in Workers => operation \in NestedOps

(* The part of submit and try_submit after the upgrade: the task is counted *)
(* and about to be sent; or the pool is gone and the task comes back.       *)
Upgrade(t, k, where) ==
  /\ IF SenderAlive
       THEN /\ queued' = queued + 1
            /\ hand' = hand \ {k}
            /\ Goto(t, where, k)
       ELSE UNCHANGED <<queued, hand, pc, on>>
  /\ UNCHANGED <<outcome, stack, holder>>

(* run_inline: execute on this very thread. *)
RunInline(t, k) ==
  /\ Execute(t, k)
  /\ hand' = hand \ {k}
  /\ holder' = [holder EXCEPT ![k] = Frame(t)]
  /\ UNCHANGED <<queued, pc, on>>

(* PoolCore::try_submit up to the try_send. *)
TrySubmit(t, k) ==
  /\ MayCall(t, "try_submit")
  /\ k \in hand
  /\ IF k \in token THEN RunInline(t, k) ELSE Upgrade(t, k, "trying")
  /\ UNCHANGED <<pool, queue, token, helped>>

(* Mutant: a worker waits for admission like any other thread. *)
SubmitNoSelfHelp(t, k) ==
  /\ MayCall(t, "submit")
  /\ k \in hand
  /\ IF k \in token THEN RunInline(t, k) ELSE Upgrade(t, k, "sending")
  /\ UNCHANGED <<pool, queue, token, helped>>

(* PoolCore::submit up to the blocking send. *)
Submit(t, k) ==
  /\ MayCall(t, "submit")
  /\ k \in hand
  /\ IF k \in token \/ t \in Workers
       THEN RunInline(t, k)
       ELSE Upgrade(t, k, "sending")
  /\ UNCHANGED <<pool, queue, token, helped>>

Enqueue(t) ==
  /\ queue' = Append(queue, on[t])
  /\ holder' = [holder EXCEPT ![on[t]] = Frame(t)]
  /\ Goto(t, "run", Nobody)
  /\ UNCHANGED <<queued, hand, outcome, stack, helped>>

(* The queue is full and a worker asks: it executes the task itself, with  *)
(* the task still counted.                                                 *)
Help(t) ==
  /\ holder' = [holder EXCEPT ![on[t]] = Frame(t)]
  /\ Execute(t, on[t])
  /\ IF on[t] \in token
       THEN queued' = queued - 1 /\ UNCHANGED helped
       ELSE helped' = helped \union {on[t]} /\ UNCHANGED queued
  /\ Goto(t, "run", Nobody)
  /\ UNCHANGED <<queue, hand>>

(* Mutant: the refused task is dropped instead of handed back. *)
RefuseDropsTask(t) ==
  /\ queued' = queued - 1
  /\ Goto(t, "run", Nobody)
  /\ UNCHANGED <<queue, hand, holder, outcome, stack, helped>>

(* The queue is full and another thread asks: AdmissionFull, with the task. *)
Refuse(t) ==
  /\ queued' = queued - 1
  /\ hand' = hand \union {on[t]}
  /\ Goto(t, "run", Nobody)
  /\ UNCHANGED <<queue, holder, outcome, stack, helped>>

(* try_send and what try_submit makes of its answer. *)
TrySend(t) ==
  /\ pc[t] = "trying"
  /\ IF Len(queue) < Bound THEN Enqueue(t)
     ELSE IF t \in Workers THEN Help(t) ELSE Refuse(t)
  /\ UNCHANGED <<pool, token>>

(* The blocking send goes through once the queue has room. *)
Send(t) ==
  /\ pc[t] = "sending"
  /\ Len(queue) < Bound
  /\ Enqueue(t)
  /\ UNCHANGED <<pool, token>>

(* worker_main: recv under the receiver's mutex. *)
Recv(w) ==
  /\ pc[w] = "idle"
  /\ queue # <<>>
  /\ queue' = Tail(queue)
  /\ Goto(w, "picked", Head(queue))
  /\ UNCHANGED <<pool, queued, hand, token, outcome, holder, stack, helped>>

(* worker_main: the counter goes down and the task starts. *)
Start(w) ==
  /\ pc[w] = "picked"
  /\ queued' = queued - 1
  /\ Execute(w, on[w])
  /\ Goto(w, IF on[w] \in token THEN "idle" ELSE "run", Nobody)
  /\ UNCHANGED <<pool, queue, hand, token, holder, helped>>

(* The thunk returns (or the result could not be allocated): the outcome is *)
(* sent and the worker goes on with whatever called it.                     *)
Finish(w, result) ==
  LET k    == Last(stack[w])
      rest == Front(stack[w])
  IN /\ pc[w] = "run"
     /\ stack[w] # <<>>
     /\ outcome' = [outcome EXCEPT ![k] = result]
     /\ stack' = [stack EXCEPT ![w] = rest]
     /\ helped' = helped \ {k}
     /\ queued' = IF k \in helped THEN queued - 1 ELSE queued
     /\ pc' = [pc EXCEPT ![w] = IF rest = <<>> THEN "idle" ELSE "run"]
     /\ UNCHANGED <<pool, queue, hand, token, holder, on>>

(* PendingResult::wait consumes the handle and blocks on the channel. *)
Wait(t, k) ==
  /\ pc[t] = "run"
  /\ holder[k] = Frame(t)
  /\ holder' = [holder EXCEPT ![k] = Nobody]
  /\ Goto(t, "waiting", k)
  /\ UNCHANGED <<pool, queue, queued, hand, token, outcome, stack, helped>>

WaitReturns(t) ==
  /\ pc[t] = "waiting"
  /\ outcome[on[t]] # "none"
  /\ Goto(t, "run", Nobody)
  /\ UNCHANGED <<pool, queue, queued, hand, token, outcome, holder, stack, helped>>

(* Whoever shares the cancel token sets it. *)
Cancel(k) ==
  /\ k \notin token
  /\ outcome[k] = "none"
  /\ token' = token \union {k}
  /\ UNCHANGED <<pool, queue, queued, hand, outcome, holder, pc, on, stack, helped>>

(* Drop for WorkerPool: give up the strong state, then join. *)
DropPool ==
  /\ pool = "open"
  /\ pc[Owner] = "run"
  /\ pool' = "dropped"
  /\ Goto(Owner, "joining", Nobody)
  /\ UNCHANGED <<queue, queued, hand, token, outcome, holder, stack, helped>>

(* Mutant: workers leave as soon as the pool is dropped. *)
WorkerExitsAtOnce(w) ==
  /\ pc[w] = "idle"
  /\ ~SenderAlive
  /\ Goto(w, "exited", Nobody)
  /\ UNCHANGED <<pool, queue, queued, hand, token, outcome, holder, stack, helped>>

(* recv fails once the queue is empty and no sender is left. *)
WorkerExits(w) ==
  /\ pc[w] = "idle"
  /\ queue = <<>>
  /\ ~SenderAlive
  /\ Goto(w, "exited", Nobody)
  /\ UNCHANGED <<pool, queue, queued, hand, token, outcome, holder, stack, helped>>

Joined ==
  /\ pc[Owner] = "joining"
  /\ \A w \in Workers : pc[w] = "exited"
  /\ Goto(Owner, "gone", Nobody)
  /\ UNCHANGED <<pool, queue, queued, hand, token, outcome, holder, stack, helped>>

(* Nothing is left to do unless a client decides so. *)
Quiet ==
  /\ queue = <<>>
  /\ \A w \in Workers : pc[w] = IF SenderAlive THEN "idle" ELSE "exited"
  /\ \A c \in Clients : pc[c] \in {"run", "gone"}
  /\ UNCHANGED vars

Next ==
  \/ \E started \in SUBSET Workers : New(started)
  \/ \E t \in Threads : \/ \E k \in Tasks : TrySubmit(t, k) \/ Submit(t, k) \/ Wait(t, k)
                        \/ TrySend(t) \/ Send(t) \/ WaitReturns(t)
  \/ \E w \in Workers : \/ Recv(w) \/ Start(w) \/ WorkerExits(w)
                        \/ \E result \in Results : Finish(w, result)
  \/ \E k \in Tasks : Cancel(k)
  \/ DropPool \/ Joined \/ Quiet

Spec == Init /\ [][Next]_vars

(* Threads that can run do run, and thunks return: nothing is assumed of    *)
(* what clients choose to submit.                                           *)
Fairness ==
  /\ \A t \in Threads : WF_vars(TrySend(t) \/ Send(t) \/ WaitReturns(t))
  /\ \A w \in Workers : /\ WF_vars(Recv(w) \/ Start(w) \/ WorkerExits(w))
                        /\ WF_vars(\E result \in Results : Finish(w, result))
  /\ WF_vars(Joined)

FairSpec == Spec /\ Fairness

----------------------------------------------------------------------------
Count(q, k) == Cardinality({i \in DOMAIN q : q[i] = k})

Carriers(k) == {t \in Threads : on[t] = k /\ pc[t] \in {"trying", "sending", "picked"}}

(* A task is always in exactly one place: with its caller, on its way to or *)
(* from the queue, in the queue, on one stack, or delivered.  It is never   *)
(* lost by a refusal or a shutdown and never executed twice.                *)
TaskInOnePlace ==
  \A k \in Tasks :
    1 = (IF k \in hand THEN 1 ELSE 0)
        + Cardinality(Carriers(k)) + Count(queue, k)
        + MapThenSumSet(LAMBDA t : Count(stack[t], k), Threads)
        + (IF outcome[k] = "none" THEN 0 ELSE 1)

(* "Dropping the pool disconnects the queue, drains already-admitted work,  *)
(* then joins the workers": after drop every admitted task has its outcome. *)
DropDrains ==
  pc[Owner] = "gone" =>
    /\ queue = <<>> /\ queued = 0
    /\ \A k \in Tasks : k \in hand \/ outcome[k] # "none"

(* Whoever waits for a result, for room in the queue or for the workers to  *)
(* exit goes on some day, unless a worker waits for a task that is queued:  *)
(* submit never brings that about, try_submit may.                          *)
NobodyBlocksForever ==
  \A t \in Threads :
    pc[t] \in {"sending", "waiting", "joining"}
      ~> \/ pc[t] \notin {"sending", "waiting", "joining"}
         \/ \E w \in Workers : pc[w] = "waiting" /\ on[w] \in Range(queue)
=============================================================================
