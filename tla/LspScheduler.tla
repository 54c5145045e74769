----------------------------- MODULE LspScheduler -----------------------------
(***************************************************************************)
(* The language server's scheduling (arandu_lsp): the event loop of        *)
(* dispatcher.rs and its notification handlers, which alone writes the     *)
(* analysis database, the bounded job queues of pool.rs, and the workers   *)
(* that analyse snapshots and send results back over a bounded channel.    *)
(*                                                                         *)
(* A handler of the loop is a list of operations, `todo`, taken one by one *)
(* because workers run in between; with nothing to do the loop selects the *)
(* next event.  What responses and diagnostics say is left out: a request  *)
(* counts its terminal responses.  Some documents stay open; of the others *)
(* the server may hear, with an edit or a file event, or forget.           *)
(***************************************************************************)
EXTENDS Naturals, Sequences, FiniteSets, SequencesExt

CONSTANTS
  Requests, Docs, Reload,   \* the job keys
  Open,                     \* the documents the client has open
  Workers,
  None,
  QueueCap,                 \* the pool's capacity
  ResultCap,                \* JOB_RESULT_CAPACITY
  MaxPending,               \* MAX_PENDING_REQUESTS
  MaxEvents                 \* bound on notifications and discovery events

ASSUME LspAssumption ==
  /\ IsFiniteSet(Requests) /\ IsFiniteSet(Docs) /\ IsFiniteSet(Workers)
  /\ Open \subseteq Docs
  /\ QueueCap \in Nat \ {0} /\ ResultCap \in Nat \ {0} /\ MaxPending \in Nat
  /\ MaxEvents \in Nat

Keys == Requests \union Docs \union {Reload}

(* Jobs are numbered; a number is used again when nobody refers to its job. *)
Jobs == 1 .. QueueCap + Cardinality(Workers) + 1

VARIABLES
  job,           \* per number: key, cancellation state 0, 1 or 2, and whether
                 \* the job holds a snapshot of the database
  interactive, background,   \* the queues, of job numbers
  active,        \* per key: the job whose token is registered, or None
  worker,        \* per worker: where it is, its job and that job's outcome
  channel,       \* the results on their way to the loop
  todo,          \* what the current handler has left to do
  sweep,         \* the keys cancel_analysis has left to cancel
  cancelling,    \* the cancel_for_response in progress, or None
  pending,       \* pending_requests
  deferred_cancellations, deferred_rejections, deferred_reload,
  known,         \* by_uri: the documents the server knows
  dirty,         \* documents whose text waits for the VFS flush
  sent,          \* the requests the client has sent
  late,          \* history: those it cancelled after they were answered
  replies,       \* per request: the terminal responses it got
  workspace_done,   \* discovery has ended
  events         \* how many notifications and discovery events there were

pool     == <<job, interactive, background, active>>
deferred == <<deferred_cancellations, deferred_rejections, deferred_reload>>
documents == <<known, dirty>>
client   == <<sent, late, replies, workspace_done, events>>
vars == <<pool, worker, channel, todo, sweep, cancelling, pending, deferred, documents, client>>

NoJob   == [key |-> None, token |-> 0, snap |-> FALSE]
Idle    == [pc |-> "idle", job |-> 0, outcome |-> None]

Init ==
  /\ job = [j \in Jobs |-> NoJob]
  /\ interactive = <<>> /\ background = <<>>
  /\ active = [k \in Keys |-> 0]
  /\ worker = [w \in Workers |-> Idle]
  /\ channel = <<>>
  /\ todo = <<>> /\ sweep = {} /\ cancelling = None
  /\ pending = {}
  /\ deferred_cancellations = {} /\ deferred_rejections = {} /\ deferred_reload = None
  /\ known = Open /\ dirty = {}
  /\ sent = {} /\ late = {} /\ replies = [r \in Requests |-> 0]
  /\ workspace_done = FALSE /\ events = 0

----------------------------------------------------------------------------
(* The pool *)

Queued(j) == j \in Range(interactive) \union Range(background)
Running(j) == \E w \in Workers : worker[w].job = j
Free(j)   == job[j] = NoJob

Without(queue, j) == SelectSeq(queue, LAMBDA i : i # j)

(* CancellationToken::cancel: fetch_max. *)
Cancelled(r) == [r EXCEPT !.token = IF @ = 0 THEN 1 ELSE @]

(* WorkerPool::spawn under the queue's lock: a queued job with the same key *)
(* is replaced, a running one cancelled, and at capacity an interactive job *)
(* evicts the oldest background job.  Spawned says whether it was admitted. *)
Same(k)        == {j \in Jobs : Queued(j) /\ job[j].key = k}
Kept(queue, k) == SelectSeq(queue, LAMBDA j : job[j].key # k)
Full(k)        == Len(Kept(interactive, k)) + Len(Kept(background, k)) >= QueueCap
Evicts(k)      == Full(k) /\ k \in Requests /\ Kept(background, k) # <<>>
Spawned(k)     == ~Full(k) \/ Evicts(k)

Spawn(k) ==
  LET new     == CHOOSE j \in Jobs : Free(j)
      evicted == IF Evicts(k) THEN {Head(Kept(background, k))} ELSE {}
      gone    == Same(k) \union evicted
      back    == IF Evicts(k) THEN Tail(Kept(background, k)) ELSE Kept(background, k)
  IN /\ job' = [j \in Jobs |->
                  IF j \in gone THEN NoJob
                  ELSE IF j = active[k] THEN Cancelled(job[j])
                  ELSE IF j = new /\ Spawned(k)
                    THEN [key |-> k, token |-> 0, snap |-> k # Reload]
                  ELSE job[j]]
     /\ active' = [l \in Keys |->
                     IF l = k THEN IF Spawned(k) THEN new ELSE 0
                     ELSE IF active[l] \in evicted THEN 0 ELSE active[l]]
     /\ interactive' = IF Spawned(k) /\ k \in Requests
                         THEN Append(Kept(interactive, k), new) ELSE Kept(interactive, k)
     /\ background' = IF Spawned(k) /\ k \notin Requests THEN Append(back, new) ELSE back

(* cancel_for_response up to the unlock: the token is cancelled, a queued   *)
(* job dropped with its snapshot.  Its caller keeps the token.              *)
Mark(k, explicit) ==
  IF active[k] = 0
    THEN cancelling' = None /\ UNCHANGED pool
    ELSE LET j == active[k] IN
         /\ cancelling' = [job |-> j, explicit |-> explicit]
         /\ job' = [job EXCEPT ![j] = [Cancelled(@) EXCEPT !.snap = @ /\ ~Queued(j)]]
         /\ interactive' = Without(interactive, j)
         /\ background' = Without(background, j)
         /\ active' = IF Queued(j) THEN [active EXCEPT ![k] = 0] ELSE active

(* claim_cancelled by the loop: the request's one reply is the loop's now,  *)
(* sent at once for $/cancelRequest and deferred for cancel_analysis.       *)
Claim ==
  /\ cancelling # None
  /\ LET j == cancelling.job
         r == job[j].key
         claimed == job[j].token = 1
     IN /\ job' = [job EXCEPT ![j] = IF ~Running(j) THEN NoJob
                                      ELSE IF claimed THEN [@ EXCEPT !.token = 2] ELSE @]
        /\ IF claimed /\ r \in Requests
             THEN IF cancelling.explicit
                    THEN /\ pending' = pending \ {r}
                         /\ replies' = [replies EXCEPT ![r] = @ + 1]
                         /\ UNCHANGED deferred_cancellations
                    ELSE /\ deferred_cancellations' = deferred_cancellations \union {r}
                         /\ UNCHANGED <<pending, replies>>
             ELSE UNCHANGED <<pending, replies, deferred_cancellations>>
  /\ cancelling' = None
  /\ UNCHANGED <<interactive, background, active, worker, channel, todo, sweep,
                 deferred_rejections, deferred_reload, documents, sent, late, workspace_done, events>>

----------------------------------------------------------------------------
(* The workers *)

Result(kind, key) == [kind |-> kind, key |-> key]

At(w, pc) == worker[w].pc = pc
JobOf(w)  == job[worker[w].job]
Move(w, pc, outcome) ==
  worker' = [worker EXCEPT ![w] = [@ EXCEPT !.pc = pc, !.outcome = outcome]]

(* worker_loop takes the oldest interactive job, else the oldest other one. *)
Take(w) ==
  /\ At(w, "idle")
  /\ \/ /\ interactive # <<>>
        /\ worker' = [worker EXCEPT ![w] = [pc |-> "start", job |-> Head(interactive), outcome |-> None]]
        /\ interactive' = Tail(interactive)
        /\ UNCHANGED background
     \/ /\ interactive = <<>> /\ background # <<>>
        /\ worker' = [worker EXCEPT ![w] = [pc |-> "start", job |-> Head(background), outcome |-> None]]
        /\ background' = Tail(background)
        /\ UNCHANGED interactive
  /\ UNCHANGED <<job, active, channel, todo, sweep, cancelling, pending, deferred, documents, client>>

DropSnapshot(w) == job' = [job EXCEPT ![worker[w].job].snap = FALSE]

(* link_query and the first look at the token: a cancelled job drops its    *)
(* snapshot and goes on to report that.                                     *)
Start(w) ==
  /\ At(w, "start")
  /\ IF JobOf(w).token # 0
       THEN Move(w, "finished", "cancelled") /\ DropSnapshot(w)
       ELSE Move(w, "run", None) /\ UNCHANGED job
  /\ UNCHANGED <<interactive, background, active, channel, todo, sweep, cancelling,
                 pending, deferred, documents, client>>

Writing == todo # <<>> /\ Head(todo).op \in {"write", "commit", "flush"} /\ sweep = {} /\ cancelling = None

(* Mutant: the snapshot is kept until the result has been sent. *)
RunKeepsSnapshot(w, outcome) ==
  /\ At(w, "run")
  /\ outcome = "cancelled" => JobOf(w).token # 0 \/ (Writing /\ JobOf(w).snap)
  /\ Move(w, "finished", outcome)
  /\ UNCHANGED <<pool, channel, todo, sweep, cancelling, pending, deferred, documents, client>>

(* The analysis ends with a value, with an error or a panic, or unwinds     *)
(* because its token or a writer cancelled its queries; the snapshot is     *)
(* dropped before anything is sent.                                         *)
Run(w, outcome) ==
  /\ At(w, "run")
  /\ outcome = "cancelled" => JobOf(w).token # 0 \/ (Writing /\ JobOf(w).snap)
  /\ Move(w, "finished", outcome)
  /\ DropSnapshot(w)
  /\ UNCHANGED <<interactive, background, active, channel, todo, sweep, cancelling,
                 pending, deferred, documents, client>>

(* What the closure does with its outcome: a request claims the reply of a  *)
(* cancelled token (send_cancelled_if_needed) before it reports a value;    *)
(* diagnostics and reloads of a cancelled token report nothing.             *)
Report(w) ==
  /\ At(w, "finished")
  /\ LET j == worker[w].job
         k == job[j].key
         outcome == worker[w].outcome
         claims == k \in Requests /\ outcome # "error" /\ job[j].token = 1
         silent == CASE k \in Requests -> ~claims /\ outcome = "cancelled"
                     [] k \in Docs -> outcome = "cancelled" \/ (outcome = "value" /\ job[j].token # 0)
                     [] k = Reload -> outcome = "cancelled" \/ job[j].token # 0
         result == CASE claims -> Result("cancelled", k)
                     [] ~claims /\ k \in Requests -> Result("reply", k)
                     [] k \in Docs -> Result("diagnostics", k)
                     [] k = Reload -> Result("reload", outcome)
     IN /\ job' = IF claims THEN [job EXCEPT ![j].token = 2] ELSE job
        /\ IF silent THEN Move(w, "retire", None) ELSE Move(w, "send", result)
  /\ UNCHANGED <<interactive, background, active, channel, todo, sweep, cancelling,
                 pending, deferred, documents, client>>

(* The blocking send. *)
Send(w) ==
  /\ At(w, "send")
  /\ Len(channel) < ResultCap
  /\ channel' = Append(channel, worker[w].outcome)
  /\ Move(w, "retire", None)
  /\ UNCHANGED <<pool, todo, sweep, cancelling, pending, deferred, documents, client>>

(* Nobody but the loop's cancel_for_response can still have the token. *)
Forget(j) ==
  job' = IF cancelling # None /\ cancelling.job = j THEN job ELSE [job EXCEPT ![j] = NoJob]

(* Mutant: the key is deregistered whoever has registered it. *)
RetireByKey(w) ==
  /\ At(w, "retire")
  /\ active' = [active EXCEPT ![JobOf(w).key] = 0]
  /\ worker' = [worker EXCEPT ![w] = Idle]
  /\ Forget(worker[w].job)
  /\ UNCHANGED <<interactive, background, channel, todo, sweep, cancelling, pending,
                 deferred, documents, client>>

(* remove_active_token, unless a newer job has registered the key. *)
Retire(w) ==
  /\ At(w, "retire")
  /\ active' = [active EXCEPT ![JobOf(w).key] = IF @ = worker[w].job THEN 0 ELSE @]
  /\ worker' = [worker EXCEPT ![w] = Idle]
  /\ Forget(worker[w].job)
  /\ UNCHANGED <<interactive, background, channel, todo, sweep, cancelling, pending,
                 deferred, documents, client>>

WorkerStep(w) ==
  \/ Take(w) \/ Start(w) \/ Report(w) \/ Send(w) \/ Retire(w)
  \/ \E outcome \in {"value", "error", "cancelled"} : Run(w, outcome)

----------------------------------------------------------------------------
(* The event loop *)

Op(op, arg) == [op |-> op, arg |-> arg]

DiagnoseAll == SetToSeq({Op("spawn_diagnostics", d) : d \in Open})
Commit      == <<Op("cancel_analysis", None), Op("commit", None)>>
Flush(docs) == <<Op("cancel_analysis", None), Op("flush", docs)>> \o DiagnoseAll
Top         == <<Op("apply_deferred_reload", None), Op("drain_deferred_rejections", None)>>

(* The loop is between two handlers, in next_event. *)
Selecting == todo = <<>>
Handle(ops) == todo' = ops \o Top

Notified == /\ events < MaxEvents
            /\ events' = events + 1

(* A request: flush_for_request, then spawn_goto, spawn_json or             *)
(* spawn_json_result.                                                       *)
OnRequest(r) ==
  /\ Selecting
  /\ r \notin sent
  /\ sent' = sent \union {r}
  /\ Handle((IF dirty # {} THEN Flush(dirty) ELSE <<>>) \o <<Op("spawn_request", r)>>)
  /\ UNCHANGED <<pool, worker, channel, sweep, cancelling, pending, deferred, documents,
                 late, replies, workspace_done, events>>

(* $/cancelRequest *)
OnCancel(r) ==
  /\ Selecting
  /\ Notified
  /\ r \in sent
  /\ late' = IF replies[r] = 0 THEN late ELSE late \union {r}
  /\ Mark(r, TRUE)
  /\ Handle(<<>>)
  /\ UNCHANGED <<worker, channel, sweep, pending, deferred, documents, sent, replies,
                 workspace_done>>

(* didOpen, didClose and the file events: cancel_analysis before the write, *)
(* then diagnostics of the open documents; a changed manifest starts the    *)
(* package reload instead.  A rename spawns diagnostics of an open file     *)
(* before the next write.  A document that is closed, deleted or renamed    *)
(* loses its queued text and, unless it stays open, its place in by_uri.    *)
OnFileEvent ==
  /\ Selecting
  /\ Notified
  /\ \/ Handle(Commit \o DiagnoseAll)
     \/ Handle(Commit \o <<Op("spawn_package_reload", None)>>)
     \/ \E d \in Open :
          Handle(Commit \o <<Op("spawn_diagnostics", d), Op("write", None)>> \o DiagnoseAll)
  /\ \E gone \in SUBSET Docs : dirty' = dirty \ gone /\ known' = (known \ gone) \union Open
  /\ UNCHANGED <<pool, worker, channel, sweep, cancelling, pending, deferred, sent, late, replies,
                 workspace_done>>

(* didChange of a known document only queues its text; an unknown one is    *)
(* committed first, and nothing is cancelled before that write.             *)
OnChange(d) ==
  /\ Selecting
  /\ Notified
  /\ Handle(IF d \in known THEN <<>> ELSE <<Op("write", None)>>)
  /\ known' = known \union {d} /\ dirty' = dirty \union {d}
  /\ UNCHANGED <<pool, worker, channel, sweep, cancelling, pending, deferred, sent, late, replies,
                 workspace_done>>

(* didSave, with or without text: nothing to flush, nothing is cancelled,   *)
(* and diagnostics of a known document.                                     *)
OnSave(d) ==
  /\ Selecting
  /\ Notified
  /\ dirty' \in {dirty, dirty \union {d}}
  /\ Handle(IF dirty' # {} THEN Flush(dirty')
            ELSE IF d \in known THEN <<Op("spawn_diagnostics", d)>> ELSE <<>>)
  /\ UNCHANGED <<pool, worker, channel, sweep, cancelling, pending, deferred, known, sent, late, replies,
                 workspace_done>>

(* The debounce deadline of some documents: flush_due. *)
OnTimeout ==
  /\ Selecting
  /\ channel = <<>>
  /\ \E due \in SUBSET dirty \ {{}} : Handle(Flush(due))
  /\ UNCHANGED <<pool, worker, channel, sweep, cancelling, pending, deferred, documents, client>>

(* A discovery event: a registration, taken only while no request is        *)
(* pending and no result waits, and at the end diagnostics.                 *)
OnWorkspace ==
  /\ Selecting
  /\ Notified
  /\ ~workspace_done
  /\ channel = <<>> /\ pending = {}
  /\ \/ Handle(<<Op("write", None)>>) /\ UNCHANGED workspace_done
     \/ Handle(DiagnoseAll) /\ workspace_done' = TRUE
  /\ UNCHANGED <<pool, worker, channel, sweep, cancelling, pending, deferred, documents, sent, late, replies>>

Reloaded == <<Op("write", None)>> \o DiagnoseAll

(* Mutant: a result is sent to the client whether or not it is expected. *)
OnResultUnchecked ==
  /\ Selecting
  /\ channel # <<>>
  /\ channel' = Tail(channel)
  /\ LET key == Head(channel).key
     IN /\ pending' = pending \ {key}
        /\ replies' = [r \in Requests |-> IF r = key THEN replies[r] + 1 ELSE replies[r]]
  /\ Handle(<<>>)
  /\ UNCHANGED <<pool, worker, sweep, cancelling, deferred, documents, sent, late, workspace_done, events>>

(* handle_job_result of a received result. *)
OnResult ==
  /\ Selecting
  /\ channel # <<>>
  /\ channel' = Tail(channel)
  /\ LET kind == Head(channel).kind
         key  == Head(channel).key
     IN \/ /\ kind \in {"reply", "cancelled"}
           /\ pending' = pending \ {key}
           /\ replies' = [replies EXCEPT ![key] = IF key \in pending THEN @ + 1 ELSE @]
           /\ Handle(<<>>)
           /\ UNCHANGED deferred_reload
        \/ /\ kind = "diagnostics"
           /\ Handle(<<>>)
           /\ UNCHANGED <<pending, replies, deferred_reload>>
        \/ /\ kind = "reload"
           /\ IF pending # {}
                THEN deferred_reload' = key /\ Handle(<<>>)
                ELSE /\ Handle(IF key = "value" THEN Reloaded ELSE <<>>)
                     /\ UNCHANGED deferred_reload
           /\ UNCHANGED <<pending, replies>>
  /\ UNCHANGED <<pool, worker, sweep, cancelling, deferred_cancellations,
                 deferred_rejections, documents, sent, late, workspace_done, events>>

(* The head of todo is done; what follows is rest. *)
Doing(op) ==
  /\ todo # <<>> /\ Head(todo).op = op
  /\ sweep = {} /\ cancelling = None
Arg == Head(todo).arg
Done(first) == todo' = first \o Tail(todo)

(* reject_saturated_request, or the pool's answer. *)
SpawnRequest ==
  /\ Doing("spawn_request")
  /\ Done(<<>>)
  /\ IF Cardinality(pending) >= MaxPending
       THEN /\ deferred_rejections' = deferred_rejections \union {Arg}
            /\ UNCHANGED <<pool, pending>>
       ELSE /\ Spawn(Arg)
            /\ IF Spawned(Arg)
                 THEN pending' = pending \union {Arg} /\ UNCHANGED deferred_rejections
                 ELSE deferred_rejections' = deferred_rejections \union {Arg} /\ UNCHANGED pending
  /\ UNCHANGED <<worker, channel, sweep, cancelling, deferred_cancellations,
                 deferred_reload, documents, client>>

(* spawn_diagnostics; what the queue refuses is not tried again. *)
SpawnDiagnostics ==
  /\ Doing("spawn_diagnostics")
  /\ Done(<<>>)
  /\ IF Arg \in dirty THEN UNCHANGED pool ELSE Spawn(Arg)
  /\ UNCHANGED <<worker, channel, sweep, cancelling, pending, deferred, documents, client>>

SpawnPackageReload ==
  /\ Doing("spawn_package_reload")
  /\ Done(<<>>)
  /\ Spawn(Reload)
  /\ UNCHANGED <<worker, channel, sweep, cancelling, pending, deferred, documents, client>>

(* Mutant: only the keys of requests are collected. *)
CancelAnalysisRequestsOnly ==
  /\ Doing("cancel_analysis")
  /\ Done(<<>>)
  /\ sweep' = {k \in Requests : active[k] # 0}
  /\ UNCHANGED <<pool, worker, channel, cancelling, pending, deferred, documents, client>>

(* cancel_analysis collects the keys under the lock, *)
CancelAnalysis ==
  /\ Doing("cancel_analysis")
  /\ Done(<<>>)
  /\ sweep' = {k \in Requests \union Docs : active[k] # 0}
  /\ UNCHANGED <<pool, worker, channel, cancelling, pending, deferred, documents, client>>

(* and then calls cancel_for_response on each. *)
CancelNext ==
  /\ cancelling = None
  /\ \E k \in sweep : sweep' = sweep \ {k} /\ Mark(k, FALSE)
  /\ UNCHANGED <<worker, channel, todo, pending, deferred, documents, client>>

(* A write of the database waits until every snapshot has been dropped.     *)
(* Documents it commits, and files it finds on disk, are known from then on.*)
Write ==
  /\ Writing
  /\ \A j \in Jobs : ~job[j].snap
  /\ Done(<<>>)
  /\ dirty' = IF Head(todo).op = "flush" THEN dirty \ Arg ELSE dirty
  /\ \E found \in SUBSET Docs :
       known' = known \union (IF Head(todo).op = "flush" THEN Arg ELSE found)
  /\ UNCHANGED <<pool, worker, channel, sweep, cancelling, pending, deferred, client>>

ApplyDeferredReload ==
  /\ Doing("apply_deferred_reload")
  /\ IF pending = {}
       THEN /\ Done(IF deferred_reload = "value" THEN Reloaded ELSE <<>>)
            /\ deferred_reload' = None
       ELSE Done(<<>>) /\ UNCHANGED deferred_reload
  /\ UNCHANGED <<pool, worker, channel, sweep, cancelling, pending, deferred_cancellations,
                 deferred_rejections, documents, client>>

(* Cancellations of requests answered in the meantime are suppressed. *)
DrainDeferredRejections ==
  /\ Doing("drain_deferred_rejections")
  /\ Done(<<>>)
  /\ replies' = [r \in Requests |->
                   IF r \in (deferred_cancellations \intersect pending) \union deferred_rejections
                     THEN replies[r] + 1 ELSE replies[r]]
  /\ pending' = pending \ (deferred_cancellations \union deferred_rejections)
  /\ deferred_cancellations' = {} /\ deferred_rejections' = {}
  /\ UNCHANGED <<pool, worker, channel, sweep, cancelling, deferred_reload, documents, sent, late, workspace_done, events>>

LoopStep ==
  \/ Claim \/ CancelNext
  \/ SpawnRequest \/ SpawnDiagnostics \/ SpawnPackageReload
  \/ CancelAnalysis \/ Write \/ ApplyDeferredReload \/ DrainDeferredRejections

Next ==
  \/ \E r \in Requests : OnRequest(r) \/ OnCancel(r)
  \/ OnFileEvent \/ OnTimeout \/ OnWorkspace \/ OnResult \/ LoopStep
  \/ \E d \in Docs : OnChange(d) \/ OnSave(d)
  \/ \E w \in Workers : WorkerStep(w)

Spec == Init /\ [][Next]_vars

(* The loop and the workers run, analyses end, and the deadline of a queued *)
(* text passes.                                                             *)
FairSpec ==
  /\ Spec
  /\ WF_vars(LoopStep) /\ WF_vars(OnResult) /\ WF_vars(OnTimeout)
  /\ \A w \in Workers : WF_vars(WorkerStep(w))

----------------------------------------------------------------------------
(* "Cancel an explicit client request and claim its single protocol reply": *)
(* no request gets two terminal responses, whoever races for them, except   *)
(* one that the client cancelled when it already had its answer: that one   *)
(* may get RequestCancelled as a second response, and never a third.        *)
SingleReply == \A r \in Requests : replies[r] <= IF r \in late THEN 2 ELSE 1

(* "Retire snapshot jobs before the event-loop writer mutates Salsa": a job *)
(* that holds a snapshot is cancelled or registered under its key, so that  *)
(* cancel_analysis reaches it, whatever replaced, evicted or refused it.    *)
SnapshotsReachable ==
  \A j \in Jobs : job[j].snap => job[j].token # 0 \/ active[job[j].key] = j

(* "Retire snapshot jobs before the event-loop writer mutates Salsa": once  *)
(* cancel_analysis has made its calls, a write it precedes waits only for   *)
(* jobs that are running and cancelled, never for a queued one.             *)
RetiredBeforeCommit ==
  Writing /\ Head(todo).op # "write" =>
    \A j \in Jobs : job[j].snap => Running(j) /\ job[j].token # 0

(* "Workers send with blocking `send` (backpressure: the loop always        *)
(* drains)": a write never waits for a queued job's snapshot while every    *)
(* worker waits for the loop to make room in the channel.                   *)
LoopAlwaysDrains ==
  ~ /\ Writing /\ \E j \in Jobs : job[j].snap /\ Queued(j)
    /\ Len(channel) = ResultCap /\ \A w \in Workers : At(w, "send")

(* "every mutation path cancels snapshot jobs before touching state": no    *)
(* request's analysis is unwound by a write while nobody cancelled it, for  *)
(* then nobody answers it.                                                  *)
Unwound(r) ==
  \E w \in Workers : /\ At(w, "finished") /\ worker[w].outcome = "cancelled"
                     /\ JobOf(w).key = r /\ JobOf(w).token = 0

(* Every request the client sends is answered, with a result, an error, a   *)
(* cancellation or a rejection, unless the loop stops draining for good or  *)
(* a write that no cancel_analysis precedes unwinds its analysis.           *)
RequestsAnswered ==
  \A r \in Requests :
    <>(r \in sent) => <>(replies[r] > 0 \/ ~LoopAlwaysDrains \/ Unwound(r))
=============================================================================
