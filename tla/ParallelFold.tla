---------------------------- MODULE ParallelFold ----------------------------
(***************************************************************************)
(* One call of ar_rt_parallel_fold_run (worker_scheduler/parallel.rs): the *)
(* calling thread, executor 0, and the pool tasks 1 .. W-1 it submits      *)
(* take chunk indices from a shared counter until the chunks run out, a    *)
(* chunk fails or the stop flag is raised.                                 *)
(*                                                                         *)
(* The pool is WorkerPool's promise: a task submitted from outside the     *)
(* pool runs on some worker later, one submitted from a worker runs inside *)
(* submit.  Codes are what a chunk's thunk may return besides 0.           *)
(***************************************************************************)
EXTENDS Integers, FiniteSets, FiniteSetsExt

CONSTANTS
  MaxChunks, MaxWorkers,   \* bounds on the arguments num_chunks and workers
  Codes, None, Running

MaxParallelWorkers == 64
Completed == 0
Failed    == 1
Canceled  == 2

ASSUME FoldAssumption ==
  /\ MaxChunks \in Nat /\ MaxWorkers \in Nat \ {0}
  /\ Codes \subseteq Int \ {Completed} /\ None \notin Int
  /\ Running \notin Int /\ Running # None

VARIABLES
  args,         \* chunks, workers, stop_given (stop_flag not null), on_worker
  next_chunk,   \* the shared counter
  stop,         \* the stop flag, raised by anybody who has it
  code,         \* per chunk: None, Running or what its thunk returned
  pc, index,    \* per executor: where it is, and the chunk it works on
  first_error,  \* per executor: the chunk its outcome reports, or None
  canceled,     \* executors whose outcome says externally_canceled
  caller,       \* where the calling thread is
  submitted,    \* how many tasks have been submitted
  submission_failed,
  ret

vars == <<args, next_chunk, stop, code, pc, index, first_error, canceled, caller,
          submitted, submission_failed, ret>>

Chunks == 0 .. MaxChunks - 1
Executors == 0 .. MaxWorkers - 1

(* w, the number of executors, the calling thread included. *)
W == Min({Max({1, Min({args.workers, MaxParallelWorkers})}), args.chunks})

Init ==
  /\ args \in [chunks: 0 .. MaxChunks, workers: 0 .. MaxWorkers,
              stop_given: BOOLEAN, on_worker: BOOLEAN]
  /\ next_chunk = 0
  /\ stop \in IF args.stop_given THEN BOOLEAN ELSE {FALSE}
  /\ code = [i \in Chunks |-> None]
  /\ pc = [e \in Executors |-> "unborn"]
  /\ index = [e \in Executors |-> None]
  /\ first_error = [e \in Executors |-> None]
  /\ canceled = {}
  /\ caller = "entered"
  /\ submitted = 0
  /\ submission_failed = FALSE
  /\ ret = None

Return(value) == ret' = value /\ caller' = "returned"

(* The early returns, the choice of the inline path, and the pool lookup.  *)
Enter ==
  /\ caller = "entered"
  /\ \/ args.chunks = 0 /\ Return(Completed) /\ UNCHANGED pc
     \/ args.chunks > 0 /\ W <= 1 /\ caller' = "inline"
          /\ pc' = [pc EXCEPT ![0] = "top"] /\ UNCHANGED ret
     \/ W > 1 /\ caller' = "submitting" /\ UNCHANGED <<pc, ret>>
     \/ W > 1 /\ Return(Failed) /\ UNCHANGED pc
  /\ UNCHANGED <<args, next_chunk, stop, code, index, first_error, canceled,
                 submitted, submission_failed>>

(* One turn of the submission loop: try_new, then pool.submit, which runs  *)
(* the task in place when the caller is itself a worker.                   *)
SubmitTask ==
  /\ caller = "submitting"
  /\ submitted < W - 1
  /\ submitted' = submitted + 1
  /\ pc' = [pc EXCEPT ![submitted + 1] = "queued"]
  /\ caller' = IF args.on_worker THEN "helping" ELSE "submitting"
  /\ UNCHANGED <<args, next_chunk, stop, code, index, first_error, canceled,
                 submission_failed, ret>>

HelpReturns ==
  /\ caller = "helping"
  /\ pc[submitted] \in {"done", "lost"}
  /\ caller' = "submitting"
  /\ UNCHANGED <<args, next_chunk, stop, code, pc, index, first_error, canceled,
                 submitted, submission_failed, ret>>

(* Mutant: a failed submission returns at once. *)
SubmitFailsEarlyReturn ==
  /\ caller = "submitting"
  /\ submitted < W - 1
  /\ submission_failed' = TRUE
  /\ Return(Failed)
  /\ UNCHANGED <<args, next_chunk, stop, code, pc, index, first_error, canceled, submitted>>

(* The task could not be built or the pool refused it: no more are tried.  *)
SubmitFails ==
  /\ caller = "submitting"
  /\ submitted < W - 1
  /\ submission_failed' = TRUE
  /\ caller' = "own"
  /\ pc' = [pc EXCEPT ![0] = "top"]
  /\ UNCHANGED <<args, next_chunk, stop, code, index, first_error, canceled, submitted, ret>>

(* All tasks are with the pool: the caller joins in. *)
RunOwnShare ==
  /\ caller = "submitting"
  /\ submitted = W - 1
  /\ caller' = "own"
  /\ pc' = [pc EXCEPT ![0] = "top"]
  /\ UNCHANGED <<args, next_chunk, stop, code, index, first_error, canceled,
                 submitted, submission_failed, ret>>

(* A worker picks the task up; its result buffer may fail to be allocated. *)
StartTask(e) ==
  /\ pc[e] = "queued"
  /\ pc' \in {[pc EXCEPT ![e] = "top"], [pc EXCEPT ![e] = "lost"]}
  /\ UNCHANGED <<args, next_chunk, stop, code, index, first_error, canceled, caller,
                 submitted, submission_failed, ret>>

(* The top of execute_chunks' loop, up to the fetch_add: the stop check. *)
CheckStop(e) ==
  /\ pc[e] = "top"
  /\ ~(caller = "inline" /\ next_chunk = args.chunks)
  /\ IF stop
       THEN /\ canceled' = canceled \union {e}
            /\ pc' = [pc EXCEPT ![e] = "done"]
       ELSE /\ pc' = [pc EXCEPT ![e] = "take"]
            /\ UNCHANGED canceled
  /\ UNCHANGED <<args, next_chunk, stop, code, index, first_error, caller, submitted,
                 submission_failed, ret>>

(* fetch_add, and the call of the thunk when the index is a chunk's. *)
TakeChunk(e) ==
  /\ pc[e] = "take"
  /\ next_chunk' = next_chunk + 1
  /\ IF next_chunk >= args.chunks
       THEN /\ pc' = [pc EXCEPT ![e] = "done"]
            /\ UNCHANGED <<index, code>>
       ELSE /\ index' = [index EXCEPT ![e] = next_chunk]
            /\ code' = [code EXCEPT ![next_chunk] = Running]
            /\ pc' = [pc EXCEPT ![e] = "chunk"]
  /\ UNCHANGED <<args, stop, first_error, canceled, caller, submitted,
                 submission_failed, ret>>

(* Mutant: a failing chunk ends its executor without being recorded. *)
FinishChunkForgets(e, result) ==
  /\ pc[e] = "chunk"
  /\ code' = [code EXCEPT ![index[e]] = result]
  /\ pc' = [pc EXCEPT ![e] = IF result = Completed THEN "top" ELSE "done"]
  /\ UNCHANGED <<args, next_chunk, stop, index, first_error, canceled, caller, submitted,
                 submission_failed, ret>>

(* The thunk returns: an error is recorded, raises the flag and ends this  *)
(* executor.                                                               *)
FinishChunk(e, result) ==
  /\ pc[e] = "chunk"
  /\ code' = [code EXCEPT ![index[e]] = result]
  /\ IF result = Completed
       THEN /\ pc' = [pc EXCEPT ![e] = "top"]
            /\ UNCHANGED <<first_error, stop>>
       ELSE /\ pc' = [pc EXCEPT ![e] = "done"]
            /\ first_error' = [first_error EXCEPT ![e] = index[e]]
            /\ stop' = (args.stop_given \/ stop)
  /\ UNCHANGED <<args, next_chunk, index, canceled, caller, submitted,
                 submission_failed, ret>>

(* The inline path has no outcome to merge: it returns what stopped it, and *)
(* does not look at the flag again after the last chunk.                    *)
InlineReturn ==
  /\ caller = "inline"
  /\ pc[0] = "done" \/ (pc[0] = "top" /\ next_chunk = args.chunks)
  /\ pc' = [pc EXCEPT ![0] = "done"]
  /\ Return(IF first_error[0] # None THEN code[first_error[0]]
            ELSE IF 0 \in canceled THEN Canceled ELSE Completed)
  /\ UNCHANGED <<args, next_chunk, stop, code, index, first_error, canceled,
                 submitted, submission_failed>>

Errors == {first_error[e] : e \in Executors} \ {None}

(* Mutant: the caller's own error wins over an earlier chunk's. *)
CollectOwnFirst ==
  /\ caller = "own"
  /\ pc[0] = "done"
  /\ \A e \in 1 .. submitted : pc[e] \in {"done", "lost"}
  /\ Return(IF submission_failed \/ \E e \in Executors : pc[e] = "lost" THEN Failed
            ELSE IF first_error[0] # None THEN code[first_error[0]]
            ELSE IF Errors # {} THEN code[Min(Errors)]
            ELSE IF canceled # {} THEN Canceled ELSE Completed)
  /\ UNCHANGED <<args, next_chunk, stop, code, pc, index, first_error, canceled,
                 submitted, submission_failed>>

(* Mutant: the caller waits for tasks it never submitted. *)
CollectWaitsForAll ==
  /\ caller = "own"
  /\ pc[0] = "done"
  /\ \A e \in 1 .. W - 1 : pc[e] \in {"done", "lost"}
  /\ Return(IF submission_failed THEN Failed ELSE Completed)
  /\ UNCHANGED <<args, next_chunk, stop, code, pc, index, first_error, canceled,
                 submitted, submission_failed>>

(* Every pending result is waited for, then the outcomes are merged. *)
Collect ==
  /\ caller = "own"
  /\ pc[0] = "done"
  /\ \A e \in 1 .. submitted : pc[e] \in {"done", "lost"}
  /\ submission_failed' = (submission_failed \/ \E e \in Executors : pc[e] = "lost")
  /\ Return(IF submission_failed' THEN Failed
            ELSE IF Errors # {} THEN code[Min(Errors)]
            ELSE IF canceled # {} THEN Canceled ELSE Completed)
  /\ stop' = IF ~submission_failed' /\ Errors # {} THEN args.stop_given ELSE stop
  /\ UNCHANGED <<args, next_chunk, code, pc, index, first_error, canceled, submitted>>

(* Whoever else holds the stop flag raises it. *)
CancelFold ==
  /\ args.stop_given /\ ~stop /\ ret = None
  /\ stop' = TRUE
  /\ UNCHANGED <<args, next_chunk, code, pc, index, first_error, canceled, caller,
                 submitted, submission_failed, ret>>

Over == ret # None /\ UNCHANGED vars

Next ==
  \/ Enter \/ SubmitTask \/ HelpReturns \/ SubmitFails \/ RunOwnShare
  \/ InlineReturn \/ Collect \/ CancelFold \/ Over
  \/ \E e \in Executors :
       \/ StartTask(e) \/ CheckStop(e) \/ TakeChunk(e)
       \/ \E result \in Codes \union {Completed} : FinishChunk(e, result)

Spec == Init /\ [][Next]_vars

(* The calling thread and the workers run, and thunks return. *)
Fairness ==
  /\ WF_vars(Enter \/ SubmitTask \/ HelpReturns \/ RunOwnShare \/ InlineReturn \/ Collect)
  /\ \A e \in Executors :
       WF_vars(StartTask(e) \/ CheckStop(e) \/ TakeChunk(e)
               \/ \E result \in Codes \union {Completed} : FinishChunk(e, result))

FairSpec == Spec /\ Fairness

----------------------------------------------------------------------------
(* "0 on success (all chunks completed, result buffers populated)". *)
SuccessMeansAllChunks ==
  ret = Completed => \A i \in 0 .. args.chunks - 1 : code[i] = Completed

(* Whatever the schedule, a failing call reports the failing chunk with the *)
(* lowest index among those that ran, and raises the flag.                  *)
LowestErrorReported ==
  LET failing == {i \in Chunks : code[i] \in Codes}
  IN ret # None /\ failing # {} /\ ~submission_failed
       => ret = code[Min(failing)] /\ stop = args.stop_given

(* The call is structured: once it has returned, nobody touches the buffers *)
(* or the flag again.                                                       *)
NothingRunsAfterReturn ==
  ret # None => /\ \A e \in Executors : pc[e] \in {"unborn", "done", "lost"}
                /\ \A i \in Chunks : code[i] # Running

(* The call returns. *)
FoldReturns == <>(ret # None)
=============================================================================
