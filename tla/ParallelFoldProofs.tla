------------------------- MODULE ParallelFoldProofs -------------------------
(***************************************************************************)
(* For every number of chunks and executors: ar_rt_parallel_fold_run       *)
(* reports success only when every chunk has completed, reports the error  *)
(* of the lowest chunk that failed, and leaves nobody running.             *)
(*                                                                         *)
(* Taken says which chunks the shared counter has given away and to whom,  *)
(* Ended why an executor stopped: it failed, it saw the flag, or no chunk  *)
(* was left.  The caller is one of the executors, so what stopped it alone *)
(* already says whether the chunks ran out.                                *)
(***************************************************************************)
EXTENDS ParallelFold, TLAPS, NaturalsInduction, WellFoundedInduction

TypeOK ==
  /\ args \in [chunks: 0 .. MaxChunks, workers: 0 .. MaxWorkers,
              stop_given: BOOLEAN, on_worker: BOOLEAN]
  /\ next_chunk \in Nat
  /\ stop \in BOOLEAN
  /\ code \in [Chunks -> Codes \union {None, Running, Completed}]
  /\ pc \in [Executors -> {"unborn", "queued", "top", "take", "chunk", "done", "lost"}]
  /\ index \in [Executors -> Chunks \union {None}]
  /\ first_error \in [Executors -> Chunks \union {None}]
  /\ canceled \subseteq Executors
  /\ caller \in {"entered", "inline", "submitting", "helping", "own", "returned"}
  /\ submitted \in Nat
  /\ submission_failed \in BOOLEAN
  /\ ret \in Codes \union {None, Completed, Failed, Canceled}

(* Where the calling thread is decides which executors there are. *)
Phases ==
  /\ ret # None <=> caller = "returned"
  /\ submitted = 0 \/ submitted < W
  /\ \A e \in Executors : e > submitted => pc[e] = "unborn"
  /\ caller \in {"entered", "submitting", "helping"} => pc[0] = "unborn"
  /\ caller = "entered" => next_chunk = 0
  /\ caller \in {"entered", "inline"} => submitted = 0

(* The counter has given away the chunks below it.  One that is running has *)
(* one executor, one that failed is somebody's error.                       *)
Taken ==
  /\ \A i \in Chunks : code[i] # None <=> i < next_chunk /\ i < args.chunks
  /\ \A i \in Chunks : code[i] = Running => \E e \in Executors : pc[e] = "chunk" /\ index[e] = i
  /\ \A i \in Chunks : code[i] \in Codes => \E e \in Executors : first_error[e] = i
  /\ \A e \in Executors : pc[e] = "chunk" => index[e] \in Chunks /\ code[index[e]] = Running
  /\ \A e, f \in Executors :
       pc[e] = "chunk" /\ pc[f] = "chunk" /\ index[e] = index[f] => e = f

(* An executor that has ended failed, saw the flag, or found no chunk. *)
Ended ==
  /\ \A e \in Executors : pc[e] = "done" =>
       first_error[e] # None \/ e \in canceled \/ next_chunk >= args.chunks
  /\ \A e \in Executors : first_error[e] # None => pc[e] = "done" /\ code[first_error[e]] \in Codes
  /\ stop => args.stop_given
  /\ (\E e \in Executors : first_error[e] # None) => stop = args.stop_given

(* What is promised of a call that has returned. *)
Promises == SuccessMeansAllChunks /\ LowestErrorReported /\ NothingRunsAfterReturn

Inv == TypeOK /\ Phases /\ Taken /\ Ended /\ Promises

LEMMA Constants ==
  /\ 0 \in Executors /\ Executors \subseteq Nat /\ Chunks \subseteq Nat
  /\ None \notin Chunks /\ None \notin Codes /\ Running \notin Codes
  /\ Completed \notin Codes /\ Completed # None /\ Completed # Running /\ Running # None
  /\ Failed # None /\ Canceled # None /\ Failed # Completed /\ Canceled # Completed
<1>1. 0 \in Executors /\ Executors \subseteq Nat /\ Chunks \subseteq Nat
  BY FoldAssumption DEF Executors, Chunks
<1>2. /\ None \notin Int /\ Running \notin Int /\ Running # None
      /\ Codes \subseteq Int /\ 0 \notin Codes
  BY FoldAssumption DEF Completed
<1>3. 0 \in Int /\ 1 \in Int /\ 2 \in Int /\ 0 # 1 /\ 0 # 2 /\ Nat \subseteq Int
  OBVIOUS
<1> QED
  BY <1>1, <1>2, <1>3, Zenon DEF Completed, Failed, Canceled

LEMMA MinOfTwo ==
  ASSUME NEW a \in Int, NEW b \in Int
  PROVE  Min({a, b}) \in {a, b} /\ Min({a, b}) <= a /\ Min({a, b}) <= b
<1>1. \E x \in {a, b} : \A y \in {a, b} : x =< y
  OBVIOUS
<1> QED
  BY <1>1 DEF Min

LEMMA MaxOfTwo ==
  ASSUME NEW a \in Int, NEW b \in Int
  PROVE  Max({a, b}) \in {a, b} /\ Max({a, b}) >= a /\ Max({a, b}) >= b
<1>1. \E x \in {a, b} : \A y \in {a, b} : x >= y
  OBVIOUS
<1> QED
  BY <1>1 DEF Max

LEMMA MinOfOne ==
  ASSUME NEW a \in Int
  PROVE  Min({a}) = a
<1>1. \E x \in {a} : \A y \in {a} : x =< y
  OBVIOUS
<1> QED
  BY <1>1 DEF Min

LEMMA MinExists ==
  ASSUME NEW S \in SUBSET Nat, S # {}
  PROVE  Min(S) \in S
<1>1. PICK x \in S : \A y \in S : ~(<<y, x>> \in OpToRel(<, Nat))
  BY NatLessThanWellFounded, WFMin, Zenon
<1>2. \A y \in S : ~(y < x)
  BY <1>1, Zenon DEF OpToRel
<1>3. \A y \in S : x =< y
  BY <1>2
<1> QED
  BY <1>3, Zenon DEF Min

(* There is an executor for every task, and none without a chunk. *)
LEMMA WBounds ==
  ASSUME TypeOK
  PROVE  W \in Nat /\ W <= MaxWorkers /\ W <= args.chunks
<1> DEFINE cs == args.chunks
           ws == args.workers
           m  == Min({ws, MaxParallelWorkers})
           n  == Max({1, m})
<1>1. cs \in Nat /\ ws \in Nat /\ ws <= MaxWorkers /\ MaxWorkers \in Nat /\ MaxWorkers >= 1
  BY FoldAssumption DEF TypeOK
<1>2. W = Min({n, cs})
  BY Zenon DEF W
<1> HIDE DEF cs, ws
<1>3. m \in Int /\ m <= MaxWorkers
  BY <1>1, MinOfTwo DEF MaxParallelWorkers
<1> HIDE DEF m
<1>4. n \in Int /\ 1 <= n /\ n <= MaxWorkers
  <2>1. 1 \in Int
    OBVIOUS
  <2>2. n \in {1, m} /\ n >= 1
    BY <1>3, <2>1, MaxOfTwo, Zenon
  <2> HIDE DEF n
  <2> QED
    BY <1>1, <1>3, <2>2
<1> HIDE DEF n
<1>5. W \in Nat /\ W <= MaxWorkers /\ W <= cs
  BY <1>1, <1>2, <1>4, MinOfTwo
<1> QED
  BY <1>5 DEF cs

LEMMA NotReturned ==
  ASSUME ret' = None
  PROVE  Promises'
BY Constants DEF Promises, SuccessMeansAllChunks, LowestErrorReported,
   NothingRunsAfterReturn

LEMMA SameW ==
  ASSUME args' = args
  PROVE  W' = W
BY DEF W

(* The state of the chunks when every executor has stopped. *)
LEMMA Stopped ==
  ASSUME Inv, \A e \in Executors : pc[e] # "chunk",
         pc[0] = "done" \/ next_chunk >= args.chunks
  PROVE  /\ \A i \in Chunks : code[i] # Running
         /\ Errors = {i \in Chunks : code[i] \in Codes}
         /\ Errors # {} => code[Min(Errors)] \in Codes /\ stop = args.stop_given
         /\ Errors = {} /\ 0 \notin canceled =>
              \A i \in 0 .. args.chunks - 1 : code[i] = Completed
<1>1. TypeOK /\ Phases /\ Taken /\ Ended
  BY DEF Inv
<1>2. \A i \in Chunks : code[i] # Running
  BY <1>1 DEF Taken
<1>3. Errors = {i \in Chunks : code[i] \in Codes}
  <2>1. ASSUME NEW i \in Errors PROVE i \in Chunks /\ code[i] \in Codes
    BY <1>1 DEF TypeOK, Ended, Errors
  <2>2. ASSUME NEW i \in Chunks, code[i] \in Codes PROVE i \in Errors
    BY <1>1, <2>2, Constants DEF Taken, Errors
  <2> QED
    BY <2>1, <2>2
<1>4. ASSUME Errors # {} PROVE code[Min(Errors)] \in Codes /\ stop = args.stop_given
  <2>1. Min(Errors) \in Errors
    BY <1>3, <1>4, Constants, MinExists
  <2> QED
    BY <1>1, <1>3, <1>4, <2>1, Constants DEF Ended, Errors
<1>5. ASSUME Errors = {}, 0 \notin canceled, NEW i \in 0 .. args.chunks - 1
      PROVE  code[i] = Completed
  <2>1. first_error[0] = None
    BY <1>5, Constants DEF Errors
  <2>2. next_chunk >= args.chunks
    BY <1>1, <1>5, <2>1, Constants DEF Ended
  <2>3. i \in Chunks /\ i < next_chunk /\ i < args.chunks
    BY <1>1, <2>2, FoldAssumption DEF TypeOK, Chunks
  <2>4. code[i] # None /\ code[i] # Running /\ code[i] \notin Codes
    BY <1>1, <1>2, <1>3, <1>5, <2>3 DEF Taken
  <2> QED
    BY <1>1, <2>3, <2>4 DEF TypeOK
<1> QED
  BY <1>2, <1>3, <1>4, <1>5

LEMMA SubmitTaskInv ==
  ASSUME Inv, SubmitTask
  PROVE  Inv'
<1>1. TypeOK /\ Phases /\ Taken /\ Ended
  BY DEF Inv
<1>2. /\ ret' = None /\ caller = "submitting" /\ caller' \in {"submitting", "helping"}
      /\ submitted + 1 \in Executors /\ submitted + 1 < W /\ pc[submitted + 1] = "unborn"
      /\ submitted' = submitted + 1 /\ pc' = [pc EXCEPT ![submitted + 1] = "queued"]
      /\ W' = W
      /\ UNCHANGED <<args, next_chunk, stop, code, index, first_error, canceled,
                     submission_failed, ret>>
  <2>1. submitted + 1 < W /\ submitted + 1 \in Executors
    BY <1>1, WBounds, FoldAssumption DEF SubmitTask, TypeOK, Executors
  <2>2. submitted + 1 > submitted
    BY <1>1 DEF TypeOK
  <2>3. W' = W
    BY SameW DEF SubmitTask
  <2> QED
    BY <1>1, <2>1, <2>2, <2>3 DEF SubmitTask, Phases
<1>3. TypeOK'
  BY <1>1, <1>2, Constants DEF TypeOK
<1>4. Phases'
  BY <1>1, <1>2, Constants DEF TypeOK, Phases
<1>5. Taken'
  BY <1>1, <1>2, Constants DEF TypeOK, Taken
<1>6. Ended'
  BY <1>1, <1>2, Constants DEF TypeOK, Taken, Ended
<1>7. Promises'
  BY <1>1, <1>2, NotReturned
<1> QED
  BY <1>3, <1>4, <1>5, <1>6, <1>7 DEF Inv

LEMMA HelpReturnsInv ==
  ASSUME Inv, HelpReturns
  PROVE  Inv'
<1>1. TypeOK /\ Phases /\ Taken /\ Ended
  BY DEF Inv
<1>2. /\ ret' = None /\ caller = "helping" /\ caller' = "submitting" /\ W' = W
      /\ UNCHANGED <<args, next_chunk, stop, code, pc, index, first_error, canceled,
                     submitted, submission_failed, ret>>
  BY <1>1, Constants DEF HelpReturns, TypeOK, Phases, W
<1>3. TypeOK'
  BY <1>1, <1>2, Constants DEF TypeOK
<1>4. Phases'
  BY <1>1, <1>2, Constants DEF TypeOK, Phases
<1>5. Taken'
  BY <1>1, <1>2, Constants DEF TypeOK, Taken
<1>6. Ended'
  BY <1>1, <1>2, Constants DEF TypeOK, Taken, Ended
<1>7. Promises'
  BY <1>1, <1>2, NotReturned
<1> QED
  BY <1>3, <1>4, <1>5, <1>6, <1>7 DEF Inv

LEMMA SubmitFailsInv ==
  ASSUME Inv, SubmitFails
  PROVE  Inv'
<1>1. TypeOK /\ Phases /\ Taken /\ Ended
  BY DEF Inv
<1>2. /\ ret' = None /\ caller = "submitting" /\ caller' = "own" /\ W' = W
      /\ pc' = [pc EXCEPT ![0] = "top"] /\ pc[0] = "unborn"
      /\ submission_failed' \in BOOLEAN
      /\ UNCHANGED <<args, next_chunk, stop, code, index, first_error, canceled, submitted, ret>>
  BY <1>1, Constants DEF SubmitFails, TypeOK, Phases, W
<1>3. TypeOK'
  BY <1>1, <1>2, Constants DEF TypeOK
<1>4. Phases'
  BY <1>1, <1>2, Constants DEF TypeOK, Phases
<1>5. Taken'
  BY <1>1, <1>2, Constants DEF TypeOK, Taken
<1>6. Ended'
  BY <1>1, <1>2, Constants DEF TypeOK, Taken, Ended
<1>7. Promises'
  BY <1>1, <1>2, NotReturned
<1> QED
  BY <1>3, <1>4, <1>5, <1>6, <1>7 DEF Inv

LEMMA RunOwnShareInv ==
  ASSUME Inv, RunOwnShare
  PROVE  Inv'
<1>1. TypeOK /\ Phases /\ Taken /\ Ended
  BY DEF Inv
<1>2. /\ ret' = None /\ caller = "submitting" /\ caller' = "own" /\ W' = W
      /\ pc' = [pc EXCEPT ![0] = "top"] /\ pc[0] = "unborn"
      /\ submission_failed' \in BOOLEAN
      /\ UNCHANGED <<args, next_chunk, stop, code, index, first_error, canceled, submitted, ret>>
  BY <1>1, Constants DEF RunOwnShare, TypeOK, Phases, W
<1>3. TypeOK'
  BY <1>1, <1>2, Constants DEF TypeOK
<1>4. Phases'
  BY <1>1, <1>2, Constants DEF TypeOK, Phases
<1>5. Taken'
  BY <1>1, <1>2, Constants DEF TypeOK, Taken
<1>6. Ended'
  BY <1>1, <1>2, Constants DEF TypeOK, Taken, Ended
<1>7. Promises'
  BY <1>1, <1>2, NotReturned
<1> QED
  BY <1>3, <1>4, <1>5, <1>6, <1>7 DEF Inv

LEMMA StartTaskInv ==
  ASSUME NEW e \in Executors, Inv, StartTask(e)
  PROVE  Inv'
<1>1. TypeOK /\ Phases /\ Taken /\ Ended
  BY DEF Inv
<1>2. /\ ret' = None /\ pc[e] = "queued" /\ W' = W
      /\ \E p \in {"top", "lost"} : pc' = [pc EXCEPT ![e] = p]
      /\ UNCHANGED <<args, next_chunk, stop, code, index, first_error, canceled, caller,
                     submitted, submission_failed, ret>>
  BY <1>1, Constants DEF StartTask, Inv, Promises, NothingRunsAfterReturn, TypeOK, W
<1>3. TypeOK'
  BY <1>1, <1>2, Constants DEF TypeOK
<1>4. Phases'
  BY <1>1, <1>2, Constants DEF TypeOK, Phases
<1>5. Taken'
  BY <1>1, <1>2, Constants DEF TypeOK, Taken
<1>6. Ended'
  BY <1>1, <1>2, Constants DEF TypeOK, Taken, Ended
<1>7. Promises'
  BY <1>1, <1>2, NotReturned
<1> QED
  BY <1>3, <1>4, <1>5, <1>6, <1>7 DEF Inv

LEMMA CheckStopInv ==
  ASSUME NEW e \in Executors, Inv, CheckStop(e)
  PROVE  Inv'
<1>1. TypeOK /\ Phases /\ Taken /\ Ended
  BY DEF Inv
<1>2. /\ ret' = None /\ pc[e] = "top" /\ W' = W
      /\ \/ pc' = [pc EXCEPT ![e] = "done"] /\ canceled' = canceled \union {e}
         \/ pc' = [pc EXCEPT ![e] = "take"] /\ canceled' = canceled
      /\ UNCHANGED <<args, next_chunk, stop, code, index, first_error, caller, submitted,
                     submission_failed, ret>>
  BY <1>1, Constants DEF CheckStop, Inv, Promises, NothingRunsAfterReturn, TypeOK, W
<1>3. TypeOK'
  BY <1>1, <1>2, Constants, ZenonT(30) DEF TypeOK
<1>4. Phases'
  BY <1>1, <1>2, Constants DEF TypeOK, Phases
<1>5. Taken'
  BY <1>1, <1>2, Constants DEF TypeOK, Taken
<1>6. Ended'
  BY <1>1, <1>2, Constants DEF TypeOK, Taken, Ended
<1>7. Promises'
  BY <1>1, <1>2, NotReturned
<1> QED
  BY <1>3, <1>4, <1>5, <1>6, <1>7 DEF Inv

LEMMA CancelFoldInv ==
  ASSUME Inv, CancelFold
  PROVE  Inv'
<1>1. TypeOK /\ Phases /\ Taken /\ Ended
  BY DEF Inv
<1>2. /\ ret' = None /\ args.stop_given /\ stop' = TRUE /\ W' = W
      /\ UNCHANGED <<args, next_chunk, code, pc, index, first_error, canceled, caller,
                     submitted, submission_failed, ret>>
  BY <1>1, Constants DEF CancelFold, TypeOK, W
<1>3. TypeOK'
  BY <1>1, <1>2, Constants DEF TypeOK
<1>4. Phases'
  BY <1>1, <1>2, Constants DEF TypeOK, Phases
<1>5. Taken'
  BY <1>1, <1>2, Constants DEF TypeOK, Taken
<1>6. Ended'
  BY <1>1, <1>2, Constants, Zenon DEF TypeOK, Taken, Ended
<1>7. Promises'
  BY <1>1, <1>2, NotReturned
<1> QED
  BY <1>3, <1>4, <1>5, <1>6, <1>7 DEF Inv

LEMMA TakeChunkInv ==
  ASSUME NEW e \in Executors, Inv, TakeChunk(e)
  PROVE  Inv'
<1>1. TypeOK /\ Phases /\ Taken /\ Ended
  BY DEF Inv
<1>2. /\ ret' = None /\ pc[e] = "take" /\ W' = W
      /\ next_chunk \in Nat /\ next_chunk' = next_chunk + 1 /\ args.chunks \in 0 .. MaxChunks
      /\ UNCHANGED <<args, stop, first_error, canceled, caller, submitted,
                     submission_failed, ret>>
  BY <1>1, SameW DEF TakeChunk, Inv, Promises, NothingRunsAfterReturn, TypeOK
<1>3. CASE next_chunk >= args.chunks
  <2>1. pc' = [pc EXCEPT ![e] = "done"] /\ UNCHANGED <<index, code>>
    BY <1>3 DEF TakeChunk
  <2>2. TypeOK'
    BY <1>1, <1>2, <1>3, <2>1, Constants DEF TypeOK
  <2>3. Phases'
    BY <1>1, <1>2, <1>3, <2>1, Constants DEF TypeOK, Phases
  <2>4. Taken'
    BY <1>1, <1>2, <1>3, <2>1, Constants DEF TypeOK, Taken
  <2>5. Ended'
    BY <1>1, <1>2, <1>3, <2>1, Constants DEF TypeOK, Taken, Ended
  <2>6. Promises'
    BY <1>2, NotReturned
  <2> QED
    BY <2>2, <2>3, <2>4, <2>5, <2>6 DEF Inv
<1>4. CASE next_chunk < args.chunks
  <2>1. /\ index' = [index EXCEPT ![e] = next_chunk]
        /\ code' = [code EXCEPT ![next_chunk] = Running]
        /\ pc' = [pc EXCEPT ![e] = "chunk"]
        /\ next_chunk \in Chunks /\ code[next_chunk] = None
    BY <1>1, <1>2, <1>4, FoldAssumption DEF TakeChunk, Taken, Chunks
  <2>2. TypeOK'
    BY <1>1, <1>2, <1>4, <2>1, Constants DEF TypeOK
  <2>3. Phases'
    BY <1>1, <1>2, <1>4, <2>1, Constants DEF TypeOK, Phases
  <2>4. Taken'
    BY <1>1, <1>2, <1>4, <2>1, Constants DEF TypeOK, Taken
  <2>5. Ended'
    BY <1>1, <1>2, <1>4, <2>1, Constants DEF TypeOK, Taken, Ended
  <2>6. Promises'
    BY <1>2, NotReturned
  <2> QED
    BY <2>2, <2>3, <2>4, <2>5, <2>6 DEF Inv
<1> QED
  BY <1>2, <1>3, <1>4

LEMMA FinishChunkInv ==
  ASSUME NEW e \in Executors, NEW result \in Codes \union {Completed}, Inv,
         FinishChunk(e, result)
  PROVE  Inv'
<1>1. TypeOK /\ Phases /\ Taken /\ Ended
  BY Zenon DEF Inv
<1>2. /\ ret' = None /\ pc[e] = "chunk" /\ W' = W
      /\ index[e] \in Chunks /\ code[index[e]] = Running
      /\ code' = [code EXCEPT ![index[e]] = result]
      /\ UNCHANGED <<args, next_chunk, index, canceled, caller, submitted,
                     submission_failed, ret>>
  BY <1>1, SameW DEF FinishChunk, Inv, Promises, NothingRunsAfterReturn, TypeOK, Taken
<1>3. CASE result = Completed
  <2>1. pc' = [pc EXCEPT ![e] = "top"] /\ UNCHANGED <<first_error, stop>>
    BY <1>3 DEF FinishChunk
  <2>2. TypeOK'
    BY <1>1, <1>2, <1>3, <2>1, Constants DEF TypeOK
  <2>3. Phases'
    BY <1>1, <1>2, <1>3, <2>1, Constants DEF TypeOK, Phases
  <2>4. Taken'
    BY <1>1, <1>2, <1>3, <2>1, Constants, SMTT(30) DEF TypeOK, Taken
  <2>5. Ended'
    BY <1>1, <1>2, <1>3, <2>1, Constants DEF TypeOK, Taken, Ended
  <2>6. Promises'
    BY <1>2, NotReturned
  <2> QED
    BY <2>2, <2>3, <2>4, <2>5, <2>6 DEF Inv
<1>4. CASE result # Completed
  <2>1. /\ pc' = [pc EXCEPT ![e] = "done"] /\ result \in Codes
        /\ first_error' = [first_error EXCEPT ![e] = index[e]]
        /\ stop' = args.stop_given /\ args.stop_given \in BOOLEAN
        /\ first_error[e] = None
    BY <1>1, <1>2, <1>4 DEF FinishChunk, TypeOK, Ended
  <2>2. TypeOK'
    BY <1>1, <1>2, <1>4, <2>1, Constants DEF TypeOK
  <2>3. Phases'
    BY <1>1, <1>2, <1>4, <2>1, Constants, Zenon DEF TypeOK, Phases
  <2>4. Taken'
    BY <1>1, <1>2, <1>4, <2>1, Constants, SMTT(30) DEF TypeOK, Taken
  <2>5. Ended'
    BY <1>1, <1>2, <1>4, <2>1, Constants DEF TypeOK, Taken, Ended
  <2>6. Promises'
    BY <1>2, NotReturned
  <2> QED
    BY <2>2, <2>3, <2>4, <2>5, <2>6 DEF Inv
<1> QED
  BY <1>3, <1>4

LEMMA EnterInv ==
  ASSUME Inv, Enter
  PROVE  Inv'
<1>1. TypeOK /\ Phases /\ Taken /\ Ended
  BY DEF Inv
<1>2. /\ caller = "entered" /\ ret = None /\ W' = W /\ next_chunk = 0 /\ submitted = 0
      /\ \A e \in Executors : pc[e] = "unborn"
      /\ UNCHANGED <<args, next_chunk, stop, code, index, first_error, canceled,
                     submitted, submission_failed>>
  <2>1. \A e \in Executors : e = 0 \/ e > 0
    BY Constants
  <2> QED
    BY <1>1, <2>1, SameW DEF Enter, Phases
<1>3. CASE UNCHANGED pc /\ caller' = "submitting" /\ UNCHANGED ret
  <2>1. TypeOK'
    BY <1>1, <1>2, <1>3, Constants DEF TypeOK
  <2>2. Phases'
    BY <1>1, <1>2, <1>3, Constants DEF TypeOK, Phases
  <2>3. Taken'
    BY <1>1, <1>2, <1>3, Constants DEF TypeOK, Taken
  <2>4. Ended'
    BY <1>1, <1>2, <1>3, Constants DEF TypeOK, Taken, Ended
  <2>5. Promises'
    BY <1>2, <1>3, NotReturned, Zenon
  <2> QED
    BY <2>1, <2>2, <2>3, <2>4, <2>5 DEF Inv
<1>4. CASE pc' = [pc EXCEPT ![0] = "top"] /\ caller' = "inline" /\ UNCHANGED ret
  <2>1. TypeOK'
    BY <1>1, <1>2, <1>4, Constants DEF TypeOK
  <2>2. Phases'
    BY <1>1, <1>2, <1>4, Constants DEF TypeOK, Phases
  <2>3. Taken'
    BY <1>1, <1>2, <1>4, Constants, SMTT(30) DEF TypeOK, Taken
  <2>4. Ended'
    BY <1>1, <1>2, <1>4, Constants DEF TypeOK, Taken, Ended
  <2>5. Promises'
    BY <1>2, <1>4, NotReturned
  <2> QED
    BY <2>1, <2>2, <2>3, <2>4, <2>5 DEF Inv
<1>5. CASE /\ UNCHANGED pc /\ caller' = "returned"
           /\ ret' = Failed \/ (ret' = Completed /\ args.chunks = 0)
  <2>1. TypeOK'
    BY <1>1, <1>2, <1>5, Constants DEF TypeOK
  <2>2. Phases'
    BY <1>1, <1>2, <1>5, Constants, Zenon DEF TypeOK, Phases
  <2>3. Taken'
    BY <1>1, <1>2, <1>5, Constants, Zenon DEF TypeOK, Taken
  <2>4. Ended'
    BY <1>1, <1>2, <1>5, Constants DEF TypeOK, Taken, Ended
  <2>5. \A i \in Chunks : code[i] = None
    BY <1>1, <1>2, Constants DEF Taken
  <2>6. SuccessMeansAllChunks'
    <3>1. ret' = Failed \/ 0 .. args.chunks - 1 = {}
      BY <1>5
    <3> QED
      BY <1>2, <3>1, Constants, Zenon DEF SuccessMeansAllChunks
  <2>7. LowestErrorReported'
    BY <1>2, <2>5, Constants, Zenon DEF LowestErrorReported
  <2>8. NothingRunsAfterReturn'
    BY <1>2, <1>5, <2>5, Constants DEF NothingRunsAfterReturn
  <2> QED
    BY <2>1, <2>2, <2>3, <2>4, <2>6, <2>7, <2>8 DEF Inv, Promises
<1> QED
  BY <1>2, <1>3, <1>4, <1>5 DEF Enter, Return

(* The inline path: executor 0 is the only one. *)
LEMMA InlineReturnInv ==
  ASSUME Inv, InlineReturn
  PROVE  Inv'
<1>1. TypeOK /\ Phases /\ Taken /\ Ended
  BY DEF Inv
<1>2. /\ caller = "inline" /\ caller' = "returned" /\ W' = W
      /\ pc[0] = "done" \/ (pc[0] = "top" /\ next_chunk = args.chunks)
      /\ pc' = [pc EXCEPT ![0] = "done"]
      /\ UNCHANGED <<args, next_chunk, stop, code, index, first_error, canceled,
                     submitted, submission_failed>>
  BY SameW DEF InlineReturn, Return
<1>3. \A e \in Executors : e # 0 => pc[e] = "unborn" /\ first_error[e] = None
  <2>1. \A e \in Executors : e # 0 => e > submitted
    BY <1>1, <1>2, Constants DEF Phases
  <2> QED
    BY <1>1, <2>1 DEF Phases, Ended
<1>4. \A e \in Executors : pc[e] # "chunk"
  BY <1>2, <1>3
<1>5. pc[0] = "done" \/ next_chunk >= args.chunks
  BY <1>1, <1>2 DEF TypeOK
<1>6. /\ \A i \in Chunks : code[i] # Running
      /\ Errors = {i \in Chunks : code[i] \in Codes}
      /\ Errors # {} => code[Min(Errors)] \in Codes /\ stop = args.stop_given
      /\ Errors = {} /\ 0 \notin canceled =>
           \A i \in 0 .. args.chunks - 1 : code[i] = Completed
  BY <1>4, <1>5, Stopped
<1>7. ret' = IF Errors # {} THEN code[Min(Errors)]
             ELSE IF 0 \in canceled THEN Canceled ELSE Completed
  <2>1. first_error[0] = None => Errors = {}
    BY <1>3 DEF Errors
  <2>2. ASSUME first_error[0] # None PROVE Errors # {} /\ Min(Errors) = first_error[0]
    <3>1. first_error[0] \in Int
      <4>1. first_error[0] \in Chunks
        BY <1>1, <2>2, Constants DEF TypeOK
      <4>2. first_error[0] \in Nat
        BY <4>1, Constants, Zenon
      <4> QED
        BY <4>2
    <3>2. Errors = {first_error[0]}
      BY <1>3, <2>2, Constants DEF Errors
    <3> QED
      BY <3>1, <3>2, MinOfOne
  <2> QED
    BY <2>1, <2>2 DEF InlineReturn, Return
<1>8. ret' \in Codes \union {Canceled, Completed} /\ (ret' = Completed => Errors = {} /\ 0 \notin canceled)
  BY <1>6, <1>7, Constants, Zenon
<1>9. TypeOK'
  BY <1>1, <1>2, <1>3, <1>5, <1>8, Constants, Zenon DEF TypeOK
<1>10. Phases'
  BY <1>1, <1>2, <1>3, <1>5, <1>8, Constants, Zenon DEF TypeOK, Phases
<1>11. Taken'
  BY <1>1, <1>2, <1>3, <1>5, <1>8, Constants, SMTT(30) DEF TypeOK, Taken
<1>12. Ended'
  BY <1>1, <1>2, <1>3, <1>5, <1>8, Constants DEF TypeOK, Taken, Ended
<1>13. SuccessMeansAllChunks'
  BY <1>2, <1>6, <1>8, Zenon DEF SuccessMeansAllChunks
<1>14. LowestErrorReported'
  BY <1>2, <1>6, <1>7, Zenon DEF LowestErrorReported
<1>15. NothingRunsAfterReturn'
  BY <1>1, <1>2, <1>3, <1>6, Zenon DEF TypeOK, NothingRunsAfterReturn
<1> QED
  BY <1>9, <1>10, <1>11, <1>12, <1>13, <1>14, <1>15 DEF Inv, Promises

(* The outcomes of the caller and of the tasks are merged. *)
LEMMA CollectInv ==
  ASSUME Inv, Collect
  PROVE  Inv'
<1>1. TypeOK /\ Phases /\ Taken /\ Ended
  BY DEF Inv
<1>2. /\ caller = "own" /\ caller' = "returned" /\ W' = W
      /\ pc[0] = "done" /\ \A e \in 1 .. submitted : pc[e] \in {"done", "lost"}
      /\ submission_failed' \in BOOLEAN
      /\ UNCHANGED <<args, next_chunk, code, pc, index, first_error, canceled, submitted>>
  BY SameW DEF Collect, Return
<1>3. \A e \in Executors : pc[e] \in {"unborn", "done", "lost"}
  <2>1. \A e \in Executors : e = 0 \/ e \in 1 .. submitted \/ e > submitted
    BY <1>1, Constants DEF TypeOK
  <2> QED
    BY <1>1, <1>2, <2>1 DEF Phases
<1>4. /\ \A i \in Chunks : code[i] # Running
      /\ Errors = {i \in Chunks : code[i] \in Codes}
      /\ Errors # {} => code[Min(Errors)] \in Codes /\ stop = args.stop_given
      /\ Errors = {} /\ 0 \notin canceled =>
           \A i \in 0 .. args.chunks - 1 : code[i] = Completed
  BY <1>2, <1>3, Stopped
<1>5. /\ ret' = IF submission_failed' THEN Failed
                ELSE IF Errors # {} THEN code[Min(Errors)]
                ELSE IF canceled # {} THEN Canceled ELSE Completed
      /\ stop' = IF ~submission_failed' /\ Errors # {} THEN args.stop_given ELSE stop
  BY DEF Collect, Return
<1>6. /\ ret' \in Codes \union {Failed, Canceled, Completed}
      /\ ret' = Completed => Errors = {} /\ 0 \notin canceled
      /\ stop' = stop
  BY <1>2, <1>4, <1>5, Constants, Zenon
<1>7. TypeOK'
  BY <1>1, <1>2, <1>6, Constants, Zenon DEF TypeOK
<1>8. Phases'
  BY <1>1, <1>2, <1>6, Constants, Zenon DEF TypeOK, Phases
<1>9. Taken'
  BY <1>1, <1>2, <1>6, Constants, SMTT(30) DEF TypeOK, Taken
<1>10. Ended'
  BY <1>1, <1>2, <1>6, Constants DEF TypeOK, Taken, Ended
<1>11. SuccessMeansAllChunks'
  BY <1>2, <1>4, <1>6, Zenon DEF SuccessMeansAllChunks
<1>12. LowestErrorReported'
  BY <1>2, <1>4, <1>5, <1>6, Zenon DEF LowestErrorReported
<1>13. NothingRunsAfterReturn'
  BY <1>2, <1>3, <1>4, Zenon DEF NothingRunsAfterReturn
<1> QED
  BY <1>7, <1>8, <1>9, <1>10, <1>11, <1>12, <1>13 DEF Inv, Promises

LEMMA InitInv ==
  ASSUME Init
  PROVE  Inv
<1>1. TypeOK
  BY Constants, Zenon DEF Init, TypeOK
<1>2. Phases
  BY Constants DEF Init, Phases
<1>3. Taken
  BY Constants DEF Init, Taken
<1>4. Ended
  BY Constants, Zenon DEF Init, Ended
<1>5. Promises
  BY Constants DEF Init, Promises, SuccessMeansAllChunks, LowestErrorReported,
     NothingRunsAfterReturn
<1> QED
  BY <1>1, <1>2, <1>3, <1>4, <1>5 DEF Inv

LEMMA NextInv ==
  ASSUME Inv, [Next]_vars
  PROVE  Inv'
<1>1. ASSUME NEW e \in Executors,
             \/ StartTask(e) \/ CheckStop(e) \/ TakeChunk(e)
             \/ \E result \in Codes \union {Completed} : FinishChunk(e, result)
      PROVE  Inv'
  BY <1>1, StartTaskInv, CheckStopInv, TakeChunkInv, FinishChunkInv
<1>2. CASE \/ Enter \/ SubmitTask \/ HelpReturns \/ SubmitFails \/ RunOwnShare
           \/ InlineReturn \/ Collect \/ CancelFold
  BY <1>2, EnterInv, SubmitTaskInv, HelpReturnsInv, SubmitFailsInv, RunOwnShareInv,
     InlineReturnInv, CollectInv, CancelFoldInv
<1>3. CASE UNCHANGED vars
  <2>1. UNCHANGED <<args, next_chunk, stop, code, pc, index, first_error, canceled, caller,
                    submitted, submission_failed, ret>> /\ W' = W
    BY <1>3, SameW, Zenon DEF vars
  <2>2. TypeOK' /\ Phases' /\ Taken' /\ Ended'
    BY <2>1 DEF Inv, TypeOK, Phases, Taken, Ended
  <2>3. Promises'
    BY <2>1, Zenon DEF Inv, Promises, SuccessMeansAllChunks, LowestErrorReported,
       NothingRunsAfterReturn
  <2> QED
    BY <2>2, <2>3 DEF Inv
<1> QED
  BY <1>1, <1>2, <1>3 DEF Next, Over

LEMMA FoldInvariant == Spec => []Inv
<1>1. Init => Inv
  BY InitInv
<1>2. Inv /\ [Next]_vars => Inv'
  BY NextInv
<1> QED
  BY <1>1, <1>2, PTL DEF Spec

(* A call that returns 0 has run every chunk to its end, although chunks    *)
(* are handed out by a shared counter to executors that may stop early.     *)
THEOREM SuccessIsComplete == Spec => []SuccessMeansAllChunks
<1>1. Inv => SuccessMeansAllChunks
  BY DEF Inv, Promises
<1> QED
  BY <1>1, FoldInvariant, PTL

(* The outcomes are merged into the error of the lowest chunk that failed,  *)
(* whoever ran it and whenever it failed, and the stop flag is raised.      *)
THEOREM ErrorIsLowest == Spec => []LowestErrorReported
<1>1. Inv => LowestErrorReported
  BY DEF Inv, Promises
<1> QED
  BY <1>1, FoldInvariant, PTL

(* The call returns only after every task it submitted has stopped.         *)
THEOREM FoldIsStructured == Spec => []NothingRunsAfterReturn
<1>1. Inv => NothingRunsAfterReturn
  BY DEF Inv, Promises
<1> QED
  BY <1>1, FoldInvariant, PTL
=============================================================================
