------------------------- MODULE PhaseFairnessProofs -------------------------
(***************************************************************************)
(* For any finite set of threads: phase_lock.rs implements the abstract    *)
(* reader/writer lock, and a queued thread is passed over at most once.    *)
(*                                                                         *)
(* Both rest on PhaseLock's invariant through one lemma, LockSteps: what a *)
(* step can do to the lock, told apart by who enters and who leaves.       *)
(***************************************************************************)
EXTENDS PhaseFairness, PhaseLockProofs

----------------------------------------------------------------------------
(* What a step does to the lock. *)

ReaderArrives(t) ==
  /\ ~writer /\ writer_owner = NoOwner /\ waiting_writers = <<>>
  /\ reader_owners' = [reader_owners EXCEPT ![t] = @ + 1]
  /\ UNCHANGED <<writer, writer_owner, waiting_readers, waiting_writers>>

WriterArrives(t) ==
  /\ ~writer /\ writer_owner = NoOwner
  /\ waiting_writers = <<>> /\ waiting_readers = <<>>
  /\ \A u \in Threads : reader_owners[u] = 0
  /\ writer' = TRUE /\ writer_owner' = t
  /\ UNCHANGED <<readers, reader_owners, waiting_readers, waiting_writers>>

(* Somebody else has the lock. *)
Blocked(t) ==
  /\ reader_owners[t] = 0 /\ writer_owner # t
  /\ writer_owner # NoOwner \/ \E u \in Threads : reader_owners[u] # 0

ReaderParks(t) ==
  /\ Blocked(t)
  /\ waiting_readers' = Append(waiting_readers, t)
  /\ Elements(waiting_readers') = Elements(waiting_readers) \union {t}
  /\ t \notin Elements(waiting_readers)
  /\ UNCHANGED <<readers, writer, reader_owners, writer_owner, waiting_writers>>

WriterParks(t) ==
  /\ Blocked(t)
  /\ waiting_writers' = Append(waiting_writers, t)
  /\ UNCHANGED <<readers, writer, reader_owners, writer_owner, waiting_readers>>

(* A write release to the whole queue of readers. *)
ToReaders(t) ==
  /\ writer /\ writer_owner = t /\ waiting_readers # <<>>
  /\ reader_owners' =
       [u \in Threads |-> IF u \in Elements(waiting_readers) THEN 1 ELSE 0]
  /\ writer' = FALSE /\ writer_owner' = NoOwner /\ waiting_readers' = <<>>
  /\ UNCHANGED waiting_writers

(* The lock goes to the first writer of the queue. *)
FirstWriterEnters ==
  /\ waiting_writers # <<>>
  /\ writer' = TRUE /\ writer_owner' = Head(waiting_writers)
  /\ waiting_writers' = Tail(waiting_writers)
  /\ UNCHANGED waiting_readers

NobodyEnters ==
  /\ waiting_writers = <<>> /\ waiting_readers = <<>>
  /\ writer' = FALSE /\ writer_owner' = NoOwner
  /\ UNCHANGED <<waiting_readers, waiting_writers>>

WriterLeaves(t) ==
  /\ writer /\ writer_owner = t /\ waiting_readers = <<>>
  /\ FirstWriterEnters \/ NobodyEnters
  /\ readers' = 0
  /\ UNCHANGED reader_owners

ReaderLeaves(t) ==
  /\ ~writer /\ writer_owner = NoOwner /\ reader_owners[t] > 0
  /\ reader_owners' = [reader_owners EXCEPT ![t] = @ - 1]
  /\ \/ UNCHANGED <<writer, writer_owner, waiting_readers, waiting_writers>>
     \/ FirstWriterEnters /\ \A u \in Threads : reader_owners'[u] = 0

LockStep(t) ==
  \/ ReaderArrives(t) \/ WriterArrives(t) \/ ReaderParks(t) \/ WriterParks(t)
  \/ ToReaders(t) \/ WriterLeaves(t) \/ ReaderLeaves(t)

----------------------------------------------------------------------------
LEMMA AcquireSteps ==
  ASSUME Inv, NEW t \in Threads, NEW write \in BOOLEAN, NEW blocking \in BOOLEAN,
         Acquire(t, write, blocking)
  PROVE  (UNCHANGED aborted /\ LockStep(t)) \/ UNCHANGED state
<1>0. /\ TypeOK /\ WriterMatchesOwner /\ QueuesMatchParked /\ WaitersHaveBlocker
      /\ pc[t] = "run"
  BY DEF Inv, Acquire
<1>1. CASE \E why : Abort(why)
  BY <1>1 DEF Abort
<1>2. CASE UNCHANGED vars
  BY <1>2 DEF vars
<1>3. CASE Available(FALSE) /\ ~write /\ AdmitArrivingReader(t)
  <2>1. CASE Abort("overflow")
    BY <1>1, <2>1
  <2>2. CASE ~Abort("overflow")
    <3>1. /\ reader_owners' = [reader_owners EXCEPT ![t] = @ + 1]
          /\ UNCHANGED <<writer, writer_owner, waiting_readers, waiting_writers, aborted>>
      BY <1>3, <2>2 DEF AdmitArrivingReader
    <3> QED
      BY <1>0, <1>3, <3>1 DEF Available, WriterMatchesOwner, ReaderArrives, LockStep
  <2> QED
    BY <2>1, <2>2
<1>4. CASE Available(TRUE) /\ write /\ AdmitArrivingWriter(t)
  <2>1. readers = 0 /\ ~writer /\ waiting_writers = <<>>
    BY <1>4 DEF Available
  <2>2. \A u \in Threads : reader_owners[u] = 0
    BY <2>1, ZeroReaders
  <2>3. waiting_readers = <<>> /\ writer_owner = NoOwner
    BY <1>0, <2>1 DEF WaitersHaveBlocker, WriterMatchesOwner
  <2> QED
    BY <1>4, <2>1, <2>2, <2>3, Zenon DEF AdmitArrivingWriter, WriterArrives, LockStep
<1>5. CASE ~WouldSelfDeadlock(t, write) /\ ~Available(write) /\ Park(t, write)
  <2>1. Blocked(t)
    <3>1. writer \/ readers > 0
      BY <1>0, <1>5 DEF Available, WaitersHaveBlocker, TypeOK
    <3>2. writer_owner # NoOwner \/ \E u \in Threads : reader_owners[u] # 0
      BY <1>0, <3>1, ZeroReaders DEF TypeOK, WriterMatchesOwner
    <3>3. reader_owners[t] = 0
      BY <1>0, <1>5, ZeroReaders DEF TypeOK, WouldSelfDeadlock, Available,
         WriterMatchesOwner
    <3> QED
      BY <1>5, <3>2, <3>3 DEF WouldSelfDeadlock, Blocked
  <2>2. CASE write
    BY <1>5, <2>1, <2>2, Zenon DEF Park, WriterParks, LockStep
  <2>3. CASE ~write
    <3>1. /\ waiting_readers \in Seq(Threads) /\ Distinct(waiting_readers)
          /\ t \notin Elements(waiting_readers)
      BY <1>0 DEF TypeOK, QueuesMatchParked
    <3>2. Elements(Append(waiting_readers, t)) = Elements(waiting_readers) \union {t}
      BY <3>1, AppendQueue
    <3> QED
      BY <1>5, <2>1, <2>3, <3>1, <3>2, Zenon DEF Park, ReaderParks, LockStep
  <2> QED
    BY <2>2, <2>3
<1> QED
  BY <1>1, <1>2, <1>3, <1>4, <1>5, Zenon DEF Acquire

LEMMA WriteUnlockSteps ==
  ASSUME Inv, NEW t \in Threads, WriteUnlock(t)
  PROVE  (UNCHANGED aborted /\ LockStep(t)) \/ UNCHANGED state
<1>0. TypeOK /\ QueuesMatchParked /\ t \in write_guards
  BY DEF Inv, WriteUnlock
<1>1. /\ writer /\ writer_owner = t /\ readers = 0
      /\ \A u \in Threads : reader_owners[u] = 0
  BY <1>0, WriteGuardOwns
<1>2. CASE \E why : Abort(why)
  BY <1>2 DEF Abort
<1>3. CASE AdmitReaders /\ waiting_readers # <<>> /\ UNCHANGED aborted
  <2>1. \A u \in Threads :
          reader_owners[u] + Occurrences(waiting_readers, u)
            = IF u \in Elements(waiting_readers) THEN 1 ELSE 0
    BY <1>0, <1>1, OccurrencesDistinct DEF TypeOK, QueuesMatchParked
  <2>2. reader_owners' =
          [u \in Threads |-> IF u \in Elements(waiting_readers) THEN 1 ELSE 0]
    BY <1>3, <2>1 DEF AdmitReaders
  <2> QED
    BY <1>1, <1>3, <2>2, Zenon DEF AdmitReaders, ToReaders, LockStep
<1>4. CASE /\ AdmitWriter /\ waiting_readers = <<>>
           /\ UNCHANGED <<readers, reader_owners, aborted>>
  <2>1. FirstWriterEnters \/ NobodyEnters
    BY <1>4 DEF AdmitWriter, FirstWriterEnters, NobodyEnters
  <2> QED
    BY <1>1, <1>4, <2>1, Zenon DEF WriterLeaves, LockStep
<1> QED
  BY <1>2, <1>3, <1>4, Zenon DEF WriteUnlock

LEMMA ReadUnlockSteps ==
  ASSUME Inv, NEW t \in Threads, ReadUnlock(t)
  PROVE  (UNCHANGED aborted /\ LockStep(t)) \/ UNCHANGED state
<1>0. TypeOK /\ WaitersHaveBlocker /\ read_guards[t] > 0
  BY DEF Inv, ReadUnlock
<1>1. reader_owners[t] > 0 /\ readers > 0 /\ ~writer /\ writer_owner = NoOwner
  BY <1>0, ReadGuardOwns
<1>2. CASE \E why : Abort(why)
  BY <1>2 DEF Abort
<1>3. CASE ~\E why : Abort(why)
  <2>1. /\ reader_owners' = [reader_owners EXCEPT ![t] = @ - 1] /\ UNCHANGED aborted
        /\ readers' = readers - 1
        /\ IF readers = 1
             THEN AdmitWriter
             ELSE UNCHANGED <<writer, writer_owner, waiting_readers,
                              waiting_writers, notified>>
    BY <1>3, Zenon DEF ReadUnlock
  <2>2. CASE readers # 1
    BY <1>1, <2>1, <2>2, Zenon DEF ReaderLeaves, LockStep
  <2>3. CASE readers = 1 /\ waiting_writers = <<>>
    <3>1. waiting_readers = <<>>
      BY <1>0, <1>1, <2>3 DEF WaitersHaveBlocker
    <3>2. writer' = FALSE /\ writer = FALSE
      BY <1>0, <1>1, <2>1, <2>3 DEF AdmitWriter, TypeOK
    <3>3. UNCHANGED <<writer, writer_owner, waiting_readers, waiting_writers>>
      BY <1>1, <2>1, <2>3, <3>1, <3>2, Zenon DEF AdmitWriter
    <3> QED
      BY <1>1, <2>1, <3>3, Zenon DEF ReaderLeaves, LockStep
  <2>4. CASE readers = 1 /\ waiting_writers # <<>>
    <3>1. FirstWriterEnters
      BY <2>1, <2>4 DEF AdmitWriter, FirstWriterEnters
    <3>2. readers' = 0
      BY <2>1, <2>4
    <3>3. Inv'
      BY ReadUnlockInv
    <3>4. Slots(reader_owners') = {} /\ reader_owners' \in [Threads -> Nat]
      BY <3>2, <3>3, FS_EmptySet, Zenon DEF Inv, CountMatchesOwners, TypeOK
    <3>5. \A u \in Threads : reader_owners'[u] = 0
      BY <3>4, NoSlot, Zenon
    <3> QED
      BY <1>1, <2>1, <3>1, <3>5, Zenon DEF ReaderLeaves, LockStep
  <2> QED
    BY <2>2, <2>3, <2>4
<1> QED
  BY <1>2, <1>3

(* A step of a process that has not aborted leaves the lock alone, or does  *)
(* one of LockStep's things and does not abort; an aborted process is dead. *)
LEMMA LockSteps ==
  ASSUME Inv, Next
  PROVE  \/ aborted = "no" /\ UNCHANGED aborted /\ \E t \in Threads : LockStep(t)
         \/ UNCHANGED state /\ (aborted = "no" \/ UNCHANGED aborted)
<1>1. ASSUME NEW t \in Threads, Resume(t) PROVE aborted = "no" /\ UNCHANGED state
  BY <1>1 DEF Resume
<1>2. ASSUME Gone PROVE UNCHANGED <<state, aborted>>
  BY <1>2 DEF Gone, vars
<1>3. ASSUME NEW t \in Threads, NEW write \in BOOLEAN, NEW blocking \in BOOLEAN,
             Acquire(t, write, blocking)
      PROVE  aborted = "no" /\ ((UNCHANGED aborted /\ LockStep(t)) \/ UNCHANGED state)
  BY <1>3, AcquireSteps, Zenon DEF Acquire
<1>4. ASSUME NEW t \in Threads, WriteUnlock(t)
      PROVE  aborted = "no" /\ ((UNCHANGED aborted /\ LockStep(t)) \/ UNCHANGED state)
  BY <1>4, WriteUnlockSteps, Zenon DEF WriteUnlock
<1>5. ASSUME NEW t \in Threads, ReadUnlock(t)
      PROVE  aborted = "no" /\ ((UNCHANGED aborted /\ LockStep(t)) \/ UNCHANGED state)
  BY <1>5, ReadUnlockSteps, Zenon DEF ReadUnlock
<1> QED
  BY <1>1, <1>2, <1>3, <1>4, <1>5, Zenon DEF Next

----------------------------------------------------------------------------
(* The refinement, one lemma for each thing a step does to the lock. *)

LEMMA NoElements ==
  ASSUME NEW q \in Seq(Threads)
  PROVE  Elements(q) = {} <=> q = <<>>
<1>1. q # <<>> => q[1] \in Elements(q)
  BY DEF Elements
<1>2. q = <<>> => Elements(q) = {}
  BY DEF Elements
<1> QED
  BY <1>1, <1>2

LEMMA LockStepRefines ==
  ASSUME Inv, NEW t \in Threads, LockStep(t), UNCHANGED aborted
  PROVE  RW!Enter(t) \/ RW!Await(t) \/ RW!LeaveRead(t) \/ RW!LeaveWrite(t)
<1>0. TypeOK
  BY DEF Inv
<1>1. CASE ReaderArrives(t)
  <2>1. RW!Enter(t)
    BY <1>1 DEF ReaderArrives, RW!Enter
  <2> QED
    BY <2>1
<1>2. CASE WriterArrives(t)
  <2>1. RW!Enter(t)
    BY <1>2 DEF WriterArrives, RW!Enter, RW!NobodyReads
  <2> QED
    BY <2>1
<1>3. CASE ReaderParks(t)
  <2>1. RW!Await(t)
    BY <1>3 DEF ReaderParks, Blocked, RW!Await, RW!NobodyReads
  <2> QED
    BY <2>1
<1>4. CASE WriterParks(t)
  <2>1. RW!Await(t)
    BY <1>4 DEF WriterParks, Blocked, RW!Await, RW!NobodyReads
  <2> QED
    BY <2>1
<1>5. CASE ToReaders(t)
  <2>1. Elements(waiting_readers) # {} /\ Elements(waiting_readers') = {}
    BY <1>0, <1>5, NoElements, SMTT(30) DEF ToReaders, TypeOK, Elements
  <2>2. RW!LeaveWrite(t)
    BY <1>5, <2>1 DEF ToReaders, RW!LeaveWrite
  <2> QED
    BY <2>2
<1>6. CASE WriterLeaves(t)
  <2>1. Elements(waiting_readers) = {} /\ waiting_readers' = waiting_readers
    BY <1>0, <1>6, NoElements, Zenon
       DEF WriterLeaves, FirstWriterEnters, NobodyEnters, TypeOK
  <2>2. RW!LeaveWrite(t)
    BY <1>6, <2>1 DEF WriterLeaves, FirstWriterEnters, NobodyEnters,
                      RW!LeaveWrite, RW!NextWriter
  <2> QED
    BY <2>2
<1>7. CASE ReaderLeaves(t)
  <2>1. waiting_readers' = waiting_readers
    BY <1>7 DEF ReaderLeaves, FirstWriterEnters
  <2>2. RW!LeaveRead(t)
    BY <1>7, <2>1 DEF ReaderLeaves, FirstWriterEnters, RW!LeaveRead, RW!NextWriter
  <2> QED
    BY <2>2
<1> QED
  BY <1>1, <1>2, <1>3, <1>4, <1>5, <1>6, <1>7, Zenon DEF LockStep

(* phase_lock.rs implements the abstract reader/writer lock: its counters,  *)
(* owner tables, two queues and signals never show a user anything that     *)
(* a lock with a set of waiting readers and a line of writers would not.    *)
THEOREM LockRefines == Spec => ImplementsRwLock
<1>1. Init => RW!RwInit
  BY DEF Init, RW!RwInit, Elements
<1>2. Inv /\ [Next]_vars => [RW!RwNext]_(RW!rwvars)
  <2> SUFFICES ASSUME Inv, [Next]_vars PROVE [RW!RwNext]_(RW!rwvars)
    OBVIOUS
  <2>1. CASE UNCHANGED state /\ UNCHANGED aborted
    BY <2>1 DEF state, RW!rwvars
  <2>2. CASE UNCHANGED state /\ aborted = "no" /\ aborted' # "no"
    <3>1. RW!Break
      BY <2>2 DEF state, RW!Break
    <3> QED
      BY <2>2, <3>1, Zenon DEF RW!RwNext
  <2>3. CASE aborted = "no" /\ UNCHANGED aborted /\ \E t \in Threads : LockStep(t)
    BY <2>3, LockStepRefines, Zenon DEF RW!RwNext
  <2>4. CASE UNCHANGED vars
    BY <2>1, <2>4 DEF vars
  <2> QED
    BY <2>1, <2>2, <2>3, <2>4, LockSteps
<1>3. Spec => RW!RwSpec
  BY <1>1, <1>2, InvHolds, PTL DEF Spec, RW!RwSpec
<1> QED
  BY <1>3 DEF ImplementsRwLock

----------------------------------------------------------------------------
(* Turns.  A queued reader has seen no writer enter unless one is inside;   *)
(* the first writer of the queue has seen no reader phase if one is inside. *)

Turns ==
  /\ overtaken \in [Threads -> Nat] /\ reader_phases \in Nat
  /\ \A t \in Elements(waiting_readers) : overtaken[t] <= IF writer THEN 1 ELSE 0
  /\ waiting_writers # <<>> => reader_phases <= IF writer THEN 0 ELSE 1

LEMMA TurnsHistory ==
  ASSUME Turns, HNext
  PROVE  /\ overtaken' \in [Threads -> Nat] /\ reader_phases' \in Nat
         /\ \A t \in Threads \ Elements(waiting_readers) : overtaken'[t] = 0
         /\ \A t \in Threads : WriterEnters \/ overtaken'[t] <= overtaken[t]
         /\ \A t \in Threads : overtaken'[t] <= overtaken[t] + 1
         /\ FirstWriterChanges => reader_phases' = 0
         /\ ReaderPhaseBegins \/ reader_phases' <= reader_phases
         /\ reader_phases' <= reader_phases + 1
<1>1. /\ overtaken \in [Threads -> Nat] /\ reader_phases \in Nat
      /\ overtaken' =
           [t \in Threads |->
              IF t \in Elements(waiting_readers)
                THEN IF WriterEnters THEN overtaken[t] + 1 ELSE overtaken[t]
                ELSE 0]
      /\ reader_phases' =
           IF FirstWriterChanges THEN 0
           ELSE IF ReaderPhaseBegins THEN reader_phases + 1 ELSE reader_phases
  BY Zenon DEF Turns, HNext
<1> QED
  BY <1>1

(* The queue's first writer enters: another one, or none, is first. *)
LEMMA FirstWriterLeavesQueue ==
  ASSUME Inv, FirstWriterEnters
  PROVE  FirstWriterChanges
<1>1. /\ waiting_writers \in Seq(Threads) /\ Distinct(waiting_writers)
      /\ waiting_writers # <<>> /\ waiting_writers' = Tail(waiting_writers)
  BY DEF Inv, TypeOK, QueuesMatchParked, FirstWriterEnters
<1>2. CASE waiting_writers' = <<>>
  BY <1>2 DEF FirstWriterChanges
<1>3. CASE waiting_writers' # <<>>
  <2>1. /\ Head(waiting_writers') = waiting_writers[2]
        /\ Head(waiting_writers) = waiting_writers[1]
        /\ 1 \in DOMAIN waiting_writers /\ 2 \in DOMAIN waiting_writers
    BY <1>1, <1>3
  <2> QED
    BY <1>1, <2>1 DEF FirstWriterChanges, Distinct
<1> QED
  BY <1>2, <1>3

LEMMA LockStepTurns ==
  ASSUME Inv, Turns, HNext, NEW t \in Threads, LockStep(t)
  PROVE  Turns'
<1>0. /\ TypeOK /\ WriterMatchesOwner
      /\ waiting_readers \in Seq(Threads) /\ writer \in BOOLEAN
      /\ Elements(waiting_readers) \subseteq Threads
      /\ writer => readers = 0 /\ writer_owner # NoOwner
  BY DEF Inv, TypeOK, WriterMatchesOwner, Elements
<1>h. /\ overtaken \in [Threads -> Nat] /\ reader_phases \in Nat
      /\ \A u \in Elements(waiting_readers) : overtaken[u] <= IF writer THEN 1 ELSE 0
      /\ waiting_writers # <<>> => reader_phases <= IF writer THEN 0 ELSE 1
  BY DEF Turns
<1>1. CASE ReaderArrives(t)
  BY <1>0, <1>1, <1>h, TurnsHistory, SMTT(20)
     DEF ReaderArrives, WriterEnters, FirstWriterChanges, Turns
<1>2. CASE WriterArrives(t)
  BY <1>0, <1>2, <1>h, TurnsHistory, SMTT(20) DEF WriterArrives, FirstWriterChanges, Turns
<1>3. CASE ReaderParks(t)
  <2>1. /\ UNCHANGED <<writer, waiting_writers>> /\ ~WriterEnters /\ ~ReaderPhaseBegins
        /\ Elements(waiting_readers') = Elements(waiting_readers) \union {t}
        /\ t \notin Elements(waiting_readers)
    BY <1>0, <1>3, SMTT(30) DEF ReaderParks, WriterEnters, ReaderPhaseBegins
  <2> QED
    BY <1>0, <1>h, <2>1, TurnsHistory, SMTT(20) DEF Turns
<1>4. CASE WriterParks(t)
  <2>1. /\ UNCHANGED <<readers, writer, waiting_readers>>
        /\ ~WriterEnters /\ ~ReaderPhaseBegins
    BY <1>0, <1>4 DEF WriterParks, WriterEnters, ReaderPhaseBegins
  <2>2. waiting_writers = <<>> => reader_phases' = 0
    BY TurnsHistory DEF FirstWriterChanges
  <2> QED
    BY <1>0, <1>h, <2>1, <2>2, TurnsHistory, SMTT(20) DEF Turns
<1>5. CASE ToReaders(t)
  BY <1>0, <1>5, <1>h, TurnsHistory, SMTT(20) DEF ToReaders, Turns, Elements
<1>6. CASE WriterLeaves(t)
  <2>1. waiting_readers' = <<>>
    BY <1>6 DEF WriterLeaves, FirstWriterEnters, NobodyEnters
  <2>2. waiting_writers' # <<>> => reader_phases' = 0
    BY <1>6, TurnsHistory, FirstWriterLeavesQueue, Zenon DEF WriterLeaves, NobodyEnters
  <2> QED
    BY <2>1, <2>2, TurnsHistory, SMTT(20) DEF Turns, Elements
<1>7. CASE ReaderLeaves(t) /\ ~FirstWriterEnters
  <2>1. /\ UNCHANGED <<writer, waiting_readers, waiting_writers>>
        /\ ~WriterEnters /\ ~ReaderPhaseBegins
    BY <1>7 DEF ReaderLeaves, WriterEnters, ReaderPhaseBegins
  <2> QED
    BY <1>0, <1>h, <2>1, TurnsHistory, SMTT(33) DEF Turns
<1>8. CASE ReaderLeaves(t) /\ FirstWriterEnters
  <2>1. ~writer /\ writer' /\ waiting_readers' = waiting_readers /\ FirstWriterChanges
    BY <1>8, FirstWriterLeavesQueue, Zenon DEF ReaderLeaves, FirstWriterEnters
  <2> QED
    BY <1>0, <1>h, <2>1, TurnsHistory, SMTT(20) DEF Turns
<1> QED
  BY <1>1, <1>2, <1>3, <1>4, <1>5, <1>6, <1>7, <1>8, ZenonT(30) DEF LockStep

LEMMA TurnsInv == Inv /\ Turns /\ [HNext]_hvars => Turns'
<1> SUFFICES ASSUME Inv, Turns, [HNext]_hvars PROVE Turns'
  OBVIOUS
<1>1. CASE HNext /\ UNCHANGED state
  <2>1. ~WriterEnters /\ ~ReaderPhaseBegins
    BY <1>1, SMTT(30) DEF state, WriterEnters, ReaderPhaseBegins, Inv, WriterMatchesOwner
  <2>2. Elements(waiting_readers) \subseteq Threads
    BY DEF Inv, TypeOK, Elements
  <2> QED
    BY <1>1, <2>1, <2>2, TurnsHistory, SMTT(30) DEF Turns, state
<1>2. CASE HNext /\ \E t \in Threads : LockStep(t)
  BY <1>2, LockStepTurns
<1>3. CASE UNCHANGED hvars
  BY <1>3 DEF hvars, vars, state, Turns
<1>4. HNext => Next
  BY DEF HNext
<1> QED
  BY <1>1, <1>2, <1>3, <1>4, LockSteps, Zenon

(* PF3 and PF4 of release, for any number of threads: a queued reader lets *)
(* at most one write phase pass, and the queue's first writer at most one  *)
(* reader phase, however the others come and go.                           *)
THEOREM OvertakenAtMostOnce == HSpec => []BoundedOvertaking
<1>1. HInit => Turns
  BY DEF HInit, Init, Turns, Elements
<1>2. HSpec => Spec
  <2>1. HInit => Init
    BY DEF HInit
  <2>2. [HNext]_hvars => [Next]_vars
    BY DEF HNext, hvars
  <2> QED
    BY <2>1, <2>2, PTL DEF HSpec, Spec
<1>3. HSpec => []Turns
  BY <1>1, <1>2, TurnsInv, InvHolds, PTL DEF HSpec
<1>4. Inv /\ Turns => BoundedOvertaking
  <2> SUFFICES ASSUME Inv, Turns PROVE BoundedOvertaking
    OBVIOUS
  <2>1. Elements(waiting_readers) \subseteq Threads
    BY DEF Inv, TypeOK, Elements
  <2> QED
    BY <2>1 DEF Turns, BoundedOvertaking
<1> QED
  BY <1>2, <1>3, <1>4, InvHolds, PTL

=============================================================================
