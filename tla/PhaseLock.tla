------------------------------ MODULE PhaseLock ------------------------------
(***************************************************************************)
(* The address-keyed phase-fair reader/writer lock of the native runtime   *)
(* (crates/arandu_runtime/src/rt_runtime/phase_lock.rs) behind the         *)
(* standard library's Mutex and RwLock, for one lock address.              *)
(*                                                                         *)
(* Every access to the lock's PhaseState happens under the bucket mutex,   *)
(* so acquire (up to the point where it parks) and release are one step    *)
(* each; a parked thread resumes in a step of its own once its waiter has  *)
(* been signalled.  A removed table entry and a default PhaseState are the *)
(* same state: both report no holder and no waiter.                        *)
(***************************************************************************)
EXTENDS Naturals, Sequences, FiniteSets

CONSTANTS Threads,    \* the OS threads that use the lock
          NoOwner,    \* writer_owner = None
          UsizeMax,   \* usize::MAX, the largest count add_reader accepts
          MaxDepth    \* bound on the read guards one thread holds at once

ASSUME OwnerAssumption == NoOwner \notin Threads

ASSUME ThreadsAssumption == IsFiniteSet(Threads)

ASSUME UsizeAssumption == UsizeMax \in Nat

ASSUME DepthAssumption == MaxDepth \in Nat

VARIABLES
  readers,          \* PhaseState.readers
  writer,           \* PhaseState.writer
  reader_owners,    \* PhaseState.reader_owners; 0 for an absent key
  writer_owner,     \* PhaseState.writer_owner
  waiting_readers,  \* PhaseState.waiting_readers, each waiter by its owner_id
  waiting_writers,  \* PhaseState.waiting_writers
  notified,         \* the threads whose PhaseWaiter.notified is true
  pc,               \* "run", or parked: "read_wait", "write_wait"
  read_guards,      \* the read guards a thread owns (RwLockReadGuard)
  write_guards,     \* the threads that own the write or mutex guard
  aborted           \* why the process called abort(), "no" while it runs

state == <<readers, writer, reader_owners, writer_owner,
           waiting_readers, waiting_writers>>
vars  == <<state, notified, pc, read_guards, write_guards, aborted>>

Elements(q) == {q[i] : i \in DOMAIN q}

Init ==
  /\ readers = 0
  /\ writer = FALSE
  /\ reader_owners = [t \in Threads |-> 0]
  /\ writer_owner = NoOwner
  /\ waiting_readers = <<>>
  /\ waiting_writers = <<>>
  /\ notified = {}
  /\ pc = [t \in Threads |-> "run"]
  /\ read_guards = [t \in Threads |-> 0]
  /\ write_guards = {}
  /\ aborted = "no"

(* std::process::abort(): nothing of the process moves afterwards. *)
Abort(why) ==
  /\ aborted' = why
  /\ UNCHANGED <<state, notified, pc, read_guards, write_guards>>

(* Whether a blocking acquisition by t would wait for t itself. *)
WouldSelfDeadlock(t, write) ==
  \/ writer_owner = t
  \/ write /\ reader_owners[t] > 0
  \/ ~write /\ reader_owners[t] > 0 /\ waiting_writers # <<>>

(* Mutant: a writer is admitted beside the readers. *)
AvailableBesideReaders(write) == ~writer /\ waiting_writers = <<>>

Available(write) ==
  /\ ~writer
  /\ waiting_writers = <<>>
  /\ write => readers = 0

(* The available branch of acquire for a reader: add_reader, then the guard. *)
AdmitArrivingReader(t) ==
  IF readers + 1 > UsizeMax
    THEN Abort("overflow")
    ELSE /\ readers' = readers + 1
         /\ reader_owners' = [reader_owners EXCEPT ![t] = @ + 1]
         /\ read_guards' = [read_guards EXCEPT ![t] = @ + 1]
         /\ UNCHANGED <<writer, writer_owner, waiting_readers,
                        waiting_writers, notified, pc, write_guards, aborted>>

AdmitArrivingWriter(t) ==
  /\ writer' = TRUE
  /\ writer_owner' = t
  /\ write_guards' = write_guards \union {t}
  /\ UNCHANGED <<readers, reader_owners, waiting_readers, waiting_writers,
                 notified, pc, read_guards, aborted>>

(* The waiter is queued under the bucket mutex and the thread parks. *)
Park(t, write) ==
  /\ IF write
       THEN /\ waiting_writers' = Append(waiting_writers, t)
            /\ UNCHANGED waiting_readers
       ELSE /\ waiting_readers' = Append(waiting_readers, t)
            /\ UNCHANGED waiting_writers
  /\ pc' = [pc EXCEPT ![t] = IF write THEN "write_wait" ELSE "read_wait"]
  /\ UNCHANGED <<readers, writer, reader_owners, writer_owner, notified,
                 read_guards, write_guards, aborted>>

(* acquire(key, write, blocking) on thread t; a failed try returns 0. *)
Acquire(t, write, blocking) ==
  /\ aborted = "no"
  /\ pc[t] = "run"
  /\ ~write => read_guards[t] < MaxDepth
  /\ \/ /\ blocking /\ WouldSelfDeadlock(t, write)
        /\ Abort("reentry")
     \/ /\ ~(blocking /\ WouldSelfDeadlock(t, write))
        /\ Available(write)
        /\ IF write THEN AdmitArrivingWriter(t) ELSE AdmitArrivingReader(t)
     \/ /\ ~(blocking /\ WouldSelfDeadlock(t, write))
        /\ ~Available(write)
        /\ IF blocking THEN Park(t, write) ELSE UNCHANGED vars

(* wait_while returns once the waiter is signalled: the guard is formed. *)
Resume(t) ==
  /\ aborted = "no"
  /\ pc[t] # "run"
  /\ t \in notified
  /\ notified' = notified \ {t}
  /\ pc' = [pc EXCEPT ![t] = "run"]
  /\ IF pc[t] = "read_wait"
       THEN /\ read_guards' = [read_guards EXCEPT ![t] = @ + 1]
            /\ UNCHANGED write_guards
       ELSE /\ write_guards' = write_guards \union {t}
            /\ UNCHANGED read_guards
  /\ UNCHANGED <<state, aborted>>

Occurrences(q, t) == Cardinality({i \in DOMAIN q : q[i] = t})

(* The reader phase a writer release starts: every queued reader enters. *)
AdmitReaders ==
  /\ readers' = readers + Len(waiting_readers)
  /\ reader_owners' = [t \in Threads |->
                         reader_owners[t] + Occurrences(waiting_readers, t)]
  /\ notified' = notified \union Elements(waiting_readers)
  /\ waiting_readers' = <<>>
  /\ writer' = FALSE
  /\ writer_owner' = NoOwner
  /\ UNCHANGED waiting_writers

(* Mutant: the entry is removed although a writer is queued. *)
AdmitWriterForgotten ==
  /\ writer' = FALSE
  /\ writer_owner' = NoOwner
  /\ waiting_readers' = <<>>
  /\ waiting_writers' = <<>>
  /\ UNCHANGED notified

(* Mutant: the last writer to queue enters first. *)
AdmitWriterLifo ==
  IF waiting_writers # <<>>
    THEN LET n == Len(waiting_writers)
         IN /\ writer' = TRUE
            /\ writer_owner' = waiting_writers[n]
            /\ waiting_writers' = SubSeq(waiting_writers, 1, n - 1)
            /\ notified' = notified \union {waiting_writers[n]}
            /\ UNCHANGED waiting_readers
    ELSE AdmitWriterForgotten

(* Mutant: admit_writer does not record the new owner. *)
AdmitWriterUnowned ==
  IF waiting_writers # <<>>
    THEN /\ writer' = TRUE
         /\ writer_owner' = NoOwner
         /\ waiting_writers' = Tail(waiting_writers)
         /\ notified' = notified \union {Head(waiting_writers)}
         /\ UNCHANGED waiting_readers
    ELSE AdmitWriterForgotten

(* Mutant: the admitted writer is not signalled. *)
AdmitWriterUnsignalled ==
  IF waiting_writers # <<>>
    THEN /\ writer' = TRUE
         /\ writer_owner' = Head(waiting_writers)
         /\ waiting_writers' = Tail(waiting_writers)
         /\ UNCHANGED <<waiting_readers, notified>>
    ELSE AdmitWriterForgotten

(* admit_writer, or, with no writer queued, the removal of the table entry *)
(* (and with it of anything still queued there).                           *)
AdmitWriter ==
  IF waiting_writers # <<>>
    THEN /\ writer' = TRUE
         /\ writer_owner' = Head(waiting_writers)
         /\ waiting_writers' = Tail(waiting_writers)
         /\ notified' = notified \union {Head(waiting_writers)}
         /\ UNCHANGED waiting_readers
    ELSE /\ writer' = FALSE
         /\ writer_owner' = NoOwner
         /\ waiting_readers' = <<>>
         /\ UNCHANGED <<waiting_writers, notified>>

(* release's last check: an entry about to be removed still has an owner. *)
OwnerLeftBehind(owners, owner) ==
  /\ waiting_writers = <<>>
  /\ owner # NoOwner \/ \E t \in Threads : owners[t] # 0

(* Mutant: queued writers go before the queued readers. *)
WriteUnlockWriterFirst(t) ==
  /\ aborted = "no"
  /\ pc[t] = "run"
  /\ t \in write_guards
  /\ IF waiting_writers = <<>> /\ waiting_readers # <<>>
       THEN AdmitReaders
       ELSE AdmitWriter /\ UNCHANGED <<readers, reader_owners>>
  /\ write_guards' = write_guards \ {t}
  /\ UNCHANGED <<pc, read_guards, aborted>>

(* ar_rt_rwlock_write_unlock by a thread that owns the write guard. *)
WriteUnlock(t) ==
  /\ aborted = "no"
  /\ pc[t] = "run"
  /\ t \in write_guards
  /\ IF ~writer \/ writer_owner # t \/ readers # 0
       THEN Abort("release")
     ELSE IF Len(waiting_readers) > UsizeMax
       THEN Abort("overflow")
     ELSE IF waiting_readers = <<>> /\ OwnerLeftBehind(reader_owners, NoOwner)
       THEN Abort("owners")
     ELSE /\ IF waiting_readers # <<>>
               THEN AdmitReaders
               ELSE AdmitWriter /\ UNCHANGED <<readers, reader_owners>>
          /\ write_guards' = write_guards \ {t}
          /\ UNCHANGED <<pc, read_guards, aborted>>

(* ar_rt_rwlock_read_unlock by a thread that owns a read guard. *)
ReadUnlock(t) ==
  LET owners == [reader_owners EXCEPT ![t] = @ - 1]
      last   == readers = 1
  IN /\ aborted = "no"
     /\ pc[t] = "run"
     /\ read_guards[t] > 0
     /\ IF writer \/ reader_owners[t] = 0 \/ readers = 0
          THEN Abort("release")
        ELSE IF last /\ OwnerLeftBehind(owners, writer_owner)
          THEN Abort("owners")
        ELSE /\ readers' = readers - 1
             /\ reader_owners' = owners
             /\ IF last
                  THEN AdmitWriter
                  ELSE UNCHANGED <<writer, writer_owner, waiting_readers,
                                   waiting_writers, notified>>
             /\ read_guards' = [read_guards EXCEPT ![t] = @ - 1]
             /\ UNCHANGED <<pc, write_guards, aborted>>

(* After abort() the process is gone. *)
Gone == aborted # "no" /\ UNCHANGED vars

Next ==
  \/ \E t \in Threads :
       \/ \E write, blocking \in BOOLEAN : Acquire(t, write, blocking)
       \/ Resume(t)
       \/ WriteUnlock(t)
       \/ ReadUnlock(t)
  \/ Gone

Spec == Init /\ [][Next]_vars

(* Holders release their guards and runnable threads run: the assumption   *)
(* std.sync.rwlock states for its fairness.  No other step is assumed.     *)
Fairness ==
  \A t \in Threads :
    /\ WF_vars(Resume(t))
    /\ WF_vars(WriteUnlock(t))
    /\ WF_vars(ReadUnlock(t))

FairSpec == Spec /\ Fairness

----------------------------------------------------------------------------
(* The lock's counters, owners, queues, signals and guards have their types. *)
TypeOK ==
  /\ readers \in 0 .. UsizeMax
  /\ writer \in BOOLEAN
  /\ reader_owners \in [Threads -> Nat]
  /\ writer_owner \in Threads \union {NoOwner}
  /\ waiting_readers \in Seq(Threads)
  /\ waiting_writers \in Seq(Threads)
  /\ notified \in SUBSET Threads
  /\ pc \in [Threads -> {"run", "read_wait", "write_wait"}]
  /\ read_guards \in [Threads -> Nat]
  /\ write_guards \in SUBSET Threads
  /\ aborted \in {"no", "reentry", "overflow", "release", "owners"}

(* The guards threads really own exclude each other: a write (or mutex)    *)
(* guard coexists with no other guard of any thread, its owner included.   *)
MutualExclusion ==
  \A t \in write_guards :
    \A u \in Threads : (u \in write_guards => u = t) /\ read_guards[u] = 0

(* Whether t was admitted by a release and has yet to return from acquire. *)
Admitted(t, where) == pc[t] = where /\ t \in notified

(* A thread that releases a guard it owns never trips the mismatched-owner *)
(* abort of the unlock entry points nor release's owner check: the owner   *)
(* tables always agree with the guards handed out.                         *)
GuardReleaseSucceeds == aborted \notin {"release", "owners"}

(* No parked thread is lost: it is queued exactly once, or it has been     *)
(* signalled; and whoever is queued waits for a phase that will end.       *)
NoLostWaiter ==
  /\ \A t \in Threads :
       /\ Occurrences(waiting_readers, t)
            = IF pc[t] = "read_wait" /\ t \notin notified THEN 1 ELSE 0
       /\ Occurrences(waiting_writers, t)
            = IF pc[t] = "write_wait" /\ t \notin notified THEN 1 ELSE 0
  /\ waiting_readers # <<>> => writer \/ waiting_writers # <<>>
  /\ waiting_writers # <<>> => writer \/ readers > 0

(* Blocking reentry aborts instead of hanging: no thread is ever parked    *)
(* behind a guard that it owns itself.                                     *)
NoSelfDeadlock ==
  \A t \in Threads : pc[t] # "run" => read_guards[t] = 0 /\ t \notin write_guards

(* PF4: while a writer waits, no reader enters unless it was already       *)
(* queued, and then only when a write phase ends.                          *)
NoReaderOvertakes ==
  [][ \A t \in Threads :
        waiting_writers # <<>> /\ reader_owners'[t] > reader_owners[t]
          => writer /\ t \in Elements(waiting_readers) ]_vars

(* Every parked thread is eventually admitted and resumes.                 *)
WaiterAdmitted ==
  \A t \in Threads : pc[t] # "run" ~> pc[t] = "run" \/ aborted # "no"

----------------------------------------------------------------------------
(* The inductive invariant behind the safety properties, by parts.         *)

(* One element for each read admission that an owner table records. *)
Slots(owners) == UNION {{t} \X (1 .. owners[t]) : t \in Threads}

CountMatchesOwners ==
  /\ IsFiniteSet(Slots(reader_owners))
  /\ readers = Cardinality(Slots(reader_owners))

WriterMatchesOwner ==
  /\ writer <=> writer_owner # NoOwner
  /\ writer => readers = 0

OwnersMatchGuards ==
  \A t \in Threads :
    /\ reader_owners[t] = read_guards[t] + IF Admitted(t, "read_wait") THEN 1 ELSE 0
    /\ writer_owner = t <=> t \in write_guards \/ Admitted(t, "write_wait")

Distinct(q) == \A i, j \in DOMAIN q : q[i] = q[j] => i = j

QueuesMatchParked ==
  /\ Distinct(waiting_readers)
  /\ Distinct(waiting_writers)
  /\ \A t \in Threads :
       /\ t \in Elements(waiting_readers) <=> pc[t] = "read_wait" /\ t \notin notified
       /\ t \in Elements(waiting_writers) <=> pc[t] = "write_wait" /\ t \notin notified
       /\ t \in notified => pc[t] # "run"

WaitersHaveBlocker ==
  /\ waiting_readers # <<>> => writer \/ waiting_writers # <<>>
  /\ waiting_writers # <<>> => writer \/ readers > 0

Inv ==
  /\ TypeOK
  /\ CountMatchesOwners
  /\ WriterMatchesOwner
  /\ OwnersMatchGuards
  /\ QueuesMatchParked
  /\ WaitersHaveBlocker
  /\ NoSelfDeadlock
  /\ GuardReleaseSucceeds
=============================================================================
