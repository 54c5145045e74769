--------------------------- MODULE PhaseLockProofs ---------------------------
(***************************************************************************)
(* Proofs about PhaseLock for any finite set of threads, any usize limit   *)
(* and any nesting depth.                                                  *)
(***************************************************************************)
EXTENDS PhaseLock, FiniteSetTheorems, TLAPS

(* What a slot of an owner table is. *)
LEMMA SlotMember ==
  ASSUME NEW f \in [Threads -> Nat], NEW s
  PROVE  s \in Slots(f) <=> \E t \in Threads : \E i \in 1 .. f[t] : s = <<t, i>>
BY DEF Slots

(* add_reader on an owner table adds exactly one slot. *)
LEMMA AddSlot ==
  ASSUME NEW f \in [Threads -> Nat], NEW t \in Threads
  PROVE  /\ Slots([f EXCEPT ![t] = @ + 1]) = Slots(f) \union {<<t, f[t] + 1>>}
         /\ <<t, f[t] + 1>> \notin Slots(f)
<1> DEFINE g == [f EXCEPT ![t] = @ + 1]
<1>1. g \in [Threads -> Nat]
  OBVIOUS
<1>2. ASSUME NEW s PROVE s \in Slots(g) <=> s \in Slots(f) \union {<<t, f[t] + 1>>}
  <2>1. s \in Slots(g) <=> \E u \in Threads : \E i \in 1 .. g[u] : s = <<u, i>>
    BY <1>1, SlotMember, Zenon
  <2>2. s \in Slots(f) <=> \E u \in Threads : \E i \in 1 .. f[u] : s = <<u, i>>
    BY SlotMember
  <2>3. \A u \in Threads : \A i :
          i \in 1 .. g[u] <=> i \in 1 .. f[u] \/ (u = t /\ i = f[t] + 1)
    OBVIOUS
  <2> HIDE DEF g
  <2> QED
    BY <2>1, <2>2, <2>3
<1>3. <<t, f[t] + 1>> \notin Slots(f)
  BY SlotMember
<1> QED
  BY <1>2, <1>3, Zenon

(* An owner table has no slot exactly when every count is zero. *)
LEMMA NoSlot ==
  ASSUME NEW f \in [Threads -> Nat]
  PROVE  Slots(f) = {} <=> \A t \in Threads : f[t] = 0
<1>1. ASSUME Slots(f) = {}, NEW t \in Threads, f[t] # 0 PROVE FALSE
  <2>1. 1 \in 1 .. f[t]
    BY <1>1
  <2>2. <<t, 1>> \in Slots(f)
    BY <2>1, SlotMember
  <2> QED
    BY <1>1, <2>2
<1>2. ASSUME \A t \in Threads : f[t] = 0, NEW s \in Slots(f) PROVE FALSE
  BY <1>2, SlotMember
<1> QED
  BY <1>1, <1>2

(* A thread occurs at most once in a queue without repetitions. *)
LEMMA OccurrencesDistinct ==
  ASSUME NEW q \in Seq(Threads), Distinct(q), NEW t
  PROVE  Occurrences(q, t) = IF t \in Elements(q) THEN 1 ELSE 0
<1> DEFINE S == {i \in DOMAIN q : q[i] = t}
<1>1. CASE t \in Elements(q)
  <2>1. PICK i \in DOMAIN q : q[i] = t
    BY <1>1 DEF Elements
  <2>2. S = {i}
    BY <2>1 DEF Distinct
  <2> QED
    BY <1>1, <2>2, FS_Singleton, Zenon DEF Occurrences
<1>2. CASE t \notin Elements(q)
  <2>1. S = {}
    BY <1>2 DEF Elements
  <2> QED
    BY <1>2, <2>1, FS_EmptySet DEF Occurrences
<1> QED
  BY <1>1, <1>2

(* Admitting a whole queue of distinct readers makes one slot for each. *)
LEMMA QueueSlots ==
  ASSUME NEW q \in Seq(Threads), Distinct(q), NEW f \in [Threads -> Nat],
         \A t \in Threads : f[t] = IF t \in Elements(q) THEN 1 ELSE 0
  PROVE  IsFiniteSet(Slots(f)) /\ Cardinality(Slots(f)) = Len(q)
<1> DEFINE h == [i \in 1 .. Len(q) |-> <<q[i], 1>>]
<1>1. \A i \in 1 .. Len(q) : q[i] \in Threads /\ q[i] \in Elements(q)
  BY DEF Elements
<1>2. \A i \in 1 .. Len(q) : h[i] \in Slots(f)
  BY <1>1, SlotMember, SMTT(30)
<1>3. ASSUME NEW s \in Slots(f) PROVE \E i \in 1 .. Len(q) : h[i] = s
  <2>1. PICK t \in Threads : \E k \in 1 .. f[t] : s = <<t, k>>
    BY SlotMember
  <2>2. PICK k \in 1 .. f[t] : s = <<t, k>>
    BY <2>1
  <2>3. t \in Elements(q) /\ k = 1
    BY <2>2
  <2> QED
    BY <2>2, <2>3 DEF Elements
<1>4. \A i, j \in 1 .. Len(q) : h[i] = h[j] => i = j
  BY DEF Distinct
<1>5. h \in Bijection(1 .. Len(q), Slots(f))
  BY <1>2, <1>3, <1>4, Zenon DEF Bijection, Injection, Surjection, IsInjective
<1>6. ExistsBijection(1 .. Len(q), Slots(f))
  BY <1>5 DEF ExistsBijection
<1>7. Len(q) \in Nat
  OBVIOUS
<1> QED
  BY <1>6, <1>7, FS_NatBijection, FS_CountingElements

(* Queueing a thread that is not queued yet. *)
LEMMA AppendQueue ==
  ASSUME NEW q \in Seq(Threads), NEW t \in Threads, t \notin Elements(q), Distinct(q)
  PROVE  /\ Append(q, t) \in Seq(Threads)
         /\ Append(q, t) # <<>>
         /\ Elements(Append(q, t)) = Elements(q) \union {t}
         /\ Distinct(Append(q, t))
<1> DEFINE r == Append(q, t)
<1>1. /\ r \in Seq(Threads) /\ Len(r) = Len(q) + 1
      /\ DOMAIN r = 1 .. Len(q) + 1 /\ DOMAIN q = 1 .. Len(q)
      /\ r[Len(q) + 1] = t
      /\ \A i \in 1 .. Len(q) : r[i] = q[i]
      /\ Len(q) \in Nat
  OBVIOUS
<1> HIDE DEF r
<1>2. r # <<>>
  BY <1>1
<1>3. Elements(r) = Elements(q) \union {t}
  <2>1. ASSUME NEW x \in Elements(r) PROVE x \in Elements(q) \union {t}
    BY <1>1 DEF Elements
  <2>2. ASSUME NEW x \in Elements(q) \union {t} PROVE x \in Elements(r)
    BY <1>1 DEF Elements
  <2> QED
    BY <2>1, <2>2
<1>4. Distinct(r)
  <2>1. \A i \in 1 .. Len(q) : q[i] # t
    BY <1>1 DEF Elements
  <2> QED
    BY <1>1, <2>1 DEF Distinct
<1> QED
  BY <1>1, <1>2, <1>3, <1>4 DEF r

(* Popping the oldest waiter of a queue without repetitions. *)
LEMMA PopQueue ==
  ASSUME NEW q \in Seq(Threads), q # <<>>, Distinct(q)
  PROVE  /\ Tail(q) \in Seq(Threads)
         /\ Head(q) \in Threads
         /\ Head(q) \in Elements(q)
         /\ Elements(Tail(q)) = Elements(q) \ {Head(q)}
         /\ Distinct(Tail(q))
<1>1. Len(q) >= 1 /\ Head(q) = q[1] /\ DOMAIN q = 1 .. Len(q)
  OBVIOUS
<1>2. /\ Tail(q) \in Seq(Threads)
      /\ DOMAIN Tail(q) = 1 .. Len(q) - 1
      /\ \A i \in 1 .. Len(q) - 1 : Tail(q)[i] = q[i + 1]
  OBVIOUS
<1>3. Head(q) \in Threads /\ Head(q) \in Elements(q)
  BY <1>1 DEF Elements
<1>4. Distinct(Tail(q))
  BY <1>1, <1>2 DEF Distinct
<1>5. ASSUME NEW x \in Elements(Tail(q)) PROVE x \in Elements(q) \ {Head(q)}
  BY <1>1, <1>2 DEF Elements, Distinct
<1>6. ASSUME NEW x \in Elements(q) \ {Head(q)} PROVE x \in Elements(Tail(q))
  <2>1. PICK i \in 1 .. Len(q) : q[i] = x
    BY <1>1 DEF Elements
  <2>2. i - 1 \in 1 .. Len(q) - 1
    BY <1>1, <2>1
  <2>3. Tail(q)[i - 1] = x
    BY <1>2, <2>1, <2>2
  <2> QED
    BY <1>2, <2>2, <2>3, Zenon DEF Elements
<1> QED
  BY <1>2, <1>3, <1>4, <1>5, <1>6

----------------------------------------------------------------------------
(* The reader count is zero exactly when no thread owns a read admission.  *)
LEMMA ZeroReaders ==
  ASSUME Inv
  PROVE  /\ readers = 0 <=> \A t \in Threads : reader_owners[t] = 0
         /\ \A t \in Threads : reader_owners[t] > 0 => readers > 0
<1>1. readers = 0 <=> Slots(reader_owners) = {}
  BY FS_EmptySet DEF Inv, CountMatchesOwners
<1>2. readers = 0 <=> \A t \in Threads : reader_owners[t] = 0
  BY <1>1, NoSlot, Zenon DEF Inv, TypeOK
<1>3. \A t \in Threads : reader_owners[t] > 0 => readers > 0
  BY <1>2 DEF Inv, TypeOK
<1> QED
  BY <1>2, <1>3

(* The empty table of a fresh lock satisfies the invariant. *)
LEMMA InitInv == Init => Inv
<1> SUFFICES ASSUME Init PROVE Inv
  OBVIOUS
<1>1. TypeOK
  <2>1. writer \in BOOLEAN
    BY Zenon DEF Init
  <2>2. 0 \in 0 .. UsizeMax
    BY UsizeAssumption
  <2>3. <<>> \in Seq(Threads)
    OBVIOUS
  <2> QED
    BY <2>1, <2>2, <2>3 DEF Init, TypeOK
<1>2. CountMatchesOwners
  <2>1. reader_owners \in [Threads -> Nat] /\ \A t \in Threads : reader_owners[t] = 0
    BY DEF Init
  <2>2. Slots(reader_owners) = {}
    BY <2>1, NoSlot
  <2> QED
    BY <2>2, FS_EmptySet DEF Init, CountMatchesOwners
<1>3. OwnersMatchGuards
  BY OwnerAssumption DEF Init, OwnersMatchGuards, Admitted
<1>4. QueuesMatchParked
  BY DEF Init, QueuesMatchParked, Distinct, Elements
<1> QED
  BY <1>1, <1>2, <1>3, <1>4
  DEF Init, Inv, WriterMatchesOwner, WaitersHaveBlocker, NoSelfDeadlock,
      GuardReleaseSucceeds

(* abort() for self-deadlock or overflow leaves the lock's state alone. *)
LEMMA AbortInv ==
  ASSUME Inv, NEW why \in {"reentry", "overflow"}, Abort(why)
  PROVE  Inv'
BY Zenon DEF Inv, Abort, state, TypeOK, CountMatchesOwners, WriterMatchesOwner,
       OwnersMatchGuards, QueuesMatchParked, WaitersHaveBlocker,
       NoSelfDeadlock, GuardReleaseSucceeds, Admitted

(* A reader admitted on arrival. *)
LEMMA AdmitArrivingReaderInv ==
  ASSUME Inv, NEW t \in Threads, aborted = "no", pc[t] = "run",
         Available(FALSE), readers + 1 <= UsizeMax, AdmitArrivingReader(t)
  PROVE  Inv'
<1> USE UsizeAssumption
<1>0. TypeOK
  BY DEF Inv
<1>1. /\ readers' = readers + 1
      /\ reader_owners' = [reader_owners EXCEPT ![t] = @ + 1]
      /\ read_guards' = [read_guards EXCEPT ![t] = @ + 1]
      /\ UNCHANGED <<writer, writer_owner, waiting_readers,
                     waiting_writers, notified, pc, write_guards, aborted>>
  BY <1>0, SMTT(30) DEF AdmitArrivingReader, TypeOK
<1>2. TypeOK'
  BY <1>0, <1>1 DEF TypeOK
<1>3. CountMatchesOwners'
  <2>1. reader_owners \in [Threads -> Nat]
    BY <1>0 DEF TypeOK
  <2>2. Slots(reader_owners') = Slots(reader_owners) \union {<<t, reader_owners[t] + 1>>}
        /\ <<t, reader_owners[t] + 1>> \notin Slots(reader_owners)
    BY <1>1, <2>1, AddSlot, Zenon
  <2>3. IsFiniteSet(Slots(reader_owners)) /\ readers = Cardinality(Slots(reader_owners))
    BY DEF Inv, CountMatchesOwners
  <2>4. /\ IsFiniteSet(Slots(reader_owners'))
        /\ Cardinality(Slots(reader_owners')) = Cardinality(Slots(reader_owners)) + 1
    BY <2>2, <2>3, FS_AddElement, Zenon
  <2> QED
    BY <1>1, <2>3, <2>4 DEF CountMatchesOwners
<1>4. WriterMatchesOwner'
  BY <1>1 DEF Inv, WriterMatchesOwner, Available
<1>5. OwnersMatchGuards'
  BY <1>0, <1>1 DEF Inv, TypeOK, OwnersMatchGuards, Admitted
<1>6. QueuesMatchParked'
  BY <1>1 DEF Inv, QueuesMatchParked
<1>7. WaitersHaveBlocker'
  BY <1>0, <1>1 DEF Inv, TypeOK, WaitersHaveBlocker, Available
<1>8. NoSelfDeadlock' /\ GuardReleaseSucceeds'
  BY <1>0, <1>1 DEF Inv, TypeOK, NoSelfDeadlock, GuardReleaseSucceeds
<1> QED
  BY <1>2, <1>3, <1>4, <1>5, <1>6, <1>7, <1>8 DEF Inv

(* A writer admitted on arrival. *)
LEMMA AdmitArrivingWriterInv ==
  ASSUME Inv, NEW t \in Threads, aborted = "no", pc[t] = "run",
         Available(TRUE), AdmitArrivingWriter(t)
  PROVE  Inv'
<1> USE OwnerAssumption DEF Inv, AdmitArrivingWriter
<1>1. TypeOK'
  BY DEF TypeOK
<1>2. CountMatchesOwners'
  BY DEF CountMatchesOwners
<1>3. WriterMatchesOwner'
  BY DEF WriterMatchesOwner, Available
<1>4. OwnersMatchGuards'
  BY DEF WriterMatchesOwner, OwnersMatchGuards, Admitted, Available
<1>5. QueuesMatchParked' /\ WaitersHaveBlocker'
  BY DEF QueuesMatchParked, WaitersHaveBlocker
<1>6. NoSelfDeadlock' /\ GuardReleaseSucceeds'
  BY DEF TypeOK, NoSelfDeadlock, GuardReleaseSucceeds
<1> QED
  BY <1>1, <1>2, <1>3, <1>4, <1>5, <1>6, Zenon

(* A thread that queues and parks. *)
LEMMA ParkInv ==
  ASSUME Inv, NEW t \in Threads, NEW write \in BOOLEAN, aborted = "no",
         pc[t] = "run", ~WouldSelfDeadlock(t, write), ~Available(write),
         Park(t, write)
  PROVE  Inv'
<1> USE OwnerAssumption, UsizeAssumption
<1>0. /\ TypeOK /\ CountMatchesOwners /\ WriterMatchesOwner /\ OwnersMatchGuards
      /\ QueuesMatchParked /\ WaitersHaveBlocker /\ NoSelfDeadlock
      /\ GuardReleaseSucceeds
  BY DEF Inv
<1>1. read_guards[t] = 0 /\ t \notin write_guards
  <2>1. writer_owner # t
    BY DEF WouldSelfDeadlock
  <2>2. reader_owners[t] = 0
    BY <1>0, ZeroReaders DEF TypeOK, WouldSelfDeadlock, Available, WriterMatchesOwner
  <2>3. t \notin write_guards
    BY <1>0, <2>1 DEF OwnersMatchGuards
  <2>4. read_guards[t] \in Nat
    BY <1>0 DEF TypeOK
  <2>5. ~Admitted(t, "read_wait")
    BY DEF Admitted
  <2>6. reader_owners[t] = read_guards[t] + 0
    BY <1>0, <2>5 DEF OwnersMatchGuards
  <2> QED
    BY <2>2, <2>3, <2>4, <2>6
<1>2. t \notin Elements(waiting_readers) /\ t \notin Elements(waiting_writers)
      /\ t \notin notified
  BY <1>0 DEF QueuesMatchParked
<1>3. CASE write
  <2>1. /\ waiting_writers' = Append(waiting_writers, t)
        /\ pc' = [pc EXCEPT ![t] = "write_wait"]
        /\ UNCHANGED <<readers, writer, reader_owners, writer_owner, notified,
                       waiting_readers, read_guards, write_guards, aborted>>
    BY <1>3 DEF Park
  <2>2. /\ waiting_writers' \in Seq(Threads)
        /\ waiting_writers' # <<>>
        /\ Elements(waiting_writers') = Elements(waiting_writers) \union {t}
        /\ Distinct(waiting_writers')
    BY <1>0, <1>2, <2>1, AppendQueue, Zenon DEF TypeOK, QueuesMatchParked
  <2>3. TypeOK'
    BY <1>0, <2>1, <2>2 DEF TypeOK
  <2>4. CountMatchesOwners' /\ WriterMatchesOwner'
    BY <1>0, <2>1 DEF CountMatchesOwners, WriterMatchesOwner
  <2>5. OwnersMatchGuards'
    BY <1>0, <1>2, <2>1 DEF TypeOK, OwnersMatchGuards, Admitted
  <2>6. QueuesMatchParked'
    BY <1>0, <1>2, <2>1, <2>2 DEF TypeOK, QueuesMatchParked
  <2>7. WaitersHaveBlocker'
    BY <1>0, <1>3, <2>1, <2>2 DEF TypeOK, WaitersHaveBlocker, Available
  <2>8. NoSelfDeadlock' /\ GuardReleaseSucceeds'
    BY <1>0, <1>1, <2>1, Zenon DEF TypeOK, NoSelfDeadlock, GuardReleaseSucceeds
  <2> QED
    BY <2>3, <2>4, <2>5, <2>6, <2>7, <2>8 DEF Inv
<1>4. CASE ~write
  <2>1. /\ waiting_readers' = Append(waiting_readers, t)
        /\ pc' = [pc EXCEPT ![t] = "read_wait"]
        /\ UNCHANGED <<readers, writer, reader_owners, writer_owner, notified,
                       waiting_writers, read_guards, write_guards, aborted>>
    BY <1>4 DEF Park
  <2>2. /\ waiting_readers' \in Seq(Threads)
        /\ Elements(waiting_readers') = Elements(waiting_readers) \union {t}
        /\ Distinct(waiting_readers')
    BY <1>0, <1>2, <2>1, AppendQueue DEF TypeOK, QueuesMatchParked
  <2>3. TypeOK'
    BY <1>0, <2>1, <2>2, Zenon DEF TypeOK
  <2>4. CountMatchesOwners' /\ WriterMatchesOwner'
    BY <1>0, <2>1 DEF CountMatchesOwners, WriterMatchesOwner
  <2>5. OwnersMatchGuards'
    BY <1>0, <1>2, <2>1 DEF TypeOK, OwnersMatchGuards, Admitted
  <2>6. QueuesMatchParked'
    BY <1>0, <1>2, <2>1, <2>2 DEF TypeOK, QueuesMatchParked
  <2>7. WaitersHaveBlocker'
    BY <1>0, <1>4, <2>1 DEF TypeOK, WaitersHaveBlocker, Available
  <2>8. NoSelfDeadlock' /\ GuardReleaseSucceeds'
    BY <1>0, <1>1, <2>1 DEF TypeOK, NoSelfDeadlock, GuardReleaseSucceeds
  <2> QED
    BY <2>3, <2>4, <2>5, <2>6, <2>7, <2>8 DEF Inv
<1> QED
  BY <1>3, <1>4

(* The whole of acquire, up to its return or its parking. *)
LEMMA AcquireInv ==
  ASSUME Inv, NEW t \in Threads, NEW write \in BOOLEAN, NEW blocking \in BOOLEAN,
         Acquire(t, write, blocking)
  PROVE  Inv'
<1>1. CASE Abort("reentry")
  BY <1>1, AbortInv
<1>2. CASE Available(write) /\ write /\ AdmitArrivingWriter(t)
  BY <1>2, AdmitArrivingWriterInv, Zenon DEF Acquire
<1>3. CASE Available(write) /\ ~write /\ AdmitArrivingReader(t)
  <2>1. Available(FALSE)
    BY <1>3, Zenon
  <2>2. CASE readers + 1 <= UsizeMax
    BY <1>3, <2>1, <2>2, AdmitArrivingReaderInv, Zenon DEF Acquire
  <2>3. CASE ~(readers + 1 <= UsizeMax)
    <3>1. Abort("overflow")
      BY <1>3, <2>3, UsizeAssumption DEF AdmitArrivingReader, Inv, TypeOK
    <3> QED
      BY <3>1, AbortInv
  <2> QED
    BY <2>2, <2>3
<1>4. CASE blocking /\ ~WouldSelfDeadlock(t, write) /\ ~Available(write) /\ Park(t, write)
  BY <1>4, ParkInv DEF Acquire
<1>5. CASE UNCHANGED vars
  BY <1>5, Zenon DEF vars, state, Inv, TypeOK, CountMatchesOwners, WriterMatchesOwner,
     OwnersMatchGuards, QueuesMatchParked, WaitersHaveBlocker,
     NoSelfDeadlock, GuardReleaseSucceeds, Admitted
<1> QED
  BY <1>1, <1>2, <1>3, <1>4, <1>5 DEF Acquire

(* A signalled thread returns from acquire with its guard. *)
LEMMA ResumeInv ==
  ASSUME Inv, NEW t \in Threads, Resume(t)
  PROVE  Inv'
<1> USE OwnerAssumption DEF Resume, state
<1>0. /\ TypeOK /\ CountMatchesOwners /\ WriterMatchesOwner /\ OwnersMatchGuards
      /\ QueuesMatchParked /\ WaitersHaveBlocker /\ NoSelfDeadlock
      /\ GuardReleaseSucceeds
  BY DEF Inv
<1>1. TypeOK'
  <2>1. UNCHANGED <<readers, writer, reader_owners, writer_owner,
                    waiting_readers, waiting_writers, aborted>>
    OBVIOUS
  <2>2. read_guards' \in [Threads -> Nat]
    <3>1. read_guards \in [Threads -> Nat]
      BY <1>0 DEF TypeOK
    <3>2. read_guards' = read_guards \/ read_guards' = [read_guards EXCEPT ![t] = @ + 1]
      OBVIOUS
    <3> HIDE DEF Resume
    <3> QED
      BY <3>1, <3>2
  <2>4. write_guards' \in SUBSET Threads
    BY <1>0 DEF TypeOK
  <2>3. notified' \in SUBSET Threads
        /\ pc' \in [Threads -> {"run", "read_wait", "write_wait"}]
    BY <1>0 DEF TypeOK
  <2> QED
    BY <1>0, <2>1, <2>2, <2>3, <2>4, Zenon DEF TypeOK
<1>2. CountMatchesOwners' /\ WriterMatchesOwner' /\ WaitersHaveBlocker'
  BY <1>0 DEF CountMatchesOwners, WriterMatchesOwner, WaitersHaveBlocker
<1>3. OwnersMatchGuards'
  BY <1>0 DEF TypeOK, OwnersMatchGuards, Admitted, NoSelfDeadlock
<1>4. QueuesMatchParked'
  BY <1>0, Zenon DEF TypeOK, QueuesMatchParked
<1>5. NoSelfDeadlock' /\ GuardReleaseSucceeds'
  BY <1>0 DEF TypeOK, NoSelfDeadlock, GuardReleaseSucceeds
<1> QED
  BY <1>1, <1>2, <1>3, <1>4, <1>5 DEF Inv

(* The owner of the write guard is the recorded writer, alone. *)
LEMMA WriteGuardOwns ==
  ASSUME Inv, NEW t \in Threads, t \in write_guards
  PROVE  /\ writer /\ writer_owner = t /\ readers = 0 /\ pc[t] = "run"
         /\ \A u \in Threads : reader_owners[u] = 0
         /\ \A u \in Threads : u # t => u \notin write_guards /\ ~Admitted(u, "write_wait")
         /\ ~OwnerLeftBehind(reader_owners, NoOwner)
<1>1. writer_owner = t /\ pc[t] = "run"
  BY DEF Inv, TypeOK, OwnersMatchGuards, NoSelfDeadlock
<1>2. writer /\ readers = 0
  BY <1>1, OwnerAssumption DEF Inv, WriterMatchesOwner
<1>3. \A u \in Threads : reader_owners[u] = 0
  BY <1>2, ZeroReaders
<1>4. \A u \in Threads : u # t => u \notin write_guards /\ ~Admitted(u, "write_wait")
  BY <1>1 DEF Inv, OwnersMatchGuards
<1> QED
  BY <1>1, <1>2, <1>3, <1>4 DEF OwnerLeftBehind

(* A write release that starts a reader phase. *)
LEMMA HandToReadersInv ==
  ASSUME Inv, NEW t \in Threads, t \in write_guards, aborted = "no",
         Len(waiting_readers) <= UsizeMax, waiting_readers # <<>>,
         AdmitReaders, write_guards' = write_guards \ {t},
         UNCHANGED <<pc, read_guards, aborted>>
  PROVE  Inv'
<1> USE OwnerAssumption, UsizeAssumption
<1> DEFINE q == waiting_readers
<1>0. /\ TypeOK /\ CountMatchesOwners /\ WriterMatchesOwner /\ OwnersMatchGuards
      /\ QueuesMatchParked /\ WaitersHaveBlocker /\ NoSelfDeadlock
      /\ GuardReleaseSucceeds
  BY DEF Inv
<1>1. /\ writer /\ writer_owner = t /\ readers = 0 /\ pc[t] = "run"
      /\ \A u \in Threads : reader_owners[u] = 0
      /\ \A u \in Threads : u # t => u \notin write_guards /\ ~Admitted(u, "write_wait")
  BY WriteGuardOwns
<1>2. q \in Seq(Threads) /\ Distinct(q) /\ Len(q) \in Nat /\ Len(q) > 0
  BY <1>0, SMTT(30) DEF TypeOK, QueuesMatchParked
<1>3. \A u \in Threads : reader_owners'[u] = IF u \in Elements(q) THEN 1 ELSE 0
  <2> SUFFICES ASSUME NEW u \in Threads
               PROVE  reader_owners'[u] = IF u \in Elements(q) THEN 1 ELSE 0
    OBVIOUS
  <2>1. reader_owners'[u] = reader_owners[u] + Occurrences(q, u)
    BY DEF AdmitReaders
  <2>2. Occurrences(q, u) = IF u \in Elements(q) THEN 1 ELSE 0
    BY <1>2, OccurrencesDistinct
  <2> HIDE DEF q
  <2> QED
    BY <1>1, <2>1, <2>2
<1>4. reader_owners' \in [Threads -> Nat]
  <2>1. reader_owners' = [u \in Threads |-> reader_owners'[u]]
    BY DEF AdmitReaders
  <2> HIDE DEF q
  <2>2. \A u \in Threads : reader_owners'[u] \in Nat
    BY <1>3
  <2> QED
    BY <2>1, <2>2
<1>5. readers' = Len(q) /\ writer' = FALSE /\ writer_owner' = NoOwner
      /\ waiting_readers' = <<>> /\ waiting_writers' = waiting_writers
      /\ notified' = notified \union Elements(q)
  BY <1>1, <1>2 DEF AdmitReaders
<1>6. CountMatchesOwners'
  <2>1. IsFiniteSet(Slots(reader_owners')) /\ Cardinality(Slots(reader_owners')) = Len(q)
    BY <1>2, <1>3, <1>4, QueueSlots
  <2> QED
    BY <2>1, <1>5 DEF CountMatchesOwners
<1>7. TypeOK'
  <2>1. Elements(q) \in SUBSET Threads
    BY <1>2 DEF Elements
  <2>2. writer' \in BOOLEAN
    BY <1>5, Zenon
  <2>3. readers' \in 0 .. UsizeMax
    BY <1>2, <1>5
  <2>4. waiting_readers' \in Seq(Threads) /\ waiting_writers' \in Seq(Threads)
    BY <1>0, <1>5 DEF TypeOK
  <2>5. notified' \in SUBSET Threads
    BY <1>0, <1>5, <2>1 DEF TypeOK
  <2> QED
    BY <1>0, <1>4, <1>5, <2>2, <2>3, <2>4, <2>5, Zenon DEF TypeOK
<1>8. WriterMatchesOwner' /\ WaitersHaveBlocker'
  BY <1>2, <1>5 DEF WriterMatchesOwner, WaitersHaveBlocker
<1>10. OwnersMatchGuards'
  <2> SUFFICES ASSUME NEW u \in Threads
      PROVE /\ reader_owners'[u] = read_guards'[u]
                                    + IF Admitted(u, "read_wait")' THEN 1 ELSE 0
            /\ writer_owner' = u <=> u \in write_guards' \/ Admitted(u, "write_wait")'
    BY DEF OwnersMatchGuards
  <2>1. read_guards[u] = 0 /\ ~Admitted(u, "read_wait")
    <3>1. reader_owners[u] = read_guards[u] + IF Admitted(u, "read_wait") THEN 1 ELSE 0
      BY <1>0 DEF OwnersMatchGuards
    <3>2. reader_owners[u] = 0 /\ read_guards[u] \in Nat
      BY <1>0, <1>1 DEF TypeOK
    <3> HIDE DEF q
    <3> QED
      BY <3>1, <3>2
  <2>2. ~Admitted(u, "write_wait")
    BY <1>1 DEF Admitted
  <2>3. reader_owners'[u] = read_guards'[u]
                            + IF Admitted(u, "read_wait")' THEN 1 ELSE 0
    <3>1. reader_owners'[u] = IF u \in Elements(q) THEN 1 ELSE 0
      BY <1>3
    <3>2. Admitted(u, "read_wait")' <=> u \in Elements(q)
      BY <1>0, <1>5, <2>1 DEF Admitted, QueuesMatchParked
    <3>3. read_guards'[u] = 0
      BY <2>1
    <3> HIDE DEF q
    <3> QED
      BY <3>1, <3>2, <3>3
  <2>4. writer_owner' # u /\ u \notin write_guards' /\ ~Admitted(u, "write_wait")'
    BY <1>0, <1>1, <1>5, <2>2 DEF Admitted, QueuesMatchParked
  <2> QED
    BY <2>3, <2>4
<1>11. QueuesMatchParked'
  <2>1. Elements(<<>>) = {} /\ Distinct(<<>>)
    BY DEF Elements, Distinct
  <2>2. Elements(waiting_readers') = {} /\ Distinct(waiting_readers')
    BY <1>5, <2>1
  <2>3. \A u \in Threads : u \in Elements(q) => pc[u] = "read_wait"
    BY <1>0 DEF QueuesMatchParked
  <2> QED
    BY <1>0, <1>5, <2>2, <2>3 DEF QueuesMatchParked
<1>12. NoSelfDeadlock' /\ GuardReleaseSucceeds'
  BY <1>0 DEF NoSelfDeadlock, GuardReleaseSucceeds
<1> QED
  BY <1>6, <1>7, <1>8, <1>10, <1>11, <1>12 DEF Inv

(* The last holder leaves: the lock goes to the oldest queued writer, or   *)
(* falls idle with nobody queued.                                          *)
LEMMA HandToWriterInv ==
  ASSUME Inv, aborted = "no", AdmitWriter,
         waiting_writers = <<>> => waiting_readers = <<>>,
         readers' = 0, reader_owners' \in [Threads -> Nat],
         read_guards' \in [Threads -> Nat], write_guards' = {},
         \A u \in Threads : /\ reader_owners'[u] = 0
                            /\ read_guards'[u] = 0
                            /\ ~Admitted(u, "read_wait")
                            /\ ~Admitted(u, "write_wait"),
         UNCHANGED <<pc, aborted>>
  PROVE  Inv'
<1> USE OwnerAssumption, UsizeAssumption
<1>0. /\ TypeOK /\ QueuesMatchParked /\ GuardReleaseSucceeds /\ NoSelfDeadlock
      /\ WaitersHaveBlocker
  BY DEF Inv
<1>1. CountMatchesOwners'
  <2>1. Slots(reader_owners') = {}
    BY NoSlot
  <2> QED
    BY <2>1, FS_EmptySet DEF CountMatchesOwners
<1>2. NoSelfDeadlock' /\ GuardReleaseSucceeds'
  BY <1>0 DEF NoSelfDeadlock, GuardReleaseSucceeds
<1>3. CASE waiting_writers # <<>>
  <2> DEFINE w == Head(waiting_writers)
  <2>1. /\ writer' = TRUE /\ writer_owner' = w
        /\ waiting_writers' = Tail(waiting_writers)
        /\ notified' = notified \union {w}
        /\ waiting_readers' = waiting_readers
    BY <1>3 DEF AdmitWriter
  <2>2. /\ waiting_writers' \in Seq(Threads)
        /\ w \in Threads
        /\ w \in Elements(waiting_writers)
        /\ Elements(waiting_writers') = Elements(waiting_writers) \ {w}
        /\ Distinct(waiting_writers')
    BY <1>0, <1>3, <2>1, PopQueue DEF TypeOK, QueuesMatchParked
  <2> HIDE DEF w
  <2>3. pc[w] = "write_wait" /\ w \notin notified
    BY <1>0, <2>2 DEF QueuesMatchParked
  <2>4. TypeOK'
    <3>1. writer' \in BOOLEAN
      BY <2>1
    <3>2. writer_owner' \in Threads \union {NoOwner} /\ notified' \in SUBSET Threads
      BY <1>0, <2>1, <2>2 DEF TypeOK
    <3>3. readers' \in 0 .. UsizeMax
      OBVIOUS
    <3> QED
      BY <1>0, <2>1, <2>2, <3>1, <3>2, <3>3, Zenon DEF TypeOK
  <2>5. WriterMatchesOwner' /\ WaitersHaveBlocker'
    BY <2>1, <2>2 DEF WriterMatchesOwner, WaitersHaveBlocker
  <2>6. OwnersMatchGuards'
    <3> SUFFICES ASSUME NEW u \in Threads
        PROVE /\ reader_owners'[u] = read_guards'[u]
                                      + IF Admitted(u, "read_wait")' THEN 1 ELSE 0
              /\ writer_owner' = u <=> u \in write_guards' \/ Admitted(u, "write_wait")'
      BY DEF OwnersMatchGuards
    <3>1. ~Admitted(u, "read_wait")'
      BY <2>1, <2>3 DEF Admitted
    <3>2. Admitted(u, "write_wait")' <=> u = w
      BY <2>1, <2>3 DEF Admitted
    <3>3. reader_owners'[u] = read_guards'[u] + IF Admitted(u, "read_wait")' THEN 1 ELSE 0
      BY <3>1
    <3>4. writer_owner' = u <=> u \in write_guards' \/ Admitted(u, "write_wait")'
      BY <2>1, <3>2
    <3> QED
      BY <3>3, <3>4
  <2>7. QueuesMatchParked'
    BY <1>0, <2>1, <2>2, <2>3, Zenon DEF QueuesMatchParked
  <2> QED
    BY <1>1, <1>2, <2>4, <2>5, <2>6, <2>7 DEF Inv
<1>4. CASE waiting_writers = <<>>
  <2>1. /\ writer' = FALSE /\ writer_owner' = NoOwner
        /\ waiting_writers' = waiting_writers
        /\ notified' = notified
        /\ waiting_readers' = waiting_readers
    BY <1>4 DEF AdmitWriter
  <2>2. TypeOK'
    <3>1. writer' \in BOOLEAN
      BY <2>1, Zenon
    <3>2. readers' \in 0 .. UsizeMax
      OBVIOUS
    <3> QED
      BY <1>0, <2>1, <3>1, <3>2, Zenon DEF TypeOK
  <2>3. WriterMatchesOwner' /\ WaitersHaveBlocker'
    BY <1>4, <2>1 DEF WriterMatchesOwner, WaitersHaveBlocker
  <2>4. OwnersMatchGuards'
    <3> SUFFICES ASSUME NEW u \in Threads
        PROVE /\ reader_owners'[u] = read_guards'[u]
                                      + IF Admitted(u, "read_wait")' THEN 1 ELSE 0
              /\ writer_owner' = u <=> u \in write_guards' \/ Admitted(u, "write_wait")'
      BY DEF OwnersMatchGuards
    <3>1. ~Admitted(u, "read_wait")' /\ ~Admitted(u, "write_wait")'
      BY <2>1 DEF Admitted
    <3> QED
      BY <2>1, <3>1
  <2>5. QueuesMatchParked'
    BY <1>0, <2>1 DEF QueuesMatchParked
  <2> QED
    BY <1>1, <1>2, <2>2, <2>3, <2>4, <2>5 DEF Inv
<1> QED
  BY <1>3, <1>4

(* Releasing a write guard. *)
LEMMA WriteUnlockInv ==
  ASSUME Inv, NEW t \in Threads, WriteUnlock(t)
  PROVE  Inv'
<1>0. /\ TypeOK /\ OwnersMatchGuards /\ NoSelfDeadlock /\ aborted = "no"
      /\ t \in write_guards
  BY DEF Inv, WriteUnlock
<1>1. /\ writer /\ writer_owner = t /\ readers = 0 /\ pc[t] = "run"
      /\ \A u \in Threads : reader_owners[u] = 0
      /\ \A u \in Threads : u # t => u \notin write_guards /\ ~Admitted(u, "write_wait")
      /\ ~OwnerLeftBehind(reader_owners, NoOwner)
  BY <1>0, WriteGuardOwns
<1>2. Len(waiting_readers) \in Nat
  BY <1>0 DEF TypeOK
<1>3. CASE Len(waiting_readers) > UsizeMax
  <2>1. Abort("overflow")
    BY <1>1, <1>3 DEF WriteUnlock
  <2> QED
    BY <2>1, AbortInv, Zenon
<1>4. CASE Len(waiting_readers) <= UsizeMax
  <2>1. ~(Len(waiting_readers) > UsizeMax)
    BY <1>2, <1>4, UsizeAssumption, SMTT(30)
  <2>2. /\ IF waiting_readers # <<>>
              THEN AdmitReaders
              ELSE AdmitWriter /\ UNCHANGED <<readers, reader_owners>>
        /\ write_guards' = write_guards \ {t}
        /\ UNCHANGED <<pc, read_guards, aborted>>
    BY <1>1, <2>1 DEF WriteUnlock
  <2>3. CASE waiting_readers # <<>>
    BY <1>0, <1>4, <2>2, <2>3, HandToReadersInv
  <2>4. CASE waiting_readers = <<>>
    <3>1. AdmitWriter /\ UNCHANGED <<readers, reader_owners>>
      BY <2>2, <2>4
    <3>2. write_guards' = {}
      BY <1>0, <1>1, <2>2, Zenon DEF TypeOK
    <3>3. \A u \in Threads : ~Admitted(u, "write_wait")
      BY <1>1, Zenon DEF Admitted
    <3>4. \A u \in Threads : read_guards[u] = 0 /\ ~Admitted(u, "read_wait")
      <4> SUFFICES ASSUME NEW u \in Threads
                   PROVE  read_guards[u] = 0 /\ ~Admitted(u, "read_wait")
        OBVIOUS
      <4>1. reader_owners[u] = read_guards[u] + IF Admitted(u, "read_wait") THEN 1 ELSE 0
        BY <1>0 DEF OwnersMatchGuards
      <4>2. read_guards[u] \in Nat /\ reader_owners[u] = 0
        BY <1>0, <1>1 DEF TypeOK
      <4> QED
        BY <4>1, <4>2
    <3>5. /\ readers' = 0 /\ reader_owners' \in [Threads -> Nat]
          /\ read_guards' \in [Threads -> Nat]
      BY <1>0, <1>1, <2>2, <3>1, Zenon DEF TypeOK
    <3>6. \A u \in Threads : /\ reader_owners'[u] = 0
                             /\ read_guards'[u] = 0
                             /\ ~Admitted(u, "read_wait")
                             /\ ~Admitted(u, "write_wait")
      BY <1>1, <2>2, <3>1, <3>3, <3>4, Zenon
    <3> QED
      BY <1>0, <2>2, <2>4, <3>1, <3>2, <3>5, <3>6, HandToWriterInv
  <2> QED
    BY <2>3, <2>4
<1> QED
  BY <1>2, <1>3, <1>4, UsizeAssumption

(* remove_reader on an owner table removes exactly one slot. *)
LEMMA RemoveSlot ==
  ASSUME NEW f \in [Threads -> Nat], NEW t \in Threads, f[t] > 0,
         IsFiniteSet(Slots(f))
  PROVE  LET g == [f EXCEPT ![t] = @ - 1]
         IN  /\ IsFiniteSet(Slots(g))
             /\ Cardinality(Slots(g)) = Cardinality(Slots(f)) - 1
<1> DEFINE g == [f EXCEPT ![t] = @ - 1]
           s == <<t, g[t] + 1>>
<1>0. g \in [Threads -> Nat]
  OBVIOUS
<1>1. [g EXCEPT ![t] = @ + 1] = f
  <2>1. g[t] + 1 = f[t] /\ \A u \in Threads \ {t} : g[u] = f[u]
    OBVIOUS
  <2> HIDE DEF g
  <2> QED
    BY <1>0, <2>1
<1> HIDE DEF g
<1>2. Slots(f) = Slots(g) \union {s} /\ s \notin Slots(g)
  BY <1>0, <1>1, AddSlot
<1> HIDE DEF s
<1>3. Slots(g) = Slots(f) \ {s} /\ s \in Slots(f)
  BY <1>2
<1>4. IsFiniteSet(Slots(g)) /\ Cardinality(Slots(g)) = Cardinality(Slots(f)) - 1
  BY <1>3, FS_RemoveElement
<1> QED
  BY <1>4 DEF g

(* The holder of a read guard is a recorded reader, and no writer is in. *)
LEMMA ReadGuardOwns ==
  ASSUME Inv, NEW t \in Threads, read_guards[t] > 0
  PROVE  /\ reader_owners[t] > 0 /\ readers > 0 /\ ~writer /\ writer_owner = NoOwner
         /\ write_guards = {} /\ \A u \in Threads : ~Admitted(u, "write_wait")
<1>1. reader_owners[t] > 0
  <2>1. read_guards[t] \in Nat
    BY DEF Inv, TypeOK
  <2>2. reader_owners[t] = read_guards[t] + IF Admitted(t, "read_wait") THEN 1 ELSE 0
    BY DEF Inv, OwnersMatchGuards
  <2> QED
    BY <2>1, <2>2
<1>2. readers > 0
  BY <1>1, ZeroReaders
<1>3. ~writer /\ writer_owner = NoOwner
  BY <1>2 DEF Inv, WriterMatchesOwner
<1>4. write_guards = {} /\ \A u \in Threads : ~Admitted(u, "write_wait")
  BY <1>3, OwnerAssumption DEF Inv, TypeOK, OwnersMatchGuards
<1> QED
  BY <1>1, <1>2, <1>3, <1>4, Zenon

(* Releasing a read guard. *)
LEMMA ReadUnlockInv ==
  ASSUME Inv, NEW t \in Threads, ReadUnlock(t)
  PROVE  Inv'
<1> USE OwnerAssumption, UsizeAssumption
<1> DEFINE owners == [reader_owners EXCEPT ![t] = @ - 1]
<1>0. /\ TypeOK /\ CountMatchesOwners /\ WriterMatchesOwner /\ OwnersMatchGuards
      /\ QueuesMatchParked /\ WaitersHaveBlocker /\ NoSelfDeadlock
      /\ GuardReleaseSucceeds
      /\ aborted = "no" /\ pc[t] = "run" /\ read_guards[t] > 0
  BY Zenon DEF Inv, ReadUnlock
<1>1. /\ reader_owners[t] > 0 /\ readers > 0 /\ ~writer /\ writer_owner = NoOwner
      /\ write_guards = {} /\ \A u \in Threads : ~Admitted(u, "write_wait")
  BY <1>0, ReadGuardOwns
<1>2. /\ reader_owners \in [Threads -> Nat] /\ read_guards \in [Threads -> Nat]
      /\ readers \in 0 .. UsizeMax
  BY <1>0 DEF TypeOK
<1>3. owners \in [Threads -> Nat] /\ owners[t] = reader_owners[t] - 1
      /\ \A u \in Threads : u # t => owners[u] = reader_owners[u]
  BY <1>1, <1>2
<1>4. IsFiniteSet(Slots(owners)) /\ Cardinality(Slots(owners)) = readers - 1
  BY <1>0, <1>1, <1>2, RemoveSlot, Zenon DEF CountMatchesOwners
<1>5. readers = 1 => \A u \in Threads : owners[u] = 0
  <2> HIDE DEF owners
  <2>1. SUFFICES ASSUME readers = 1 PROVE \A u \in Threads : owners[u] = 0
    OBVIOUS
  <2>2. Slots(owners) = {}
    BY <1>4, <2>1, FS_EmptySet
  <2> QED
    BY <1>3, <2>2, NoSlot
<1>6. ~(readers = 1 /\ OwnerLeftBehind(owners, writer_owner))
  BY <1>1, <1>5 DEF OwnerLeftBehind
<1>7. /\ readers' = readers - 1
      /\ reader_owners' = owners
      /\ IF readers = 1
           THEN AdmitWriter
           ELSE UNCHANGED <<writer, writer_owner, waiting_readers,
                            waiting_writers, notified>>
      /\ read_guards' = [read_guards EXCEPT ![t] = @ - 1]
      /\ UNCHANGED <<pc, write_guards, aborted>>
  <2>1. reader_owners[t] # 0 /\ readers # 0
    BY <1>1, <1>2
  <2> QED
    BY <1>1, <1>6, <2>1 DEF ReadUnlock
<1> HIDE DEF owners
<1>8. read_guards' \in [Threads -> Nat] /\ read_guards'[t] = read_guards[t] - 1
      /\ \A u \in Threads : u # t => read_guards'[u] = read_guards[u]
  BY <1>0, <1>2, <1>7
<1>9. CASE readers = 1
  <2>1. \A u \in Threads : read_guards'[u] = 0 /\ ~Admitted(u, "read_wait")
    <3> SUFFICES ASSUME NEW u \in Threads
                 PROVE  read_guards'[u] = 0 /\ ~Admitted(u, "read_wait")
      OBVIOUS
    <3>1. /\ reader_owners[u] = read_guards[u] + IF Admitted(u, "read_wait") THEN 1 ELSE 0
          /\ read_guards[u] \in Nat /\ reader_owners[u] \in Nat
      BY <1>0, <1>2 DEF OwnersMatchGuards
    <3>2. owners[u] = 0
      BY <1>5, <1>9
    <3>3. CASE u = t
      <4>1. reader_owners[u] = 1 /\ read_guards[u] > 0
        BY <1>0, <1>3, <3>1, <3>2, <3>3, SMTT(30)
      <4> QED
        BY <1>8, <3>1, <3>3, <4>1, SMTT(30)
    <3>4. CASE u # t
      <4>1. reader_owners[u] = 0
        BY <1>3, <3>2, <3>4, Zenon
      <4> QED
        BY <1>8, <3>1, <3>4, <4>1
    <3> QED
      BY <3>3, <3>4
  <2>2. AdmitWriter /\ readers' = 0
    BY <1>7, <1>9
  <2>3. waiting_writers = <<>> => waiting_readers = <<>>
    BY <1>0, <1>1, Zenon DEF WaitersHaveBlocker
  <2>4. /\ reader_owners' \in [Threads -> Nat] /\ write_guards' = {}
        /\ \A u \in Threads : reader_owners'[u] = 0
    BY <1>1, <1>3, <1>5, <1>7, <1>9, Zenon
  <2> QED
    BY <1>0, <1>1, <1>7, <1>8, <2>1, <2>2, <2>3, <2>4, HandToWriterInv, Zenon
<1>10. CASE readers # 1
  <2>1. UNCHANGED <<writer, writer_owner, waiting_readers, waiting_writers,
                    notified, pc, write_guards, aborted>>
    BY <1>7, <1>10, Zenon
  <2>2. readers' = readers - 1 /\ readers' > 0 /\ readers' \in 0 .. UsizeMax
    BY <1>1, <1>2, <1>7, <1>10
  <2>3. TypeOK'
    BY <1>0, <1>3, <1>7, <1>8, <2>1, <2>2, Zenon DEF TypeOK
  <2>4. CountMatchesOwners'
    BY <1>4, <1>7, Zenon DEF CountMatchesOwners
  <2>5. WriterMatchesOwner'
    BY <1>0, <1>1, <2>1, Zenon DEF WriterMatchesOwner
  <2>6. OwnersMatchGuards'
    <3> SUFFICES ASSUME NEW u \in Threads
        PROVE /\ reader_owners'[u] = read_guards'[u]
                                      + IF Admitted(u, "read_wait")' THEN 1 ELSE 0
              /\ writer_owner' = u <=> u \in write_guards' \/ Admitted(u, "write_wait")'
      BY DEF OwnersMatchGuards
    <3>1. /\ Admitted(u, "read_wait")' <=> Admitted(u, "read_wait")
          /\ Admitted(u, "write_wait")' <=> Admitted(u, "write_wait")
      BY <2>1, Zenon DEF Admitted
    <3>2. /\ reader_owners[u] = read_guards[u] + IF Admitted(u, "read_wait") THEN 1 ELSE 0
          /\ read_guards[u] \in Nat /\ reader_owners[u] \in Nat
      BY <1>0, <1>2 DEF OwnersMatchGuards
    <3>3. reader_owners'[u] = read_guards'[u] + IF Admitted(u, "read_wait") THEN 1 ELSE 0
      BY <1>3, <1>7, <1>8, <3>2
    <3>4. writer_owner' = u <=> u \in write_guards' \/ Admitted(u, "write_wait")'
      BY <1>0, <2>1, <3>1, Zenon DEF OwnersMatchGuards
    <3> QED
      BY <3>1, <3>3, <3>4, Zenon
  <2>7. QueuesMatchParked' /\ GuardReleaseSucceeds'
    BY <1>0, <2>1, Zenon DEF QueuesMatchParked, GuardReleaseSucceeds
  <2>8. WaitersHaveBlocker'
    BY <1>0, <1>1, <2>1, <2>2, Zenon DEF WaitersHaveBlocker
  <2>9. NoSelfDeadlock'
    BY <1>0, <1>8, <2>1, Zenon DEF NoSelfDeadlock
  <2> QED
    BY <2>3, <2>4, <2>5, <2>6, <2>7, <2>8, <2>9, Zenon DEF Inv
<1> QED
  BY <1>9, <1>10, Zenon

(* Every step, stuttering included, preserves the invariant. *)
LEMMA NextInv == Inv /\ [Next]_vars => Inv'
<1> SUFFICES ASSUME Inv, [Next]_vars PROVE Inv'
  BY Zenon
<1>1. CASE UNCHANGED vars
  BY <1>1, Zenon DEF vars, state, Inv, TypeOK, CountMatchesOwners, WriterMatchesOwner,
              OwnersMatchGuards, QueuesMatchParked, WaitersHaveBlocker,
              NoSelfDeadlock, GuardReleaseSucceeds, Admitted
<1>2. ASSUME NEW t \in Threads, NEW write \in BOOLEAN, NEW blocking \in BOOLEAN,
             Acquire(t, write, blocking)
      PROVE  Inv'
  BY <1>2, AcquireInv
<1>3. ASSUME NEW t \in Threads, Resume(t) PROVE Inv'
  BY <1>3, ResumeInv
<1>4. ASSUME NEW t \in Threads, WriteUnlock(t) PROVE Inv'
  BY <1>4, WriteUnlockInv
<1>5. ASSUME NEW t \in Threads, ReadUnlock(t) PROVE Inv'
  BY <1>5, ReadUnlockInv
<1>6. CASE Gone
  BY <1>1, <1>6 DEF Gone
<1> QED
  BY <1>1, <1>2, <1>3, <1>4, <1>5, <1>6, Zenon DEF Next

----------------------------------------------------------------------------
(* The inductive invariant holds in every reachable state, for any set of  *)
(* threads and any width of usize.                                         *)
THEOREM InvHolds == Spec => []Inv
  BY InitInv, NextInv, PTL DEF Spec

(* The lock state keeps its type: no counter of phase_lock.rs underflows   *)
(* or exceeds usize.                                                       *)
THEOREM TypeCorrect == Spec => []TypeOK
<1>1. Inv => TypeOK
  BY Zenon DEF Inv
<1> QED
  BY <1>1, InvHolds, PTL

(* acquire and release of phase_lock.rs exclude: while some thread owns a  *)
(* write guard no other guard exists, for any number of threads.           *)
THEOREM Exclusion == Spec => []MutualExclusion
<1>1. Inv => MutualExclusion
  <2> SUFFICES ASSUME Inv, NEW t \in write_guards, NEW u \in Threads
               PROVE  (u \in write_guards => u = t) /\ read_guards[u] = 0
    BY DEF MutualExclusion
  <2>1. t \in Threads
    BY DEF Inv, TypeOK
  <2>2. reader_owners[u] = 0 /\ (u \in write_guards => u = t)
    BY <2>1, WriteGuardOwns
  <2>3. reader_owners[u] = read_guards[u] + IF Admitted(u, "read_wait") THEN 1 ELSE 0
    BY DEF Inv, OwnersMatchGuards
  <2>4. read_guards[u] \in Nat
    BY DEF Inv, TypeOK
  <2> QED
    BY <2>2, <2>3, <2>4
<1> QED
  BY <1>1, InvHolds, PTL

(* The unlock entry points never take their abort path for a thread that   *)
(* releases a guard it owns.                                               *)
THEOREM ReleaseSucceeds == Spec => []GuardReleaseSucceeds
<1>1. Inv => GuardReleaseSucceeds
  BY DEF Inv
<1> QED
  BY <1>1, InvHolds, PTL

(* The reentry check of acquire is complete: no thread parks behind a      *)
(* guard of its own.                                                       *)
THEOREM ReentryNeverParks == Spec => []NoSelfDeadlock
<1>1. Inv => NoSelfDeadlock
  BY Zenon DEF Inv
<1> QED
  BY <1>1, InvHolds, PTL

(* A parked thread is queued exactly once or already signalled, and while  *)
(* somebody is queued the phase in progress has a holder to end it.        *)
THEOREM WaitersKept == Spec => []NoLostWaiter
<1>1. Inv => NoLostWaiter
  <2> SUFFICES ASSUME Inv PROVE NoLostWaiter
    BY Zenon
  <2>1. /\ waiting_readers \in Seq(Threads) /\ Distinct(waiting_readers)
        /\ waiting_writers \in Seq(Threads) /\ Distinct(waiting_writers)
    BY DEF Inv, TypeOK, QueuesMatchParked
  <2>2. ASSUME NEW t \in Threads
        PROVE  /\ Occurrences(waiting_readers, t)
                    = IF pc[t] = "read_wait" /\ t \notin notified THEN 1 ELSE 0
               /\ Occurrences(waiting_writers, t)
                    = IF pc[t] = "write_wait" /\ t \notin notified THEN 1 ELSE 0
    <3>1. /\ Occurrences(waiting_readers, t) = IF t \in Elements(waiting_readers) THEN 1 ELSE 0
          /\ Occurrences(waiting_writers, t) = IF t \in Elements(waiting_writers) THEN 1 ELSE 0
      BY <2>1, OccurrencesDistinct
    <3>2. /\ t \in Elements(waiting_readers) <=> pc[t] = "read_wait" /\ t \notin notified
          /\ t \in Elements(waiting_writers) <=> pc[t] = "write_wait" /\ t \notin notified
      BY DEF Inv, QueuesMatchParked
    <3> QED
      BY <3>1, <3>2
  <2> QED
    BY <2>2 DEF NoLostWaiter, Inv, WaitersHaveBlocker
<1> QED
  BY <1>1, InvHolds, PTL

(* PF4 of phase_lock.rs: while a writer is queued, reader admissions come  *)
(* only from the phase snapshot a write release takes.                     *)
THEOREM ReadersNeverOvertake == Spec => NoReaderOvertakes
<1> DEFINE Fair == \A t \in Threads :
                     waiting_writers # <<>> /\ reader_owners'[t] > reader_owners[t]
                       => writer /\ t \in Elements(waiting_readers)
<1>1. Inv /\ [Next]_vars => [Fair]_vars
  <2> SUFFICES ASSUME Inv, Next, NEW u \in Threads, waiting_writers # <<>>,
                      reader_owners'[u] > reader_owners[u]
               PROVE  writer /\ u \in Elements(waiting_readers)
    OBVIOUS
  <2>0. /\ reader_owners \in [Threads -> Nat] /\ waiting_readers \in Seq(Threads)
        /\ Distinct(waiting_readers)
    BY DEF Inv, TypeOK, QueuesMatchParked
  <2>1. reader_owners' # reader_owners
    BY <2>0, SMTT(60)
  <2>2. PICK t \in Threads : WriteUnlock(t) \/ ReadUnlock(t)
    BY <2>1 DEF Next, Acquire, Available, Abort, Park, AdmitArrivingWriter,
                Resume, Gone, vars, state
  <2>3. CASE WriteUnlock(t)
    <3>1. t \in write_guards /\ writer
      BY <2>3, WriteGuardOwns, ZenonT(60) DEF WriteUnlock
    <3>2. AdmitReaders
      BY <2>1, <2>3 DEF WriteUnlock, Abort, state
    <3>3. reader_owners'[u] = reader_owners[u] + Occurrences(waiting_readers, u)
      BY <3>2 DEF AdmitReaders
    <3>4. Occurrences(waiting_readers, u) = IF u \in Elements(waiting_readers) THEN 1 ELSE 0
      BY <2>0, OccurrencesDistinct
    <3>5. u \in Elements(waiting_readers)
      BY <2>0, <3>3, <3>4
    <3> QED
      BY <3>1, <3>5, Zenon
  <2>4. CASE ReadUnlock(t)
    <3>1. reader_owners' = [reader_owners EXCEPT ![t] = @ - 1]
      BY <2>1, <2>4 DEF ReadUnlock, Abort, state
    <3> QED
      BY <2>0, <3>1, SMTT(30)
  <2> QED
    BY <2>2, <2>3, <2>4
<1>2. Spec => [][Fair]_vars
  BY <1>1, InvHolds, PTL DEF Spec
<1> QED
  BY <1>2 DEF NoReaderOvertakes
=============================================================================
