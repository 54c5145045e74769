---------------------------- MODULE PhaseFairness ----------------------------
(***************************************************************************)
(* PhaseLock with history variables that count how often a waiter is       *)
(* passed over, and its refinement of the abstract reader/writer lock.     *)
(***************************************************************************)
EXTENDS PhaseLock

VARIABLES overtaken,     \* write phases begun since a queued reader parked
          reader_phases  \* reader phases begun since the queue's first
                         \* writer became first

hvars == <<vars, overtaken, reader_phases>>

HInit ==
  /\ Init
  /\ overtaken = [t \in Threads |-> 0]
  /\ reader_phases = 0

WriterEnters == writer_owner' # NoOwner /\ writer_owner' # writer_owner

ReaderPhaseBegins == writer /\ readers' > 0

FirstWriterChanges ==
  \/ waiting_writers = <<>>
  \/ waiting_writers' = <<>>
  \/ Head(waiting_writers') # Head(waiting_writers)

HNext ==
  /\ Next
  /\ overtaken' =
       [t \in Threads |->
          IF t \in Elements(waiting_readers)
            THEN IF WriterEnters THEN overtaken[t] + 1 ELSE overtaken[t]
            ELSE 0]
  /\ reader_phases' =
       IF FirstWriterChanges THEN 0
       ELSE IF ReaderPhaseBegins THEN reader_phases + 1 ELSE reader_phases

HSpec == HInit /\ [][HNext]_hvars

(* The history variables disturb no step, so this is PhaseLock's fairness. *)
FairHSpec == HSpec /\ Fairness

(* Phase fairness of release: a queued reader lets at most one write phase *)
(* pass, and the first queued writer lets at most one reader phase pass    *)
(* (PF3 and PF4 in release).                                               *)
BoundedOvertaking ==
  /\ \A t \in Elements(waiting_readers) : overtaken[t] <= 1
  /\ waiting_writers # <<>> => reader_phases <= 1

RW == INSTANCE RwLock WITH
        reading   <- reader_owners,
        writing   <- writer_owner,
        wantRead  <- Elements(waiting_readers),
        wantWrite <- waiting_writers,
        broken    <- aborted # "no"

(* The queues, counters and signals of phase_lock.rs implement the         *)
(* abstract reader/writer lock: among other things writers enter in the    *)
(* order in which they queued.                                             *)
ImplementsRwLock == RW!RwSpec
=============================================================================
