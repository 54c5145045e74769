------------------------------- MODULE Condvar -------------------------------
(***************************************************************************)
(* The sequence monitor of rt_runtime/thread.rs under std.sync.condvar and *)
(* std.sync.mutex, used the way condvar.aru prescribes: the predicate is   *)
(* sampled under the mutex and waited for in a loop.                       *)
(*                                                                         *)
(* Consumers take one item each and wait, with or without a timeout, while *)
(* there is none; one whose wait reports a timeout may give up for good.   *)
(* Producers add one item each under the mutex and notify one or all,      *)
(* before or after they unlock.  The mutex is the writer queue of the      *)
(* phase-fair lock, handed over in FIFO order.                             *)
(***************************************************************************)
EXTENDS Naturals, Sequences, FiniteSets, FiniteSetsExt, SequencesExt

CONSTANTS Consumers, Producers, Nobody, SeqMax

ASSUME CondvarAssumption ==
  /\ IsFiniteSet(Consumers) /\ IsFiniteSet(Producers)
  /\ Consumers \cap Producers = {} /\ Nobody \notin Consumers \union Producers
  /\ SeqMax \in Nat

VARIABLES
  sequence,   \* the condition's atomic word
  waiters,    \* the bucket's queue of registered waiters
  notified,   \* waiters whose flag a notify has set
  sampled,    \* the sequence each waiter read before it unlocked
  timed,      \* threads whose current wait has a timeout
  result,     \* what the wait a thread has come back from returned
  owner,      \* who has the mutex
  lockers,    \* the mutex's queue
  items,      \* the predicate's data
  pc, aborted

monitor == <<sequence, waiters, notified, sampled, timed, result>>
mutex   == <<owner, lockers>>
vars    == <<monitor, mutex, items, pc, aborted>>

Threads == Consumers \union Producers

(* Earlier rounds of waiting have left the sequence anywhere. *)
Init ==
  /\ sequence \in 0 .. SeqMax
  /\ waiters = <<>>
  /\ notified = {}
  /\ sampled = [t \in Threads |-> 0]
  /\ timed = {}
  /\ result = [t \in Threads |-> "none"]
  /\ owner = Nobody
  /\ lockers = <<>>
  /\ items = 0
  /\ pc = [t \in Threads |-> "start"]
  /\ aborted = FALSE

Step(t, from, to) ==
  /\ ~aborted
  /\ pc[t] = from
  /\ pc' = [pc EXCEPT ![t] = to]

(* Mutex.lock from where, on to then: enter or queue behind the owner. *)
Lock(t, where, then) ==
  /\ IF owner = Nobody
       THEN /\ owner' = t
            /\ Step(t, where, then)
            /\ UNCHANGED lockers
       ELSE /\ lockers' = Append(lockers, t)
            /\ Step(t, where, "parked")
            /\ UNCHANGED owner
  /\ UNCHANGED <<monitor, items, aborted>>

(* The release has already made the parked thread the owner. *)
Resume(t) ==
  /\ owner = t
  /\ Step(t, "parked", "locked")
  /\ UNCHANGED <<monitor, mutex, items, aborted>>

Unlock ==
  IF lockers = <<>>
    THEN owner' = Nobody /\ UNCHANGED lockers
    ELSE owner' = Head(lockers) /\ lockers' = Tail(lockers)

(* A consumer that finds an item takes it and unlocks. *)
TakeItem(t) ==
  /\ items > 0
  /\ items' = items - 1
  /\ Unlock
  /\ Step(t, "locked", "done")
  /\ UNCHANGED <<monitor, aborted>>

(* A consumer that is told of a timeout gives up: it does not look again,   *)
(* because nobody notified it.                                              *)
GiveUp(t) ==
  /\ result[t] = "timeout"
  /\ Unlock
  /\ Step(t, "locked", "gave_up")
  /\ UNCHANGED <<monitor, items, aborted>>

(* Condvar.wait and waitTimeout: the sequence is read under the mutex. *)
Sample(t) ==
  /\ items = 0
  /\ sampled' = [sampled EXCEPT ![t] = sequence]
  /\ timed' \in {timed \ {t}, timed \union {t}}
  /\ result' = [result EXCEPT ![t] = "none"]
  /\ Step(t, "locked", "sampled")
  /\ UNCHANGED <<sequence, waiters, notified, mutex, items, aborted>>

(* MutexGuard.waitOnSequence: the unlock. *)
WaitUnlock(t) ==
  /\ Unlock
  /\ Step(t, "sampled", "unlocked")
  /\ UNCHANGED <<monitor, items, aborted>>

(* Mutant: the waiter registers whatever the sequence says. *)
RegisterUnchecked(t) ==
  /\ waiters' = Append(waiters, t)
  /\ Step(t, "unlocked", "registered")
  /\ UNCHANGED <<sequence, notified, sampled, timed, result, mutex, items, aborted>>

(* wait_on_monitor under the bucket: return on a changed sequence, else    *)
(* register a fresh waiter.                                                *)
Register(t) ==
  /\ IF sequence # sampled[t]
       THEN /\ result' = [result EXCEPT ![t] = "notified"]
            /\ Step(t, "unlocked", "relock")
            /\ UNCHANGED waiters
       ELSE /\ waiters' = Append(waiters, t)
            /\ Step(t, "unlocked", "registered")
            /\ UNCHANGED result
  /\ UNCHANGED <<sequence, notified, sampled, timed, mutex, items, aborted>>

(* wait_while sees the flag, or wait_timeout_while gives up. *)
WakeUp(t) ==
  /\ t \in notified \union timed
  /\ Step(t, "registered", "awake")
  /\ UNCHANGED <<monitor, mutex, items, aborted>>

(* Mutant: a timed wait reports the timeout it saw before the bucket. *)
DeregisterStale(t) ==
  /\ result' = [result EXCEPT ![t] = IF t \in timed THEN "timeout" ELSE "notified"]
  /\ waiters' = SelectSeq(waiters, LAMBDA u : u # t)
  /\ notified' = notified \ {t}
  /\ Step(t, "awake", "relock")
  /\ UNCHANGED <<sequence, sampled, timed, mutex, items, aborted>>

(* The tail of wait_on_monitor: the registration goes under the bucket lock *)
(* and the flag decides between notification and timeout.                   *)
Deregister(t) ==
  /\ result' = [result EXCEPT ![t] = IF t \in notified THEN "notified" ELSE "timeout"]
  /\ waiters' = SelectSeq(waiters, LAMBDA u : u # t)
  /\ notified' = notified \ {t}
  /\ Step(t, "awake", "relock")
  /\ UNCHANGED <<sequence, sampled, timed, mutex, items, aborted>>

(* A producer adds its item and unlocks before, or after, it notifies. *)
AddItem(t) ==
  /\ items' = items + 1
  /\ \/ /\ Unlock
        /\ Step(t, "locked", "advance")
     \/ /\ Step(t, "locked", "advance_locked")
        /\ UNCHANGED mutex
  /\ UNCHANGED <<monitor, aborted>>

(* advanceSequence: the compare-exchange, or the abort before it would wrap. *)
Advance(t, from, to) ==
  IF sequence = SeqMax
    THEN /\ pc[t] = from /\ ~aborted
         /\ aborted' = TRUE
         /\ UNCHANGED <<monitor, mutex, items, pc>>
    ELSE /\ sequence' = sequence + 1
         /\ Step(t, from, to)
         /\ UNCHANGED <<waiters, notified, sampled, timed, result, mutex, items, aborted>>

(* notify_monitor under the bucket: the oldest waiter, or all of them. *)
Notify(t, from, to) ==
  /\ \E n \in {Min({1, Len(waiters)}), Len(waiters)} :
       /\ waiters' = SubSeq(waiters, n + 1, Len(waiters))
       /\ notified' = notified \union Range(SubSeq(waiters, 1, n))
  /\ Step(t, from, to)
  /\ UNCHANGED <<sequence, sampled, timed, result, mutex, items, aborted>>

LeaveLocked(t) ==
  /\ Unlock
  /\ Step(t, "leave", "done")
  /\ UNCHANGED <<monitor, items, aborted>>

Finished(t) == pc[t] \in {"done", "gave_up"}

(* After an abort, or with every thread finished. *)
Stopped ==
  /\ aborted \/ \A t \in Threads : Finished(t)
  /\ UNCHANGED vars

Consume(t) ==
  \/ Lock(t, "start", "locked") \/ Resume(t) \/ TakeItem(t) \/ GiveUp(t) \/ Sample(t)
  \/ WaitUnlock(t) \/ Register(t) \/ WakeUp(t) \/ Deregister(t)
  \/ Lock(t, "relock", "locked")

Produce(t) ==
  \/ Lock(t, "start", "locked") \/ Resume(t) \/ AddItem(t)
  \/ Advance(t, "advance", "notify") \/ Notify(t, "notify", "done")
  \/ Advance(t, "advance_locked", "notify_locked")
  \/ Notify(t, "notify_locked", "leave") \/ LeaveLocked(t)

Next ==
  \/ \E t \in Consumers : Consume(t)
  \/ \E t \in Producers : Produce(t)
  \/ Stopped

Spec == Init /\ [][Next]_vars

(* Threads that can run do run.  A timed wait need not time out. *)
Fairness == /\ \A t \in Consumers : WF_vars(Consume(t))
            /\ \A t \in Producers : WF_vars(Produce(t))

FairSpec == Spec /\ Fairness

----------------------------------------------------------------------------
(* A sleeping waiter is one whose flag is not set.  A timeout may wake it   *)
(* some day; nobody may have to rely on that.                               *)
Asleep(t) == pc[t] = "registered" /\ t \notin notified

(* "Sequence validation under the ParkingLot bucket prevents a notification *)
(* between unlock and enqueue from being lost", and the flag, read under    *)
(* the same lock, keeps a timeout from swallowing one that picked its       *)
(* waiter: items never lie around while every consumer that still wants one *)
(* sleeps and no notify is on its way, although others time out, are told   *)
(* so and leave.                                                            *)
NoLostWakeup ==
  items > 0 /\ ~aborted
    => \/ \E p \in Producers : pc[p] \in {"advance", "notify", "advance_locked",
                                          "notify_locked"}
       \/ \E c \in Consumers : ~Finished(c) /\ ~Asleep(c)
       \/ \A c \in Consumers : Finished(c)

(* Every consumer gets its item or is told of a timeout, unless the         *)
(* sequence ran out: none sleeps forever.                                   *)
ConsumersServed ==
  \A c \in Consumers : <>(Finished(c) \/ aborted)
=============================================================================
