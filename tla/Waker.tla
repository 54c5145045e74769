-------------------------------- MODULE Waker --------------------------------
(***************************************************************************)
(* Host wakers (arandu_runtime/src/waker_runtime.rs): the table with its   *)
(* packed (index, generation) ids, and the flag and condition variable     *)
(* that each waker's users share.                                          *)
(*                                                                         *)
(* A waker is numbered by its creation; a thread inside an operation keeps *)
(* the waker it found (an Arc) although the table may forget it.  Wakers   *)
(* are destroyed only when nobody waits on them without a timeout, which   *)
(* is what waker.aru asks of the program.                                  *)
(***************************************************************************)
EXTENDS Naturals, Sequences, FiniteSets

CONSTANTS
  Threads,
  MaxWakers,     \* bound on the wakers ever created
  GenMask        \* the largest generation, 2^31 - 1 in the code

ASSUME WakerAssumption == MaxWakers \in Nat /\ GenMask \in Nat \ {0}

VARIABLES
  entries,    \* the table: per index, a generation and a waker, 0 for None
  free,       \* the stack of free indices
  ids,        \* per waker ever created: its id
  woken,      \* per waker: its flag
  pc, arg,    \* per thread: where it is, and the waker it found
  timed,      \* threads whose wait has a timeout
  notified    \* sleeping threads that a notify_one has picked

vars == <<entries, free, ids, woken, pc, arg, timed, notified>>

Init ==
  /\ entries = <<>>
  /\ free = <<>>
  /\ ids = <<>>
  /\ woken = <<>>
  /\ pc = [t \in Threads |-> "idle"]
  /\ arg = [t \in Threads |-> 0]
  /\ timed = {}
  /\ notified = {}

pack_waker(i, g) == [index |-> i, generation |-> g]

(* The mask keeps 31 bits; zero is left to the first occupant. *)
bump_waker_generation(g) ==
  LET next == (g + 1) % (GenMask + 1) IN IF next = 0 THEN 1 ELSE next

(* waker_state: the waker that id names now, 0 for none. *)
waker_state(id) ==
  IF id.index \in DOMAIN entries /\ entries[id.index].generation = id.generation
    THEN entries[id.index].waker ELSE 0

(* ar_rt_waker_create *)
Create ==
  /\ Len(ids) < MaxWakers
  /\ LET new == Len(ids) + 1
         i == IF free # <<>> THEN free[Len(free)] ELSE Len(entries) + 1 IN
       /\ IF free # <<>>
            THEN /\ free' = SubSeq(free, 1, Len(free) - 1)
                 /\ entries' = [entries EXCEPT ![i].waker = new]
            ELSE /\ entries' = Append(entries, [generation |-> 0, waker |-> new])
                 /\ UNCHANGED free
       /\ ids' = Append(ids, pack_waker(i, entries'[i].generation))
       /\ woken' = Append(woken, FALSE)
  /\ UNCHANGED <<pc, arg, timed, notified>>

(* ar_rt_waker_destroy; with an id that names nothing it does nothing. *)
Destroy(id) ==
  /\ waker_state(id) # 0
  /\ \A t \in Threads : arg[t] = waker_state(id) => pc[t] \notin {"enter", "asleep"} \/ t \in timed
  /\ entries' = [entries EXCEPT
                   ![id.index] = [generation |-> bump_waker_generation(@.generation), waker |-> 0]]
  /\ free' = Append(free, id.index)
  /\ UNCHANGED <<ids, woken, pc, arg, timed, notified>>

(* wake and wait find their waker under the table's lock and release it. *)
Find(t, id, call, timeout) ==
  /\ pc[t] = "idle"
  /\ waker_state(id) # 0
  /\ arg' = [arg EXCEPT ![t] = waker_state(id)]
  /\ timed' = IF timeout THEN timed \union {t} ELSE timed \ {t}
  /\ pc' = [pc EXCEPT ![t] = call]
  /\ UNCHANGED <<entries, free, ids, woken, notified>>

(* wake sets the flag under the waker's lock, *)
SetFlag(t) ==
  /\ pc[t] = "wake"
  /\ woken' = [woken EXCEPT ![arg[t]] = TRUE]
  /\ pc' = [pc EXCEPT ![t] = "notify"]
  /\ UNCHANGED <<entries, free, ids, arg, timed, notified>>

(* The operation returns and lets go of its Arc. *)
Done(t) ==
  /\ pc' = [pc EXCEPT ![t] = "idle"]
  /\ arg' = [arg EXCEPT ![t] = 0]
  /\ timed' = timed \ {t}

Sleepers(w) == {t \in Threads : pc[t] = "asleep" /\ arg[t] = w /\ t \notin notified}

(* and notifies one sleeper after it has released the lock. *)
NotifyOne(t) ==
  /\ pc[t] = "notify"
  /\ IF Sleepers(arg[t]) = {} THEN UNCHANGED notified
     ELSE \E s \in Sleepers(arg[t]) : notified' = notified \union {s}
  /\ Done(t)
  /\ UNCHANGED <<entries, free, ids, woken>>

(* Mutant: a wait sleeps before it has looked at the flag. *)
CheckSleepsFirst(t) ==
  /\ \/ pc[t] = "enter"
     \/ pc[t] = "asleep" /\ (t \in notified \/ t \in timed)
  /\ \/ pc[t] = "asleep" /\ woken[arg[t]] /\ woken' = [woken EXCEPT ![arg[t]] = FALSE] /\ Done(t)
     \/ (pc[t] = "enter" \/ ~woken[arg[t]]) /\ pc' = [pc EXCEPT ![t] = "asleep"]
          /\ UNCHANGED <<woken, arg, timed>>
     \/ ~woken[arg[t]] /\ t \in timed /\ Done(t) /\ UNCHANGED woken
  /\ notified' = notified \ {t}
  /\ UNCHANGED <<entries, free, ids>>

(* wait under the waker's lock, on entry and whenever it wakes: the flag is *)
(* consumed, or the thread sleeps (again).  A timeout of zero, or one that  *)
(* has passed, returns instead.                                             *)
Check(t) ==
  /\ \/ pc[t] = "enter"
     \/ pc[t] = "asleep" /\ (t \in notified \/ t \in timed)
  /\ \/ woken[arg[t]] /\ woken' = [woken EXCEPT ![arg[t]] = FALSE] /\ Done(t)
     \/ ~woken[arg[t]] /\ pc' = [pc EXCEPT ![t] = "asleep"] /\ UNCHANGED <<woken, arg, timed>>
     \/ ~woken[arg[t]] /\ t \in timed /\ Done(t) /\ UNCHANGED woken
  /\ notified' = notified \ {t}
  /\ UNCHANGED <<entries, free, ids>>

Next ==
  \/ Create
  \/ \E w \in DOMAIN ids : Destroy(ids[w])
  \/ \E t \in Threads :
       \/ \E w \in DOMAIN ids : Find(t, ids[w], "wake", FALSE)
       \/ \E w \in DOMAIN ids, timeout \in BOOLEAN : Find(t, ids[w], "enter", timeout)
       \/ SetFlag(t) \/ NotifyOne(t) \/ Check(t)

Spec == Init /\ [][Next]_vars

----------------------------------------------------------------------------
(* wake raises the flag and notifies outside the lock, wait consumes the    *)
(* flag: a raised flag is never left with a sleeper, unless somebody who    *)
(* will look at the flag or notify is on the way, also when the one notified *)
(* is timing out.                                                           *)
NoLostWake ==
  \A w \in DOMAIN ids :
    woken[w] /\ Sleepers(w) # {} =>
      \E t \in Threads : arg[t] = w /\ (pc[t] \in {"notify", "enter"} \/ t \in notified)
=============================================================================
