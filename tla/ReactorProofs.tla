---------------------------- MODULE ReactorProofs ----------------------------
(***************************************************************************)
(* What the wakers and the reactor promise, for any threads, wakers and    *)
(* generations, any descriptors, sockets and batch sizes, on every         *)
(* backend: no wake is lost, a registration reaches its own socket and     *)
(* wakes once, and a sleep has its timer.                                  *)
(*                                                                         *)
(* The wakers come first.  NoLostWake is kept by every step, given that a  *)
(* thread inside an operation has a waker that was created (an Arc) and    *)
(* that only sleepers are notified.  Each operation has a lemma of its     *)
(* own, which the reactor's wakes use.                                     *)
(***************************************************************************)
EXTENDS Reactor, TLAPS

(* The entries of the table, with wakers up to the n-th. *)
Entry(n) == [generation : Nat, waker : 0 .. n]

(* The table refers to wakers that were created, free indices to the table. *)
TypeOK ==
  /\ ids \in Seq([index : Nat, generation : Nat])
  /\ entries \in Seq(Entry(Len(ids)))
  /\ free \in Seq(DOMAIN entries)
  /\ woken \in Seq(BOOLEAN) /\ Len(woken) = Len(ids)
  /\ pc \in [Threads -> {"idle", "wake", "notify", "enter", "asleep"}]
  /\ arg \in [Threads -> 0 .. Len(ids)]
  /\ timed \subseteq Threads
  /\ notified \subseteq {t \in Threads : pc[t] = "asleep"}

(* Whoever is inside wake or wait has its waker. *)
Held == \A t \in Threads : pc[t] # "idle" => arg[t] # 0

WakerInv == TypeOK /\ Held /\ NoLostWake

LEMMA SeqElement == ASSUME NEW S, NEW s \in Seq(S), NEW i \in DOMAIN s PROVE s[i] \in S
OBVIOUS

LEMMA SeqUpdate ==
  ASSUME NEW S, NEW s \in Seq(S), NEW i \in DOMAIN s, NEW x \in S
  PROVE  /\ [s EXCEPT ![i] = x] \in Seq(S)
         /\ Len([s EXCEPT ![i] = x]) = Len(s)
         /\ DOMAIN [s EXCEPT ![i] = x] = DOMAIN s
OBVIOUS

LEMMA SeqWiden == ASSUME NEW S, NEW U, S \subseteq U, NEW s \in Seq(S) PROVE s \in Seq(U)
OBVIOUS

LEMMA EntryUpdate ==
  ASSUME NEW n \in Nat, NEW e \in Entry(n) PROVE [e EXCEPT !.waker = n] \in Entry(n)
BY DEF Entry

LEMMA InitInv == Init => WakerInv
BY DEF Init, WakerInv, TypeOK, Held, NoLostWake, Sleepers, Entry

LEMMA BumpNat == \A g \in Nat : bump_waker_generation(g) \in Nat
BY WakerAssumption DEF bump_waker_generation

LEMMA StutterInv == WakerInv /\ UNCHANGED vars => WakerInv'
BY Zenon DEF WakerInv, TypeOK, Held, NoLostWake, Sleepers, vars

(* create makes a waker whose flag is down. *)
LEMMA CreateInv == WakerInv /\ Create => WakerInv'
<1> SUFFICES ASSUME WakerInv, Create PROVE WakerInv'
  OBVIOUS
<1> USE DEF WakerInv
<1> DEFINE new == Len(ids) + 1
           i == IF free # <<>> THEN free[Len(free)] ELSE Len(entries) + 1
<1>1. /\ ids' = Append(ids, pack_waker(i, entries'[i].generation))
      /\ woken' = Append(woken, FALSE)
      /\ UNCHANGED <<pc, arg, timed, notified>>
  BY DEF Create
<1>2. new \in Nat /\ Entry(Len(ids)) \subseteq Entry(new) /\ entries \in Seq(Entry(new))
  <2>1. Len(ids) \in Nat /\ Entry(Len(ids)) \subseteq Entry(new)
    BY DEF TypeOK, Entry
  <2> QED
    BY <2>1, SeqWiden DEF TypeOK
<1>3. /\ entries' \in Seq(Entry(new))
      /\ free' \in Seq(DOMAIN entries')
      /\ i \in DOMAIN entries'
  <2>1. CASE free # <<>>
    <3>1. Len(free) \in DOMAIN free /\ i = free[Len(free)] /\ i \in DOMAIN entries
      BY <2>1 DEF TypeOK
    <3>2. entries' = [entries EXCEPT ![i].waker = new] /\ free' = SubSeq(free, 1, Len(free) - 1)
      BY <2>1 DEF Create
    <3>3. free' \in Seq(DOMAIN entries)
      BY <2>1, <3>2, SMTT(30) DEF TypeOK
    <3>4. entries[i] \in Entry(new)
      BY <1>2, <3>1, SeqElement
    <3>5. [entries[i] EXCEPT !.waker = new] \in Entry(new)
      <4> HIDE DEF i, new
      <4> QED BY <1>2, <3>4, EntryUpdate
    <3>6. entries' = [entries EXCEPT ![i] = [entries[i] EXCEPT !.waker = new]]
      <4> HIDE DEF i, new
      <4> QED BY <3>1, <3>2 DEF TypeOK
    <3> HIDE DEF i, new
    <3>7. DOMAIN entries' = DOMAIN entries /\ entries' \in Seq(Entry(new))
      BY <1>2, <3>1, <3>5, <3>6, SeqUpdate
    <3> QED
      BY <3>1, <3>3, <3>7
  <2>2. CASE free = <<>>
    <3>1. entries' = Append(entries, [generation |-> 0, waker |-> new]) /\ free' = <<>>
      BY <2>2 DEF Create
    <3>2. [generation |-> 0, waker |-> new] \in Entry(new)
      BY <1>2 DEF Entry
    <3>3. entries' \in Seq(Entry(new)) /\ Len(entries') = Len(entries) + 1
      BY <1>2, <3>1, <3>2
    <3> QED
      BY <2>2, <3>1, <3>3 DEF TypeOK
  <2> QED
    BY <2>1, <2>2
<1>4. i \in Nat /\ entries'[i].generation \in Nat
  <2> HIDE DEF i, new
  <2>1. entries'[i] \in Entry(new) /\ i \in Nat
    BY <1>3, SeqElement
  <2> QED
    BY <2>1 DEF Entry
<1>5. ids' \in Seq([index : Nat, generation : Nat]) /\ Len(ids') = new /\ Len(ids) \in Nat
  <2> HIDE DEF i
  <2> QED BY <1>1, <1>4 DEF TypeOK, pack_waker
<1>6. TypeOK' /\ Held'
  <2> HIDE DEF i
  <2>1. woken' \in Seq(BOOLEAN) /\ Len(woken') = new
    BY <1>1 DEF TypeOK
  <2>2. arg' \in [Threads -> 0 .. new]
    BY <1>1, <1>5 DEF TypeOK
  <2> HIDE DEF new
  <2> QED BY <1>1, <1>3, <1>5, <2>1, <2>2 DEF TypeOK, Held
<1>7. NoLostWake'
  <2> HIDE DEF i
  <2>1. /\ DOMAIN ids' = DOMAIN ids \union {new}
        /\ \A w \in DOMAIN ids : woken'[w] = woken[w]
        /\ woken'[new] = FALSE
    BY <1>1, <1>5 DEF TypeOK
  <2> QED
    BY <1>1, <2>1, Zenon DEF NoLostWake, Sleepers
<1> QED
  BY <1>6, <1>7

(* destroy touches the table only; who has the waker keeps it. *)
LEMMA DestroyInv == ASSUME NEW id, WakerInv, Destroy(id) PROVE WakerInv'
<1> USE DEF WakerInv
<1>1. /\ UNCHANGED <<ids, woken, pc, arg, timed, notified>>
      /\ id.index \in DOMAIN entries
      /\ free' = Append(free, id.index)
      /\ entries' = [entries EXCEPT ![id.index] =
                       [generation |-> bump_waker_generation(entries[id.index].generation), waker |-> 0]]
  BY DEF Destroy, waker_state
<1>2. bump_waker_generation(entries[id.index].generation) \in Nat
  <2>1. entries[id.index] \in Entry(Len(ids))
    BY <1>1, SeqElement DEF TypeOK
  <2> QED
    BY <2>1, BumpNat, Zenon DEF Entry
<1>3. TypeOK'
  <2>1. [generation |-> bump_waker_generation(entries[id.index].generation), waker |-> 0]
          \in Entry(Len(ids))
    BY <1>2 DEF TypeOK, Entry
  <2>2. entries' \in Seq(Entry(Len(ids))) /\ DOMAIN entries' = DOMAIN entries
    BY <1>1, <2>1, SeqUpdate DEF TypeOK
  <2>3. free' \in Seq(DOMAIN entries')
    BY <1>1, <2>2 DEF TypeOK
  <2> QED
    BY <1>1, <2>2, <2>3 DEF TypeOK
<1>4. Held' /\ NoLostWake'
  BY <1>1 DEF Held, NoLostWake, Sleepers
<1> QED
  BY <1>3, <1>4

(* A wake or a wait starts: nobody that a sleeper relies on changes. *)
LEMMA FindInv ==
  ASSUME NEW t \in Threads, NEW id, NEW timeout \in BOOLEAN, NEW operation \in {"wake", "enter"},
         WakerInv, Find(t, id, operation, timeout)
  PROVE  WakerInv'
<1> USE DEF WakerInv
<1>1. waker_state(id) \in 1 .. Len(ids)
  <2>1. id.index \in DOMAIN entries /\ waker_state(id) = entries[id.index].waker /\ waker_state(id) # 0
    BY DEF Find, waker_state
  <2>2. entries[id.index] \in Entry(Len(ids))
    BY <2>1, SeqElement DEF TypeOK
  <2> QED
    BY <2>1, <2>2, SMTT(30) DEF TypeOK, Entry
<1>2. TypeOK' /\ Held'
  BY <1>1, SMTT(30) DEF Find, TypeOK, Held
<1>3. NoLostWake'
  BY ZenonT(30) DEF Find, TypeOK, NoLostWake, Sleepers
<1> QED
  BY <1>2, <1>3

(* wake raises the flag: it will notify. *)
LEMMA SetFlagInv == ASSUME NEW t \in Threads, WakerInv, SetFlag(t) PROVE WakerInv'
<1> USE DEF WakerInv
<1>1. arg[t] \in 1 .. Len(ids)
  BY DEF SetFlag, TypeOK, Held
<1>2. TypeOK' /\ Held'
  BY <1>1, SMTT(30) DEF SetFlag, TypeOK, Held
<1>3. NoLostWake'
  BY SMTT(60) DEF SetFlag, TypeOK, NoLostWake, Sleepers
<1> QED
  BY <1>2, <1>3

(* wake notifies: the sleeper it picks will look at the flag. *)
LEMMA NotifyOneInv == ASSUME NEW t \in Threads, WakerInv, NotifyOne(t) PROVE WakerInv'
<1> USE DEF WakerInv
<1>1. TypeOK' /\ Held'
  BY DEF NotifyOne, Done, Sleepers, TypeOK, Held
<1>2. ASSUME NEW w \in DOMAIN ids, woken[w], Sleepers(w)' # {}
      PROVE  \E u \in Threads : arg'[u] = w /\ (pc'[u] \in {"notify", "enter"} \/ u \in notified')
  <2>1. Sleepers(w)' \subseteq Sleepers(w)
    BY DEF NotifyOne, Done, Sleepers, TypeOK
  <2>2. CASE arg[t] = w
    BY <1>2, <2>1, <2>2, Zenon DEF NotifyOne, Done, Sleepers, TypeOK
  <2>3. CASE arg[t] # w
    BY <1>2, <2>1, <2>3, Zenon DEF NotifyOne, Done, TypeOK, NoLostWake
  <2> QED
    BY <2>2, <2>3
<1>3. NoLostWake'
  BY <1>2 DEF NotifyOne, NoLostWake
<1> QED
  BY <1>1, <1>3

(* wait leaves the flag down, whether it returns or sleeps. *)
LEMMA CheckInv == ASSUME NEW t \in Threads, WakerInv, Check(t) PROVE WakerInv'
<1> USE DEF WakerInv
<1>1. arg[t] \in 1 .. Len(ids)
  BY DEF Check, TypeOK, Held
<1>2. TypeOK' /\ Held'
  <2>1. woken' \in Seq(BOOLEAN) /\ Len(woken') = Len(ids)
    <3>1. woken' = woken \/ woken' = [woken EXCEPT ![arg[t]] = FALSE]
      BY DEF Check
    <3>2. arg[t] \in DOMAIN woken
      BY <1>1 DEF TypeOK
    <3>3. /\ [woken EXCEPT ![arg[t]] = FALSE] \in Seq(BOOLEAN)
          /\ Len([woken EXCEPT ![arg[t]] = FALSE]) = Len(woken)
      BY <3>2, FALSE \in BOOLEAN, SeqUpdate DEF TypeOK
    <3> QED
      BY <3>1, <3>3, Zenon DEF TypeOK
  <2>2. /\ pc' \in [Threads -> {"idle", "wake", "notify", "enter", "asleep"}]
        /\ arg' \in [Threads -> 0 .. Len(ids)]
        /\ timed' \subseteq Threads
        /\ notified' \subseteq {u \in Threads : pc'[u] = "asleep"}
    <3>1. CASE Done(t)
      BY <3>1, SMTT(30) DEF Check, Done, TypeOK
    <3>2. CASE pc' = [pc EXCEPT ![t] = "asleep"] /\ UNCHANGED <<arg, timed>>
      BY <3>2, Zenon DEF Check, TypeOK
    <3> QED
      BY <3>1, <3>2 DEF Check
  <2>3. Held'
    BY <1>1 DEF Check, Done, TypeOK, Held
  <2> QED
    BY <2>1, <2>2, <2>3 DEF Check, TypeOK
<1>3. woken'[arg[t]] = FALSE /\ \A w \in DOMAIN ids : w # arg[t] => woken'[w] = woken[w]
  BY <1>1, SMTT(30) DEF Check, TypeOK
<1>4. ASSUME NEW u \in Threads, arg[u] # arg[t]
      PROVE  pc'[u] = pc[u] /\ arg'[u] = arg[u] /\ (u \in notified' <=> u \in notified)
  BY <1>4 DEF Check, Done, TypeOK
<1>5. arg'[t] \in {arg[t], 0} /\ ids' = ids
  BY DEF Check, Done, TypeOK
<1>6. ASSUME NEW w \in DOMAIN ids, woken'[w], Sleepers(w)' # {}
      PROVE  \E u \in Threads : arg'[u] = w /\ (pc'[u] \in {"notify", "enter"} \/ u \in notified')
  <2>1. w # arg[t] /\ woken[w] /\ w # 0
    BY <1>3, <1>6, SMTT(30) DEF TypeOK
  <2>2. \A u \in Threads : arg'[u] = w => arg[u] = w
    BY <1>5, <2>1, Zenon DEF Check, Done, TypeOK
  <2>3. Sleepers(w) # {}
    BY <1>4, <1>6, <2>1, <2>2 DEF Sleepers
  <2> QED
    BY <1>4, <2>1, <2>3 DEF NoLostWake
<1>7. NoLostWake'
  BY <1>5, <1>6 DEF NoLostWake
<1> QED
  BY <1>2, <1>7

LEMMA NextInv == WakerInv /\ [Next]_vars => WakerInv'
<1> SUFFICES ASSUME WakerInv, [Next]_vars PROVE WakerInv'
  OBVIOUS
<1>1. CASE Next
  BY <1>1, CreateInv, DestroyInv, FindInv, SetFlagInv, NotifyOneInv, CheckInv, Zenon DEF Next
<1>2. CASE UNCHANGED vars
  BY <1>2, StutterInv
<1> QED
  BY <1>1, <1>2

(* ar_rt_waker_wake and ar_rt_waker_wait lose no wake, whatever the threads, *)
(* timeouts and destructions: a raised flag with a sleeper has somebody on   *)
(* the way who will notify or look at it.                                    *)
THEOREM NoWakeLost == Spec => []NoLostWake
<1>1. Init => WakerInv
  BY InitInv
<1>2. WakerInv /\ [Next]_vars => WakerInv'
  BY NextInv
<1>3. WakerInv => NoLostWake
  BY DEF WakerInv
<1> QED
  BY <1>1, <1>2, <1>3, PTL DEF Spec

-----------------------------------------------------------------------------
(* The reactor *)

Id == [index : Nat, generation : Nat]

Call ==
  [key : Fds \union Nat, sock : Nat, id : Id, events : SUBSET Filters,
   forever : BOOLEAN, sleep : BOOLEAN, leases : SUBSET Nat,
   batch : SUBSET (Nat \X (Filters \union {"any"})), fired : BOOLEAN,
   crossed : BOOLEAN, robbed : BOOLEAN]

Reg ==
  [id : Id, sock : Nat, crossed : BOOLEAN, wakes : 0 .. 2, events : SUBSET Filters,
   armed : BOOLEAN]

Places == {"idle", "register", "arm", "armed", "poll", "wait", "dispatch", "destroy"}

RTypeOK ==
  /\ backend \in {"epoll", "kqueue", "wsapoll"}
  /\ live \in BOOLEAN /\ closed \in BOOLEAN /\ timer \in BOOLEAN
  /\ deadline \in {"none", "set", "past"}
  /\ sockets \in [DOMAIN sockets -> Reg] /\ DOMAIN sockets \subseteq Fds \union Nat
  /\ owner \in Threads \union {Nobody}
  /\ fd \in Seq(Fds)
  /\ interest \subseteq Nat \X Filters
  /\ file \in [Fds -> Nat]
  /\ published \subseteq DOMAIN fd
  /\ at \in [Threads -> Places]
  /\ call \in [Threads -> Call]

(* A poll holds the lock as long as it has leases or undelivered events. *)
Locked ==
  /\ \A t \in Threads : at[t] \in {"wait", "dispatch"} <=> owner = t
  /\ closed => owner = Nobody
  /\ \A t \in Threads : at[t] # "dispatch" => call[t].batch = {}
  /\ \A t \in Threads : at[t] \notin {"wait", "dispatch"} => call[t].leases = {}
  /\ \A t \in Threads : backend # "wsapoll" => call[t].leases = {}
  /\ \A t \in Threads : call[t].leases \subseteq DOMAIN sockets

(* The kernel's tables: an open socket has its descriptor to itself, and a  *)
(* published one is open.                                                   *)
Files ==
  /\ \A f \in Fds : file[f] # 0 => file[f] \in DOMAIN fd /\ fd[file[f]] = f
  /\ \A s \in published : file[fd[s]] = s

(* What the kernel watches is open and in the reactor's map. *)
Watched ==
  /\ backend = "wsapoll" => interest = {}
  /\ \A e \in interest : /\ e[1] \in DOMAIN fd /\ file[fd[e[1]]] = e[1]
                         /\ fd[e[1]] \in DOMAIN sockets

(* A register under way has a descriptor that is its socket's, or crossed.  *)
Named ==
  \A t \in Threads : at[t] = "register" =>
    IF backend = "wsapoll" THEN call[t].key \in Nat
    ELSE /\ call[t].key \in Fds /\ call[t].sock # 0
         /\ call[t].crossed \/ file[call[t].key] = call[t].sock

(* Where the registration of an event is. *)
KeyOf(e) == IF backend = "wsapoll" THEN e[1] ELSE fd[e[1]]

(* Undelivered events have registrations. *)
Pending ==
  \A t \in Threads : \A e \in call[t].batch : e[1] \in Nat /\ KeyOf(e) \in DOMAIN sockets
                                             /\ (backend # "wsapoll" => e[1] \in DOMAIN fd)

(* Why there is one wake: kqueue and WSAPoll remember who was woken; with   *)
(* epoll a descriptor that is watched, or that has an undelivered event,    *)
(* was not, and it has one such event or is watched, not both.              *)
Once ==
  /\ OneWakePerRegistration
  /\ backend # "epoll" => \A k \in DOMAIN sockets : sockets[k].armed => sockets[k].wakes = 0
  /\ backend = "epoll" =>
       /\ \A e \in interest : sockets[fd[e[1]]].wakes = 0
       /\ \A t \in Threads : \A e \in call[t].batch :
            /\ sockets[fd[e[1]]].wakes = 0
            /\ \A x \in interest : fd[x[1]] # fd[e[1]]
            /\ \A x \in call[t].batch : fd[x[1]] = fd[e[1]] => x = e

(* A sleep that has armed keeps its timer or knows that it was robbed. *)
Timed == IF backend = "wsapoll" THEN deadline # "none" ELSE timer
Armed ==
  \A t \in Threads :
    at[t] \in {"armed", "poll", "wait"} /\ call[t].sleep /\ ~closed => Timed \/ call[t].robbed

ReactorInv ==
  /\ RTypeOK /\ Locked /\ Files /\ Watched /\ Named /\ RegistrationsReachTheirOwn
  /\ Pending /\ Once /\ Armed

----------------------------------------------------------------------------
(* Every step of the reactor leaves the wakers alone or is a step of theirs. *)
LEMMA ReactorKeepsWakers ==
  ASSUME WakerInv, [ReactorNext]_<<vars, rvars>> PROVE WakerInv'
<1>1. CASE UNCHANGED vars
  BY <1>1, StutterInv
<1>2. CASE WakerTable
  BY <1>2, CreateInv, DestroyInv DEF WakerTable
<1>3. ASSUME NEW t \in Threads, PollDispatch(t) PROVE WakerInv'
  <2>1. PICK e \in call[t].batch : UNCHANGED vars \/ Find(t, sockets[KeyOf(e)].id, "wake", FALSE)
    BY <1>3, Zenon DEF PollDispatch, KeyOf
  <2> QED
    BY <1>1, <2>1, FindInv, Zenon
<1>4. ASSUME NEW t \in Threads, WakerCall(t) \/ WakerStep(t) PROVE WakerInv'
  BY <1>4, FindInv, SetFlagInv, NotifyOneInv, CheckInv, Zenon DEF WakerCall, WakerStep
<1>5. ASSUME NEW t \in Threads, ReactorCall(t) PROVE WakerInv'
  BY <1>1, <1>5, Zenon DEF ReactorCall, FindSocket, Begin, Unpublish
<1>6. ASSUME NEW t \in Threads, ReactorStep(t) PROVE WakerInv'
  BY <1>1, <1>3, <1>6, Zenon DEF ReactorStep, Register, ArmTimer, SleepPolls, RingSleep, PollDeadline,
     PollEnter, PollWait, PollReturn, CloseSlot
<1>7. CASE \/ \E f \in Fds : Open(f)
           \/ \E s \in DOMAIN fd : Close(s) \/ \E f \in Filters : Readiness(s, f)
           \/ Tick
  BY <1>1, <1>7, Zenon DEF Open, Close, Readiness, Tick
<1> QED
  BY <1>1, <1>2, <1>4, <1>5, <1>6, <1>7 DEF ReactorNext

(* Sockets, readiness and timers with any threads: the reactor's wakes, the *)
(* program's own and the waits lose no wake.                                *)
THEOREM ReactorLosesNoWake == ReactorSpec => []NoLostWake
<1>1. ReactorInit => WakerInv
  BY InitInv DEF ReactorInit
<1>2. WakerInv /\ [ReactorNext]_<<vars, rvars>> => WakerInv'
  BY ReactorKeepsWakers
<1>3. WakerInv => NoLostWake
  BY DEF WakerInv
<1> QED
  BY <1>1, <1>2, <1>3, PTL DEF ReactorSpec

----------------------------------------------------------------------------
LEMMA NoCallIsCall == NoCall \in Call
BY DEF NoCall, Call, Id, pack_waker

LEMMA ReactorInitInv == ReactorInit => ReactorInv
<1> SUFFICES ASSUME ReactorInit PROVE ReactorInv
  OBVIOUS
<1>1. \A t \in Threads : at[t] = "idle" /\ call[t] = NoCall
  BY DEF ReactorInit
<1>2. RTypeOK
  <2>1. sockets \in [DOMAIN sockets -> Reg] /\ DOMAIN sockets \subseteq Fds \union Nat
    BY DEF ReactorInit
  <2>2. at \in [Threads -> Places] /\ call \in [Threads -> Call]
    BY NoCallIsCall DEF ReactorInit, Places
  <2>3. fd \in Seq(Fds) /\ file \in [Fds -> Nat] /\ published \subseteq DOMAIN fd
    BY DEF ReactorInit
  <2> QED
    BY <2>1, <2>2, <2>3, Zenon DEF ReactorInit, RTypeOK
<1>3. Locked
  BY <1>1, ReactorAssumption DEF ReactorInit, Locked, NoCall
<1>4. Files /\ Watched /\ Named /\ RegistrationsReachTheirOwn /\ Pending /\ Once /\ Armed
  BY <1>1 DEF ReactorInit, Files, Watched, Named, RegistrationsReachTheirOwn, Pending, Once,
     OneWakePerRegistration, Armed, NoCall
<1> QED
  BY <1>2, <1>3, <1>4 DEF ReactorInv

(* A step that does not touch the reactor. *)
LEMMA ReactorStutter ==
  ASSUME ReactorInv, UNCHANGED <<backend, live, slot, owner, interest, file, fd, published, at, call>>
  PROVE  ReactorInv'
<1> USE DEF ReactorInv, slot
<1>1. RTypeOK' /\ Locked'
  BY DEF RTypeOK, Locked
<1>2. Files' /\ Watched' /\ Named' /\ RegistrationsReachTheirOwn'
  BY DEF Files, Watched, Named, RegistrationsReachTheirOwn
<1>3. Pending' /\ Once' /\ Armed'
  BY DEF Pending, KeyOf, Once, OneWakePerRegistration, Armed, Timed
<1> QED
  BY <1>1, <1>2, <1>3

(* A thread without the lock moves on with nothing leased or pending. *)
LEMMA ThreadMoves ==
  ASSUME ReactorInv, NEW t \in Threads, NEW place \in Places \ {"wait", "dispatch"}, NEW c \in Call,
         at[t] \notin {"wait", "dispatch"},
         at' = [at EXCEPT ![t] = place], call' = [call EXCEPT ![t] = c],
         UNCHANGED <<backend, slot, owner, kernel>>, live' \in BOOLEAN,
         c.batch = {}, c.leases = {},
         place = "register" =>
           IF backend = "wsapoll" THEN c.key \in Nat
           ELSE c.key \in Fds /\ c.sock # 0 /\ (c.crossed \/ file[c.key] = c.sock),
         place \in {"armed", "poll"} /\ c.sleep /\ ~closed => Timed \/ c.robbed
  PROVE  ReactorInv'
<1> USE DEF ReactorInv, slot, kernel
<1>1. RTypeOK'
  BY DEF RTypeOK
<1>2. /\ \A u \in Threads : at'[u] = IF u = t THEN place ELSE at[u]
      /\ \A u \in Threads : call'[u] = IF u = t THEN c ELSE call[u]
  BY DEF RTypeOK
<1>3. Locked'
  BY <1>2, SMTT(30) DEF Locked
<1>4. Files' /\ Watched' /\ RegistrationsReachTheirOwn'
  BY DEF Files, Watched, RegistrationsReachTheirOwn
<1>5. Named'
  BY <1>2, SMTT(30) DEF Named
<1>6. Pending' /\ Once'
  BY <1>2, SMTT(30) DEF Pending, KeyOf, Once, OneWakePerRegistration
<1>7. Armed'
  BY <1>2, SMTT(60) DEF Armed, Timed
<1> QED
  BY <1>1, <1>3, <1>4, <1>5, <1>6, <1>7

(* The calls that start, and those that go on or return without a change to *)
(* the reactor.                                                             *)
LEMMA CallInv == ASSUME ReactorInv, WakerInv, NEW t \in Threads, ReactorCall(t) PROVE ReactorInv'
<1>1. ASSUME NEW s \in DOMAIN fd, NEW w \in DOMAIN ids, NEW ev \in Interests, FindSocket(t, s, w, ev)
      PROVE  ReactorInv'
  <2> DEFINE k == IF backend = "wsapoll" THEN s ELSE fd[s]
             c == [NoCall EXCEPT !.key = k, !.sock = s, !.id = ids[w], !.events = ev]
  <2>1. s \in Nat \ {0} /\ fd[s] \in Fds /\ file[fd[s]] = s
    BY <1>1, SeqElement DEF FindSocket, ReactorInv, RTypeOK, Files
  <2>2. ids[w] \in Id /\ ev \subseteq Filters
    BY SeqElement, ReactorAssumption, Zenon DEF WakerInv, TypeOK, Id
  <2>3. c \in Call /\ c.key = k /\ c.sock = s /\ c.batch = {} /\ c.leases = {} /\ ~c.sleep
    BY <2>1, <2>2, Zenon DEF NoCall, Call
  <2>4. /\ at[t] = "idle" /\ at' = [at EXCEPT ![t] = "register"] /\ call' = [call EXCEPT ![t] = c]
        /\ UNCHANGED <<backend, slot, owner, kernel>> /\ live' = live
    BY <1>1 DEF FindSocket, Begin
  <2>5. live' \in BOOLEAN /\ "register" \in Places \ {"wait", "dispatch"}
    BY <2>4 DEF ReactorInv, RTypeOK, Places
  <2>6. IF backend = "wsapoll" THEN c.key \in Nat
        ELSE c.key \in Fds /\ c.sock # 0 /\ (c.crossed \/ file[c.key] = c.sock)
    BY <2>1, <2>3
  <2> HIDE DEF c
  <2> QED
    BY <2>3, <2>4, <2>5, <2>6, ThreadMoves, Zenon
<1>2. ASSUME NEW place \in {"arm", "poll"}, NEW c \in Call, Begin(t, place, c),
             c.batch = {}, c.leases = {}, place = "poll" => ~c.sleep
      PROVE  ReactorInv'
  <2>1. /\ at[t] = "idle" /\ at' = [at EXCEPT ![t] = place] /\ call' = [call EXCEPT ![t] = c]
        /\ UNCHANGED <<backend, slot, owner, kernel>> /\ live' = live
    BY <1>2 DEF Begin
  <2>2. live' \in BOOLEAN /\ place \in Places \ {"wait", "dispatch"}
    BY <2>1 DEF ReactorInv, RTypeOK, Places
  <2> QED
    BY <1>2, <2>1, <2>2, ThreadMoves, Zenon
<1>3. ASSUME NEW sleep \in BOOLEAN, Begin(t, "arm", [NoCall EXCEPT !.sleep = sleep, !.forever = sleep])
      PROVE  ReactorInv'
  <2> DEFINE c == [NoCall EXCEPT !.sleep = sleep, !.forever = sleep]
  <2>1. c \in Call /\ c.batch = {} /\ c.leases = {}
    BY Zenon DEF NoCall, Call, Id, pack_waker
  <2> HIDE DEF c
  <2> QED
    BY <1>2, <1>3, <2>1, Zenon DEF c
<1>4. ASSUME NEW forever \in BOOLEAN, Begin(t, "poll", [NoCall EXCEPT !.forever = forever])
      PROVE  ReactorInv'
  <2> DEFINE c == [NoCall EXCEPT !.forever = forever]
  <2>1. c \in Call /\ c.batch = {} /\ c.leases = {} /\ ~c.sleep
    BY Zenon DEF NoCall, Call, Id, pack_waker
  <2> QED
    BY <1>2, <1>4, <2>1, Zenon
<1>5. CASE Unpublish(t)
  <2>1. /\ call[t] \in Call /\ call' = [call EXCEPT ![t] = call[t]]
        /\ call[t].batch = {} /\ call[t].leases = {}
    BY <1>5, Zenon DEF Unpublish, Goto, ReactorInv, RTypeOK, Locked
  <2>2. /\ at[t] = "idle" /\ at' = [at EXCEPT ![t] = "destroy"] /\ live' \in BOOLEAN
        /\ UNCHANGED <<backend, slot, owner, kernel>>
    BY <1>5, Zenon DEF Unpublish, Goto
  <2>3. "destroy" \in Places \ {"wait", "dispatch"}
    BY DEF Places
  <2> QED
    BY <2>1, <2>2, <2>3, ThreadMoves, Zenon
<1> QED
  BY <1>1, <1>3, <1>4, <1>5, Zenon DEF ReactorCall

LEMMA ReturnInv ==
  ASSUME ReactorInv, NEW t \in Threads, at[t] \notin {"wait", "dispatch"}, Return(t),
         UNCHANGED <<backend, live, slot, owner, kernel>>
  PROVE  ReactorInv'
<1>1. live' \in BOOLEAN /\ "idle" \in Places \ {"wait", "dispatch"}
  BY DEF ReactorInv, RTypeOK, Places
<1>2. NoCall.batch = {} /\ NoCall.leases = {}
  BY DEF NoCall
<1> QED
  BY <1>1, <1>2, NoCallIsCall, ThreadMoves, Zenon DEF Return

LEMMA SleepPollsInv == ASSUME ReactorInv, NEW t \in Threads, SleepPolls(t) PROVE ReactorInv'
<1>1. CASE live
  <2>1. /\ at[t] = "armed" /\ at' = [at EXCEPT ![t] = "poll"] /\ live' \in BOOLEAN
        /\ UNCHANGED <<backend, slot, owner, kernel>>
    BY <1>1 DEF SleepPolls, Goto, ReactorInv, RTypeOK
  <2>2. /\ call[t] \in Call /\ call' = [call EXCEPT ![t] = call[t]]
        /\ call[t].batch = {} /\ call[t].leases = {}
        /\ call[t].sleep /\ ~closed => Timed \/ call[t].robbed
    BY <1>1, <2>1, Zenon DEF SleepPolls, Goto, ReactorInv, RTypeOK, Locked, Armed
  <2>3. "poll" \in Places \ {"wait", "dispatch"}
    BY DEF Places
  <2> QED
    BY <2>1, <2>2, <2>3, ThreadMoves, Zenon
<1>2. CASE ~live
  BY <1>2, ReturnInv DEF SleepPolls
<1> QED
  BY <1>1, <1>2

LEMMA RingSleepInv == ASSUME ReactorInv, NEW t \in Threads, RingSleep(t) PROVE ReactorInv'
BY ReturnInv DEF RingSleep, Locks

(* The clock moves; a deadline that was set is not "none". *)
LEMMA TickInv == ASSUME ReactorInv, Tick PROVE ReactorInv'
<1> USE DEF ReactorInv, Tick, kernel
<1>1. RTypeOK' /\ Locked'
  BY Zenon  DEF RTypeOK, Locked
<1>2. Files' /\ Watched' /\ Named' /\ RegistrationsReachTheirOwn'
  BY Zenon  DEF Files, Watched, Named, RegistrationsReachTheirOwn
<1>3. Pending' /\ Once' /\ Armed'
  BY DEF Pending, KeyOf, Once, OneWakePerRegistration, Armed, Timed
<1> QED
  BY <1>1, <1>2, <1>3

(* A new socket takes an fd that nobody has, so that nobody watches it. *)
LEMMA OpenInv == ASSUME ReactorInv, NEW f \in Fds, Open(f) PROVE ReactorInv'
<1> USE DEF ReactorInv, slot
<1> DEFINE new == Len(fd) + 1
<1>1. /\ fd' = Append(fd, f) /\ file' = [file EXCEPT ![f] = new] /\ file[f] = 0
      /\ published' = published \union {new}
      /\ UNCHANGED <<backend, live, closed, deadline, timer, sockets, owner, interest, at, call>>
  BY DEF Open
<1>2. /\ new \in Nat /\ fd' \in Seq(Fds) /\ DOMAIN fd' = DOMAIN fd \union {new} /\ new \notin DOMAIN fd
      /\ fd'[new] = f /\ \A s \in DOMAIN fd : fd'[s] = fd[s] /\ fd[s] \in Fds
  BY <1>1 DEF RTypeOK
<1>3. new # 0 /\ 0 \notin DOMAIN fd
  BY DEF RTypeOK
<1> HIDE DEF new
<1>4. \A g \in Fds : file'[g] = IF g = f THEN new ELSE file[g]
  BY <1>1 DEF RTypeOK
<1>5. RTypeOK' /\ Locked'
  BY <1>1, <1>2 DEF RTypeOK, Locked
<1>6. Files'
  BY <1>1, <1>2, <1>3, <1>4, SMTT(60) DEF RTypeOK, Files
<1>7. Watched' /\ RegistrationsReachTheirOwn'
  BY <1>1, <1>2, <1>3, <1>4, SMTT(60) DEF Watched, RegistrationsReachTheirOwn
<1>8. Named'
  BY <1>1, <1>4, ZenonT(30) DEF Named
<1>9. Pending' /\ Once'
  BY <1>1, <1>2, SMTT(30) DEF Pending, KeyOf, Once, OneWakePerRegistration, Watched
<1>10. Armed'
  BY <1>1 DEF Armed, Timed
<1> QED
  BY <1>5, <1>6, <1>7, <1>8, <1>9, <1>10

(* Sockets go.  What the kernel watches is still open, and a published      *)
(* socket does not go.                                                      *)
LEMMA ReleaseFiles ==
  ASSUME ReactorInv, NEW gone, Release(gone), UNCHANGED <<backend, sockets>>,
         published' \subseteq published, published' \intersect gone = {}
  PROVE  /\ Files' /\ Watched' /\ RegistrationsReachTheirOwn'
         /\ fd' = fd /\ file' \in [Fds -> Nat] /\ interest' \subseteq interest
         /\ published' \subseteq DOMAIN fd
         /\ \A f \in Fds : file[f] \notin gone => file'[f] = file[f]
<1> USE DEF ReactorInv, RTypeOK
<1>1. /\ fd' = fd /\ file' = [f \in Fds |-> IF file[f] \in gone THEN 0 ELSE file[f]]
      /\ interest' = {e \in interest : e[1] \notin gone}
  BY DEF Release
<1>2. file' \in [Fds -> Nat] /\ \A f \in Fds : file'[f] = IF file[f] \in gone THEN 0 ELSE file[f]
  BY <1>1
<1>3. \A s \in DOMAIN fd : fd[s] \in Fds
  OBVIOUS
<1>4. Files'
  BY <1>1, <1>2, <1>3, ZenonT(30) DEF Files
<1>5. Watched' /\ RegistrationsReachTheirOwn'
  BY <1>1, <1>2, <1>3 DEF Watched, RegistrationsReachTheirOwn
<1> QED
  BY <1>1, <1>2, <1>4, <1>5

(* A register on the way to the socket knows that it was closed. *)
LEMMA CloseInv == ASSUME ReactorInv, NEW s \in DOMAIN fd, Close(s) PROVE ReactorInv'
<1> USE DEF ReactorInv, slot
<1> DEFINE gone == {s} \ UNION {call[t].leases : t \in Threads}
<1>1. /\ Release(gone) /\ published' = published \ {s}
      /\ call' = [t \in Threads |-> [call[t] EXCEPT !.crossed = @ \/ call[t].sock = s]]
      /\ UNCHANGED <<backend, live, closed, deadline, timer, sockets, owner, at>>
  BY DEF Close
<1>2. gone \subseteq {s} /\ published' \subseteq published /\ published' \intersect gone = {}
  BY <1>1
<1> HIDE DEF gone
<1>3. /\ Files' /\ Watched' /\ RegistrationsReachTheirOwn'
      /\ fd' = fd /\ file' \in [Fds -> Nat] /\ interest' \subseteq interest
      /\ published' \subseteq DOMAIN fd
      /\ \A f \in Fds : file[f] \notin gone => file'[f] = file[f]
  BY <1>1, <1>2, ReleaseFiles
<1>4. ASSUME NEW t \in Threads
      PROVE  /\ call'[t] \in Call
             /\ call'[t].crossed = (call[t].crossed \/ call[t].sock = s)
             /\ call'[t].key = call[t].key /\ call'[t].sock = call[t].sock
             /\ call'[t].sleep = call[t].sleep /\ call'[t].leases = call[t].leases
             /\ call'[t].batch = call[t].batch /\ call'[t].robbed = call[t].robbed
  <2>1. call[t] \in Call /\ call'[t] = [call[t] EXCEPT !.crossed = @ \/ call[t].sock = s]
    BY <1>1 DEF RTypeOK
  <2> QED
    BY <2>1, Zenon DEF Call
<1>5. RTypeOK'
  <2>1. call' \in [Threads -> Call]
    BY <1>1, <1>4
  <2> QED
    BY <1>1, <1>3, <2>1, Zenon DEF RTypeOK
<1>6. Locked'
  BY <1>1, <1>4, Zenon DEF Locked
<1>7. Named'
  <2>1. ASSUME NEW t \in Threads, at[t] = "register", backend # "wsapoll", ~call'[t].crossed
        PROVE  call[t].key \in Fds /\ file'[call[t].key] = call[t].sock
    BY <1>2, <1>3, <1>4, <2>1, Zenon DEF Named
  <2> QED
    BY <1>1, <1>4, <2>1, SMTT(60) DEF Named
<1>8. Pending' /\ Once'
  BY <1>1, <1>3, <1>4 DEF Pending, KeyOf, Once, OneWakePerRegistration
<1>9. Armed'
  BY <1>1, <1>4 DEF Armed, Timed
<1> QED
  BY <1>3, <1>5, <1>6, <1>7, <1>8, <1>9

(* Under the lock nothing is pending or leased.  The kernel watches what    *)
(* has the fd now, and that is the caller's socket, or the call crossed.    *)
LEMMA RegisterInv == ASSUME ReactorInv, NEW t \in Threads, Register(t) PROVE ReactorInv'
<1> USE DEF ReactorInv
<1>1. CASE closed
  BY <1>1, ReturnInv, Zenon DEF Register, Locks, slot, kernel
<1>2. CASE ~closed
  <2> DEFINE k == call[t].key
             r == Registration(call[t])
  <2>1. /\ at[t] = "register" /\ owner = Nobody
        /\ sockets' = Put(sockets, k, r)
        /\ interest' = IF backend = "wsapoll" \/ file[k] = 0 THEN interest
                       ELSE {e \in interest : e[1] # file[k]} \union ({file[k]} \X call[t].events)
        /\ at' = [at EXCEPT ![t] = "idle"] /\ call' = [call EXCEPT ![t] = NoCall]
        /\ UNCHANGED <<backend, live, closed, deadline, timer, owner, file, fd, published>>
    BY <1>2, Zenon DEF Register, Locks, Watch, Return
  <2>2. /\ r \in Reg /\ r.sock = call[t].sock /\ r.crossed = call[t].crossed /\ r.wakes = 0
        /\ k \in Fds \union Nat
    BY DEF RTypeOK, Registration, Call, Reg
  <2> HIDE DEF r
  <2>3. /\ DOMAIN sockets' = DOMAIN sockets \union {k} /\ sockets'[k] = r
        /\ \A i \in DOMAIN sockets \ {k} : sockets'[i] = sockets[i]
        /\ sockets' \in [DOMAIN sockets' -> Reg]
    BY <2>1, <2>2, Zenon DEF Put, RTypeOK
  <2>4. /\ \A u \in Threads : at'[u] = IF u = t THEN "idle" ELSE at[u]
        /\ \A u \in Threads : call'[u] = IF u = t THEN NoCall ELSE call[u]
        /\ \A u \in Threads : call'[u].batch = {} /\ call'[u].leases = {}
        /\ at' \in [Threads -> Places] /\ call' \in [Threads -> Call]
    <3>1. \A u \in Threads : at[u] \notin {"wait", "dispatch"}
      BY <2>1, ReactorAssumption, Zenon DEF Locked
    <3> QED
      BY <2>1, <3>1, NoCallIsCall, Zenon DEF RTypeOK, Locked, NoCall, Places
  <2>5. \A e \in interest' : \/ e \in interest /\ (backend = "wsapoll" \/ file[k] = 0 \/ e[1] # file[k])
                             \/ backend # "wsapoll" /\ file[k] # 0 /\ e[1] = file[k] /\ e[2] \in Filters
    BY <2>1, Zenon DEF RTypeOK, Call
  <2>6. interest' \subseteq Nat \X Filters
    <3>1. backend # "wsapoll" => k \in Fds
      BY <2>1 DEF Named
    <3>2. backend # "wsapoll" => {file[k]} \X call[t].events \subseteq Nat \X Filters
      BY <3>1, Zenon DEF RTypeOK, Call
    <3> QED
      BY <2>1, <3>2, ZenonT(30) DEF RTypeOK
  <2>7. RTypeOK'
    BY <2>1, <2>2, <2>3, <2>4, <2>6, Zenon DEF RTypeOK
  <2>8. Locked'
    BY <2>1, <2>4, ReactorAssumption, Zenon DEF Locked
  <2>9. Files'
    BY <2>1, Zenon DEF Files
  <2>10. backend # "wsapoll" => /\ k \in Fds /\ (r.crossed \/ file[k] = r.sock)
                                /\ (file[k] # 0 => file[k] \in DOMAIN fd /\ fd[file[k]] = k)
    BY <2>1, <2>2, Zenon DEF Named, Files
  <2>11. Watched'
    BY <2>1, <2>3, <2>5, <2>10, ZenonT(55) DEF Watched
  <2>12. RegistrationsReachTheirOwn'
    <3>1. ASSUME NEW e \in interest'
          PROVE  sockets'[fd[e[1]]].sock = e[1] \/ sockets'[fd[e[1]]].crossed
      <4>1. CASE fd[e[1]] = k
        BY <2>3, <2>5, <2>10, <4>1, Zenon DEF Watched
      <4>2. CASE fd[e[1]] # k
        BY <2>3, <2>5, <2>10, <4>2, Zenon DEF Watched, RegistrationsReachTheirOwn
      <4> QED
        BY <4>1, <4>2, Zenon
    <3> QED
      BY <2>1, <3>1, Zenon DEF RegistrationsReachTheirOwn
  <2>13. Named'
    BY <2>1, <2>4, Zenon DEF Named
  <2>14. Pending'
    BY <2>4, Zenon DEF Pending
  <2>15. Once'
    <3>1. \A i \in DOMAIN sockets' : sockets'[i].wakes = 0 \/ (i # k /\ sockets'[i] = sockets[i])
      BY <2>2, <2>3, Zenon
    <3>2. OneWakePerRegistration'
      BY <2>2, <2>3, <3>1, SMTT(60) DEF Once, OneWakePerRegistration
    <3>3. backend # "epoll" => \A i \in DOMAIN sockets' : sockets'[i].armed => sockets'[i].wakes = 0
      BY <2>3, <3>1, ZenonT(30) DEF Once
    <3>4. backend = "epoll" => \A e \in interest' : sockets'[fd[e[1]]].wakes = 0
      BY <2>3, <2>2, <2>5, <2>10, <3>1, SMTT(60) DEF Once, Watched
    <3> QED
      BY <2>1, <2>4, <3>2, <3>3, <3>4, Zenon DEF Once
  <2>16. Armed'
    BY <2>1, <2>4 DEF Armed, Timed
  <2> QED
    BY <2>7, <2>8, <2>9, <2>11, <2>12, <2>13, <2>14, <2>15, <2>16, Zenon
<1> QED
  BY <1>1, <1>2

(* Whoever takes the timer leaves the other calls as they were, but for     *)
(* robbed, which every sleep that has armed the timer gets.                 *)
LEMMA RobbedCalls ==
  ASSUME ReactorInv, NEW t \in Threads, NEW u \in Threads, NEW c, c = Robbed(t)[u]
  PROVE  IF u = t THEN c = NoCall
         ELSE /\ c \in Call
              /\ c.key = call[u].key /\ c.sock = call[u].sock /\ c.crossed = call[u].crossed
              /\ c.sleep = call[u].sleep /\ c.leases = call[u].leases /\ c.batch = call[u].batch
              /\ call[u].sleep /\ at[u] # "arm" => c.robbed
<1>1. c = IF u = t THEN NoCall ELSE [call[u] EXCEPT !.robbed = call[u].sleep /\ at[u] # "arm"]
  BY DEF Robbed
<1>2. call[u] \in Call
  BY DEF ReactorInv, RTypeOK
<1>3. CASE u # t
  <2>1. (call[u].sleep /\ at[u] # "arm") \in BOOLEAN
    OBVIOUS
  <2>2. c.robbed = (call[u].sleep /\ at[u] # "arm")
    BY <1>1, <1>2, <1>3 DEF Call
  <2> QED
    BY <1>1, <1>2, <1>3, <2>1, <2>2, ZenonT(30) DEF Call
<1> QED
  BY <1>1, <1>3

(* A thread without the lock, or that gives it up, returns; the timer and   *)
(* the registrations of closed sockets may go.  What keeps the sleeps right *)
(* is that they are robbed or still have a timer.                           *)
LEMMA TakeTimer ==
  ASSUME ReactorInv, NEW t \in Threads,
         at' = [at EXCEPT ![t] = "idle"],
         \/ call' = Robbed(t)
         \/ call' = [call EXCEPT ![t] = NoCall] /\ (Timed => Timed'),
         timer' \in BOOLEAN, deadline' \in {"none", "set", "past"},
         owner \in {Nobody, t}, owner' = Nobody,
         sockets' = sockets \/ sockets' = Retained,
         UNCHANGED <<backend, live, closed>>,
         /\ Files' /\ Watched' /\ RegistrationsReachTheirOwn'
         /\ fd' = fd /\ file' \in [Fds -> Nat] /\ interest' \subseteq interest
         /\ published' \subseteq DOMAIN fd
         /\ \A f \in Fds : backend # "wsapoll" => file'[f] = file[f]
  PROVE  ReactorInv'
<1> USE DEF ReactorInv
<1>1. \A u \in Threads : u # t => at[u] \notin {"wait", "dispatch"}
  BY ReactorAssumption DEF Locked
<1>2. \A u \in Threads : at'[u] = IF u = t THEN "idle" ELSE at[u]
  BY ZenonT(30) DEF RTypeOK
<1>3. ASSUME NEW u \in Threads
      PROVE  IF u = t THEN call'[u] = NoCall
             ELSE /\ call'[u] \in Call
                  /\ call'[u].key = call[u].key /\ call'[u].sock = call[u].sock
                  /\ call'[u].crossed = call[u].crossed /\ call'[u].sleep = call[u].sleep
                  /\ call'[u].leases = call[u].leases /\ call'[u].batch = call[u].batch
  BY RobbedCalls DEF RTypeOK
<1>4. call' \in [Threads -> Call] /\ at' \in [Threads -> Places]
  <2>1. DOMAIN call' = Threads /\ call' = [u \in Threads |-> call'[u]]
    BY DEF RTypeOK, Robbed
  <2> QED
    BY <1>3, <2>1, NoCallIsCall, ZenonT(60) DEF RTypeOK, Places
<1>5. /\ sockets' \in [DOMAIN sockets' -> Reg] /\ DOMAIN sockets' \subseteq DOMAIN sockets
      /\ \A k \in DOMAIN sockets' : sockets'[k] = sockets[k]
      /\ backend # "wsapoll" => sockets' = sockets
  BY Zenon DEF RTypeOK, Retained
<1>6. RTypeOK'
  BY <1>4, <1>5 DEF RTypeOK
<1>7. \A u \in Threads : call'[u].batch = {} /\ call'[u].leases = {}
  <2>1. NoCall.batch = {} /\ NoCall.leases = {}
    BY DEF NoCall
  <2>2. \A u \in Threads : u # t => call[u].batch = {} /\ call[u].leases = {}
    BY <1>1, Zenon DEF Locked
  <2> QED BY <1>3, <2>1, <2>2, Zenon
<1>8. Locked'
  BY <1>1, <1>2, <1>7, ReactorAssumption, SMTT(60) DEF Locked
<1>9. Named'
  BY <1>2, <1>3, SMTT(60) DEF Named
<1>10. Pending'
  BY <1>7, Zenon DEF Pending
<1>11. Once'
  BY <1>5, <1>7 DEF Once, OneWakePerRegistration, Watched
<1>12. Armed'
  <2>1. CASE call' = Robbed(t)
    <3>1. ASSUME NEW u \in Threads, at'[u] \in {"armed", "poll", "wait"}, call'[u].sleep
          PROVE  call'[u].robbed
      <4>1. u # t /\ at[u] # "arm" /\ call[u].sleep
        BY <1>2, <1>3, <3>1, SMTT(30)
      <4>2. PICK c : c = Robbed(t)[u]
        OBVIOUS
      <4>3. call[u].sleep /\ at[u] # "arm" => c.robbed
        BY <4>1, <4>2, RobbedCalls
      <4> QED
        BY <2>1, <4>1, <4>2, <4>3
    <3> QED
      BY <3>1 DEF Armed
  <2>2. CASE call' = [call EXCEPT ![t] = NoCall] /\ (Timed => Timed')
    BY <1>2, <1>3, <2>2 DEF Armed, RTypeOK
  <2> QED
    BY <2>1, <2>2, Zenon
<1> QED
  BY <1>6, <1>8, <1>9, <1>10, <1>11, <1>12, ZenonT(30)

LEMMA KernelStays ==
  ASSUME ReactorInv, UNCHANGED <<backend, kernel>>, sockets' = sockets \/ sockets' = Retained
  PROVE  /\ Files' /\ Watched' /\ RegistrationsReachTheirOwn'
         /\ fd' = fd /\ file' \in [Fds -> Nat] /\ interest' \subseteq interest
         /\ published' \subseteq DOMAIN fd
         /\ \A f \in Fds : backend # "wsapoll" => file'[f] = file[f]
<1> USE DEF ReactorInv, kernel
<1>1. backend # "wsapoll" => sockets' = sockets
  BY Zenon DEF RTypeOK, Retained
<1>2. Files' /\ fd' = fd /\ file' \in [Fds -> Nat] /\ interest' = interest /\ published' \subseteq DOMAIN fd
  BY ZenonT(30) DEF Files, RTypeOK
<1>3. Watched' /\ RegistrationsReachTheirOwn'
  BY <1>1 DEF Watched, RegistrationsReachTheirOwn
<1> QED
  BY <1>2, <1>3

(* A sleep goes on only with a timer; a timer that the kernel refused robs  *)
(* the other sleeps.                                                        *)
LEMMA ArmTimerInv == ASSUME ReactorInv, NEW t \in Threads, ArmTimer(t) PROVE ReactorInv'
<1>1. CASE closed
  BY <1>1, ReturnInv DEF ArmTimer, Locks, slot
<1>2. CASE ~closed
  <2>1. /\ at[t] = "arm" /\ owner = Nobody /\ deadline' = "set" /\ timer' \in BOOLEAN
        /\ UNCHANGED <<backend, live, closed, sockets, owner, kernel>>
    BY <1>2, ZenonT(60) DEF ArmTimer, Locks
  <2>2. (timer' \/ backend = "wsapoll") => Timed'
    BY <2>1 DEF Timed
  <2>3. CASE at' = [at EXCEPT ![t] = "armed"] /\ call' = call /\ Timed'
    <3> USE DEF ReactorInv, kernel
    <3>1. \A u \in Threads : at'[u] = IF u = t THEN "armed" ELSE at[u]
      BY <2>3 DEF RTypeOK
    <3>2. RTypeOK'
      BY <2>1, <2>3, ZenonT(30) DEF RTypeOK, Places
    <3>3. Locked' /\ Named'
      BY <2>1, <2>3, <3>1 DEF Locked, Named
    <3>4. Files' /\ Watched' /\ RegistrationsReachTheirOwn'
      BY <2>1, ZenonT(30) DEF Files, Watched, RegistrationsReachTheirOwn
    <3>5. Pending' /\ Once'
      BY <2>1, <2>3 DEF Pending, KeyOf, Once, OneWakePerRegistration
    <3>6. Armed'
      BY <2>3 DEF Armed
    <3> QED
      BY <3>2, <3>3, <3>4, <3>5, <3>6
  <2>4. CASE /\ at' = [at EXCEPT ![t] = "idle"]
             /\ \/ call' = Robbed(t)
                \/ call' = [call EXCEPT ![t] = NoCall] /\ Timed'
    BY <2>1, <2>4, KernelStays, TakeTimer, Zenon
  <2> QED
    BY <1>2, <2>2, <2>3, <2>4 DEF ArmTimer, Goto
<1> QED
  BY <1>1, <1>2

LEMMA PollDeadlineInv == ASSUME ReactorInv, NEW t \in Threads, PollDeadline(t) PROVE ReactorInv'
<1>1. /\ owner = Nobody /\ at' = [at EXCEPT ![t] = "idle"]
      /\ sockets' = Retained
      /\ UNCHANGED <<backend, live, closed, timer, owner, kernel>>
  BY DEF PollDeadline, Locks
<1>2. /\ \/ call' = Robbed(t)
         \/ call' = [call EXCEPT ![t] = NoCall] /\ (Timed => Timed')
      /\ deadline' \in {"none", "set", "past"} /\ timer' \in BOOLEAN
  BY <1>1 DEF PollDeadline, Timed, ReactorInv, RTypeOK
<1> QED
  BY <1>1, <1>2, KernelStays, TakeTimer, Zenon

(* The leases that go are WSAPoll's, and closed. *)
LEMMA PollReturnInv == ASSUME ReactorInv, NEW t \in Threads, PollReturn(t) PROVE ReactorInv'
<1> DEFINE gone == call[t].leases \ published
<1>1. /\ at[t] = "dispatch" /\ at' = [at EXCEPT ![t] = "idle"] /\ owner' = Nobody /\ Release(gone)
      /\ UNCHANGED <<backend, live, closed, sockets, published>>
  BY Zenon DEF PollReturn
<1>2. owner = t /\ (backend # "wsapoll" => gone = {})
  BY <1>1, Zenon DEF ReactorInv, Locked
<1>3. /\ \/ call' = Robbed(t)
         \/ call' = [call EXCEPT ![t] = NoCall] /\ (Timed => Timed')
      /\ deadline' \in {"none", "set", "past"} /\ timer' \in BOOLEAN
  BY <1>1, Zenon DEF PollReturn, Timed, ReactorInv, RTypeOK
<1>4. published' \subseteq published /\ published' \intersect gone = {}
  BY <1>1
<1> HIDE DEF gone
<1>5. /\ Files' /\ Watched' /\ RegistrationsReachTheirOwn'
      /\ fd' = fd /\ file' \in [Fds -> Nat] /\ interest' \subseteq interest
      /\ published' \subseteq DOMAIN fd
      /\ \A f \in Fds : file[f] \notin gone => file'[f] = file[f]
  BY <1>1, <1>4, ReleaseFiles
<1>6. \A f \in Fds : backend # "wsapoll" => file'[f] = file[f]
  BY <1>2, <1>5
<1> QED
  BY <1>1, <1>2, <1>3, <1>5, <1>6, TakeTimer, ZenonT(60)

(* The wait starts: the lock is taken, and with WSAPoll the sockets leased. *)
LEMMA PollEnterInv == ASSUME ReactorInv, NEW t \in Threads, PollEnter(t) PROVE ReactorInv'
<1>1. CASE closed
  BY <1>1, ReturnInv DEF PollEnter, Locks, slot
<1>2. CASE ~closed
  <2> USE DEF ReactorInv
  <2>1. /\ at[t] = "poll" /\ owner = Nobody /\ owner' = t
        /\ at' = [at EXCEPT ![t] = "wait"]
        /\ call' = [call EXCEPT ![t].leases = Leases,
                                ![t].fired = backend = "kqueue" /\ deadline = "past"]
        /\ sockets' = Retained
        /\ UNCHANGED <<backend, live, closed, deadline, timer, kernel>>
    BY <1>2 DEF PollEnter, Locks
  <2>2. /\ DOMAIN sockets' \subseteq DOMAIN sockets /\ sockets' \in [DOMAIN sockets' -> Reg]
        /\ \A k \in DOMAIN sockets' : sockets'[k] = sockets[k]
        /\ backend # "wsapoll" => sockets' = sockets
        /\ Leases \subseteq DOMAIN sockets'
        /\ backend # "wsapoll" => Leases = {}
    BY <2>1 DEF RTypeOK, Retained, Leases
  <2>3. backend = "wsapoll" => Leases \subseteq Nat
    BY DEF RTypeOK, Retained, Leases
  <2> HIDE DEF Leases
  <2>4. /\ \A u \in Threads : u # t => call'[u] = call[u]
        /\ call'[t] \in Call /\ call'[t].leases = Leases /\ call'[t].batch = call[t].batch
        /\ call'[t].sleep = call[t].sleep /\ call'[t].robbed = call[t].robbed
        /\ call' \in [Threads -> Call]
    <3>1. call[t] \in Call /\ Leases \subseteq Nat /\ (backend = "kqueue" /\ deadline = "past") \in BOOLEAN
      BY <2>2, <2>3 DEF RTypeOK
    <3>2. \E b \in BOOLEAN :
            call' = [call EXCEPT ![t] = [call[t] EXCEPT !.leases = Leases, !.fired = b]]
      BY <2>1, <3>1, ZenonT(60) DEF RTypeOK
    <3>3. PICK b \in BOOLEAN, c \in Call, l \in SUBSET Nat :
            /\ c = call[t] /\ l = Leases
            /\ call' = [call EXCEPT ![t] = [c EXCEPT !.leases = l, !.fired = b]]
      BY <3>1, <3>2, Zenon
    <3> DEFINE d == [c EXCEPT !.leases = l, !.fired = b]
    <3>4. d \in Call /\ d.leases = l /\ d.batch = c.batch /\ d.sleep = c.sleep /\ d.robbed = c.robbed
      BY Zenon DEF Call
    <3>5. call' = [call EXCEPT ![t] = d]
      BY <3>3
    <3> HIDE DEF d
    <3> QED
      BY <3>3, <3>4, <3>5 DEF RTypeOK
  <2>5. \A u \in Threads : at'[u] = IF u = t THEN "wait" ELSE at[u]
    BY <2>1 DEF RTypeOK
  <2>6. /\ Files' /\ Watched' /\ RegistrationsReachTheirOwn'
        /\ fd' = fd /\ file' \in [Fds -> Nat] /\ interest' \subseteq interest
        /\ published' \subseteq DOMAIN fd
    BY <2>1, KernelStays
  <2>7. RTypeOK'
    BY <2>1, <2>2, <2>4, <2>6 DEF RTypeOK, Places
  <2>8. \A u \in Threads : call'[u].batch = {} /\ (u # t => call'[u].leases = {})
    BY <2>1, <2>4, ReactorAssumption, Zenon DEF Locked
  <2>9. Locked'
    BY <1>2, <2>1, <2>2, <2>4, <2>5, <2>8, ReactorAssumption, SMTT(30) DEF Locked
  <2>10. Named'
    BY <2>1, <2>4, <2>5 DEF Named, kernel
  <2>11. Pending' /\ Once'
    BY <2>1, <2>2, <2>6, <2>8, ZenonT(60) DEF Pending, Once, OneWakePerRegistration, Watched
  <2>12. Armed'
    BY <2>1, <2>4, <2>5 DEF Armed, Timed
  <2> QED
    BY <2>6, <2>7, <2>9, <2>10, <2>11, <2>12
<1> QED
  BY <1>1, <1>2

(* An event of the kernel is about a watched or a leased socket, *)
LEMMA EventsOf ==
  ASSUME ReactorInv, NEW t \in Threads, NEW e \in Events(t)
  PROVE  /\ e \in Nat \X (Filters \union {"any"})
         /\ backend = "wsapoll" => e[1] \in call[t].leases
         /\ backend = "kqueue" => e \in interest
         /\ backend = "epoll" => \E x \in interest : e = <<x[1], "any">>
<1> USE DEF ReactorInv
<1>1. CASE backend = "epoll"
  BY <1>1 DEF Events, RTypeOK
<1>2. CASE backend = "kqueue"
  BY <1>2 DEF Events, RTypeOK
<1>3. CASE backend = "wsapoll"
  <2>1. call[t].leases \subseteq Nat
    BY DEF RTypeOK, Call
  <2> QED
    BY <1>3, <2>1 DEF Events
<1> QED
  BY <1>1, <1>2, <1>3 DEF RTypeOK

(* and with epoll a socket that has an event is no longer watched. *)
LEMMA PollWaitInv == ASSUME ReactorInv, NEW t \in Threads, PollWait(t) PROVE ReactorInv'
<1> USE DEF ReactorInv
<1>1. PICK b : /\ b \subseteq Events(t) \union TimerEvents
               /\ call' = [call EXCEPT ![t].batch = b \ TimerEvents,
                                       ![t].fired = @ \/ <<0, "timer">> \in b]
               /\ interest' = CASE backend = "epoll"   -> {e \in interest : \A x \in b : x[1] # e[1]}
                                [] backend = "kqueue"  -> interest \ b
                                [] backend = "wsapoll" -> interest
  BY Zenon DEF PollWait, Batches
<1> DEFINE nb == b \ TimerEvents
<1>2. nb \subseteq b /\ nb \subseteq Events(t)
  BY <1>1
<1> HIDE DEF nb
<1>3. /\ at[t] = "wait" /\ owner = t /\ at' = [at EXCEPT ![t] = "dispatch"]
      /\ UNCHANGED <<backend, live, closed, deadline, timer, sockets, owner, file, fd, published>>
  BY DEF PollWait, slot, Locked
<1>4. interest' \subseteq interest /\ (backend = "epoll" => \A e \in interest', x \in nb : x[1] # e[1])
  BY <1>1, <1>2 DEF RTypeOK
<1>5. nb \subseteq Nat \X (Filters \union {"any"})
  BY <1>2, EventsOf
<1>6. /\ \A u \in Threads : u # t => call'[u] = call[u]
      /\ call'[t].leases = call[t].leases /\ call'[t].batch = nb
      /\ call' \in [Threads -> Call]
  <2>1. call[t] \in Call
    BY DEF RTypeOK
  <2>2. \E f \in BOOLEAN : call' = [call EXCEPT ![t] = [call[t] EXCEPT !.batch = nb, !.fired = f]]
    <3>1. (call[t].fired \/ <<0, "timer">> \in b) \in BOOLEAN
      OBVIOUS
    <3> QED
      BY <1>1, <2>1, <3>1, Zenon DEF RTypeOK, nb
  <2>3. PICK f \in BOOLEAN, c \in Call, n \in SUBSET (Nat \X (Filters \union {"any"})) :
          c = call[t] /\ n = nb /\ call' = [call EXCEPT ![t] = [c EXCEPT !.batch = n, !.fired = f]]
    BY <1>5, <2>1, <2>2, Zenon
  <2> DEFINE d == [c EXCEPT !.batch = n, !.fired = f]
  <2>4. d \in Call /\ d.leases = c.leases /\ d.batch = n
    BY Zenon DEF Call
  <2>5. call' = [call EXCEPT ![t] = d]
    BY <2>3
  <2> HIDE DEF d
  <2> QED
    BY <2>3, <2>4, <2>5 DEF RTypeOK
<1>7. \A u \in Threads : at'[u] = IF u = t THEN "dispatch" ELSE at[u]
  BY <1>3 DEF RTypeOK
<1>8. RTypeOK'
  BY <1>3, <1>4, <1>6, Zenon DEF RTypeOK, Places
<1>9. Locked'
  BY <1>3, <1>6, <1>7, ZenonT(30) DEF Locked
<1>10. Files' /\ Named'
  BY <1>3, <1>6, <1>7, SMTT(60) DEF Files, Named
<1>11. Watched' /\ RegistrationsReachTheirOwn'
  BY <1>3, <1>4, ZenonT(30) DEF Watched, RegistrationsReachTheirOwn
<1>12. \A u \in Threads : u # t => call'[u].batch = {}
  BY <1>3, <1>6, ReactorAssumption DEF Locked
<1>13. \A e \in nb : /\ e[1] \in Nat /\ KeyOf(e) \in DOMAIN sockets
                     /\ backend # "wsapoll" => e[1] \in DOMAIN fd /\ file[fd[e[1]]] = e[1]
                     /\ backend = "epoll" => e[2] = "any" /\ sockets[fd[e[1]]].wakes = 0
  <2>1. ASSUME NEW e \in nb, backend = "wsapoll" PROVE e[1] \in Nat /\ KeyOf(e) \in DOMAIN sockets
    BY <1>2, <2>1, EventsOf, Zenon DEF KeyOf, Locked
  <2>2. ASSUME NEW e \in nb, backend # "wsapoll" PROVE \E x \in interest : x[1] = e[1]
    BY <1>2, <2>2, EventsOf, SMTT(30) DEF RTypeOK
  <2>3. ASSUME NEW e \in nb, backend = "epoll" PROVE e[2] = "any"
    BY <1>2, <2>3, EventsOf, SMTT(30)
  <2>4. ASSUME NEW e \in nb, backend # "wsapoll"
        PROVE  /\ e[1] \in Nat /\ KeyOf(e) \in DOMAIN sockets
               /\ e[1] \in DOMAIN fd /\ file[fd[e[1]]] = e[1]
               /\ backend = "epoll" => sockets[fd[e[1]]].wakes = 0
    <3>1. PICK x \in interest : x[1] = e[1]
      BY <2>2, <2>4
    <3>2. e[1] \in Nat
      BY <1>5, Zenon
    <3>3. e[1] \in DOMAIN fd /\ file[fd[e[1]]] = e[1] /\ fd[e[1]] \in DOMAIN sockets
      BY <3>1, Zenon DEF Watched
    <3>4. backend = "epoll" => sockets[fd[e[1]]].wakes = 0
      BY <3>1, Zenon DEF Once
    <3> QED
      BY <2>4, <3>2, <3>3, <3>4 DEF KeyOf
  <2> QED
    BY <2>1, <2>3, <2>4, Zenon
<1>14. Pending'
  BY <1>3, <1>6, <1>12, <1>13 DEF Pending, KeyOf
<1>15. Once'
  <2>1. ASSUME NEW e \in nb, NEW x \in nb, backend = "epoll", fd[x[1]] = fd[e[1]] PROVE x = e
    BY <1>5, <1>13, <2>1
  <2>2. ASSUME NEW e \in nb, NEW x \in interest', backend = "epoll" PROVE fd[x[1]] # fd[e[1]]
    BY <1>4, <1>13, <2>2 DEF Watched
  <2> QED
    BY <1>3, <1>4, <1>6, <1>12, <1>13, <2>1, <2>2, ZenonT(60) DEF Once, OneWakePerRegistration
<1>16. Armed'
  BY <1>3, <1>6, <1>7, SMTT(60) DEF Armed, Timed
<1> QED
  BY <1>8, <1>9, <1>10, <1>11, <1>14, <1>15, <1>16

(* An event fires its registration, which was not woken yet: kqueue and     *)
(* WSAPoll look at armed, and with epoll this is the only event of its fd.  *)
LEMMA PollDispatchInv == ASSUME ReactorInv, NEW t \in Threads, PollDispatch(t) PROVE ReactorInv'
<1> USE DEF ReactorInv
<1>1. /\ at[t] = "dispatch" /\ owner = t
      /\ UNCHANGED <<backend, live, closed, deadline, timer, owner, file, fd, published, at>>
  BY DEF PollDispatch, Locked
<1>2. PICK e \in call[t].batch :
        LET fires == backend = "epoll" \/ sockets[KeyOf(e)].armed
        IN /\ call' = [call EXCEPT ![t].batch = @ \ {e}]
           /\ sockets' = IF fires THEN [Woke(KeyOf(e)) EXCEPT ![KeyOf(e)].armed = FALSE] ELSE sockets
           /\ interest' = IF fires /\ backend = "kqueue"
                            THEN {x \in interest : fd[x[1]] # KeyOf(e)} ELSE interest
  BY Zenon DEF PollDispatch, KeyOf
<1> DEFINE k == KeyOf(e)
           fires == backend = "epoll" \/ sockets[k].armed
<1>3. k \in DOMAIN sockets /\ sockets[k] \in Reg
  BY DEF Pending, RTypeOK
<1>4. /\ \A u \in Threads : u # t => call'[u] = call[u]
      /\ call'[t].leases = call[t].leases /\ call'[t].batch = call[t].batch \ {e}
      /\ call' \in [Threads -> Call]
  <2>1. PICK c \in Call : c = call[t] /\ call' = [call EXCEPT ![t] = [c EXCEPT !.batch = c.batch \ {e}]]
    BY <1>2, Zenon DEF RTypeOK
  <2> DEFINE d == [c EXCEPT !.batch = c.batch \ {e}]
  <2>2. d \in Call /\ d.leases = c.leases /\ d.batch = c.batch \ {e}
    BY DEF Call
  <2>3. call' = [call EXCEPT ![t] = d]
    BY <2>1
  <2> HIDE DEF d
  <2> QED
    BY <2>1, <2>2, <2>3, ZenonT(60) DEF RTypeOK
<1>5. fires => sockets[k].wakes = 0
  BY <1>3, Zenon DEF Once, KeyOf, RTypeOK
<1>6. /\ DOMAIN sockets' = DOMAIN sockets /\ sockets' \in [DOMAIN sockets' -> Reg]
      /\ \A i \in DOMAIN sockets : i # k \/ ~fires => sockets'[i] = sockets[i]
      /\ \A i \in DOMAIN sockets : sockets'[i].sock = sockets[i].sock /\ sockets'[i].crossed = sockets[i].crossed
      /\ fires => ~sockets'[k].armed /\ sockets'[k].wakes = 1
  <2>1. CASE ~fires
    BY <1>2, <2>1, Zenon DEF RTypeOK
  <2>2. CASE fires
    <3>1. PICK r \in Reg, n \in 0 .. 2, b \in BOOLEAN : r = sockets[k] /\ n = 1 /\ b = FALSE
      BY <1>3, FALSE \in BOOLEAN, 1 \in 0 .. 2, Zenon
    <3> DEFINE d == [r EXCEPT !.wakes = n, !.armed = b]
    <3>2. d \in Reg /\ d.sock = r.sock /\ d.crossed = r.crossed /\ d.armed = b /\ d.wakes = n
      BY Zenon DEF Reg
    <3>3. sockets' = [sockets EXCEPT ![k] = d]
      <4>1. sockets' = [Woke(k) EXCEPT ![k].armed = FALSE]
        BY <1>2, <2>2, Zenon
      <4> HIDE DEF k
      <4>2. (IF r.wakes < 2 THEN r.wakes + 1 ELSE r.wakes) = n
        BY <1>5, <2>2, <3>1
      <4>3. Woke(k) = [sockets EXCEPT ![k] = [r EXCEPT !.wakes = n]]
        BY <3>1, <4>2, Zenon DEF Woke
      <4> QED
        BY <1>3, <3>1, <4>1, <4>3, Zenon DEF RTypeOK
    <3> HIDE DEF d, k
    <3>4. ~d.armed /\ d.wakes = 1
      BY <3>1, <3>2, Zenon
    <3>5. /\ DOMAIN sockets' = DOMAIN sockets /\ sockets'[k] = d
          /\ \A i \in DOMAIN sockets : i # k => sockets'[i] = sockets[i]
      BY <1>3, <3>3, Zenon DEF RTypeOK
    <3>6. sockets' \in [DOMAIN sockets' -> Reg]
      BY <1>3, <3>2, <3>3 DEF RTypeOK
    <3> HIDE DEF fires
    <3> QED
      BY <2>2, <3>1, <3>2, <3>4, <3>5, <3>6
  <2> QED
    BY <2>1, <2>2
<1>7. interest' \subseteq interest
  BY <1>2, Zenon
<1> HIDE DEF k, fires
<1>8. RTypeOK'
  BY <1>1, <1>4, <1>6, <1>7, ZenonT(30) DEF RTypeOK
<1>9. Locked'
  BY <1>1, <1>4, <1>6 DEF Locked
<1>10. Files' /\ Named'
  <2>1. Files'
    BY <1>1, Zenon DEF Files
  <2>2. \A u \in Threads : at'[u] = "register" => at[u] = "register" /\ call'[u] = call[u]
    BY <1>1, <1>4, Zenon
  <2> QED
    BY <1>1, <2>1, <2>2, Zenon DEF Named
<1>11. Watched' /\ RegistrationsReachTheirOwn'
  BY <1>1, <1>6, <1>7, Zenon DEF Watched, RegistrationsReachTheirOwn
<1>12. Pending'
  BY <1>1, <1>4, <1>6, Zenon DEF Pending, KeyOf
<1>13. Once'
  <2>1. OneWakePerRegistration' /\ (backend # "epoll" =>
          \A i \in DOMAIN sockets' : sockets'[i].armed => sockets'[i].wakes = 0)
    BY <1>3, <1>6 DEF Once, OneWakePerRegistration, RTypeOK
  <2>2. CASE backend # "epoll"
    BY <1>1, <2>1, <2>2, Zenon DEF Once
  <2>3. CASE backend = "epoll"
    <3>1. k = fd[e[1]]
      BY <2>3, Zenon DEF k, KeyOf
    <3>2. \A x \in interest' : fd[x[1]] # k /\ sockets'[fd[x[1]]].wakes = 0
      BY <1>6, <1>7, <2>3, <3>1, SMTT(60) DEF Once, Watched
    <3>3. \A x \in call'[t].batch : fd[x[1]] # k /\ sockets'[fd[x[1]]].wakes = 0
      BY <1>4, <1>6, <2>3, <3>1, SMTT(60) DEF Once, Pending, KeyOf
    <3>4. \A u \in Threads : u # t => call'[u].batch = {}
      BY <1>1, <1>4, Zenon DEF Locked
    <3> QED
      BY <1>1, <1>4, <1>7, <2>1, <2>3, <3>2, <3>3, <3>4, ZenonT(30) DEF Once
  <2> QED
    BY <2>2, <2>3, Zenon
<1>14. Armed'
  BY <1>1, <1>4, Zenon DEF Armed, Timed
<1> QED
  BY <1>8, <1>9, <1>10, <1>11, <1>12, <1>13, <1>14, Zenon

(* The slot is emptied when no poll holds the lock. *)
LEMMA CloseSlotInv == ASSUME ReactorInv, NEW t \in Threads, CloseSlot(t) PROVE ReactorInv'
<1> USE DEF ReactorInv
<1>1. /\ at[t] = "destroy" /\ owner = Nobody /\ closed' = TRUE /\ timer' = FALSE /\ deadline' = "none"
      /\ sockets' = <<>> /\ interest' = {}
      /\ at' = [at EXCEPT ![t] = "idle"] /\ call' = [call EXCEPT ![t] = NoCall]
      /\ UNCHANGED <<backend, live, owner, file, fd, published>>
  BY Zenon DEF CloseSlot, Locks, Return
<1>2. /\ \A u \in Threads : at'[u] = IF u = t THEN "idle" ELSE at[u]
      /\ \A u \in Threads : call'[u] = IF u = t THEN NoCall ELSE call[u]
      /\ at' \in [Threads -> Places] /\ call' \in [Threads -> Call]
  BY <1>1, NoCallIsCall, Zenon DEF RTypeOK, Places
<1>3. sockets' \in [DOMAIN sockets' -> Reg] /\ DOMAIN sockets' = {}
  BY <1>1
<1>4. RTypeOK'
  BY <1>1, <1>2, <1>3, Zenon DEF RTypeOK
<1>5. \A u \in Threads : call'[u].batch = {} /\ call'[u].leases = {}
  BY <1>1, <1>2, ReactorAssumption, ZenonT(60) DEF Locked, NoCall
<1>6. Locked'
  BY <1>1, <1>2, <1>5, ReactorAssumption, ZenonT(60) DEF Locked
<1>7. Files' /\ Watched' /\ RegistrationsReachTheirOwn' /\ Named'
  BY <1>1, <1>2, ZenonT(46) DEF Files, Watched, RegistrationsReachTheirOwn, Named
<1>8. Pending' /\ Once' /\ Armed'
  BY <1>1, <1>3, <1>5, Zenon DEF Pending, Once, OneWakePerRegistration, Armed
<1> QED
  BY <1>4, <1>6, <1>7, <1>8, Zenon

LEMMA ReactorStepInv == ASSUME ReactorInv, NEW t \in Threads, ReactorStep(t) PROVE ReactorInv'
BY RegisterInv, ArmTimerInv, SleepPollsInv, RingSleepInv, PollDeadlineInv, PollEnterInv, PollWaitInv,
   PollDispatchInv, PollReturnInv, CloseSlotInv, Zenon DEF ReactorStep

LEMMA ReactorNextInv ==
  ASSUME ReactorInv, WakerInv, [ReactorNext]_<<vars, rvars>> PROVE ReactorInv'
<1>1. CASE UNCHANGED rvars
  BY <1>1, ReactorStutter DEF rvars, kernel
<1>2. CASE \/ \E f \in Fds : Open(f)
           \/ \E s \in DOMAIN fd : Close(s) \/ \E f \in Filters : Readiness(s, f)
           \/ Tick
  BY <1>2, OpenInv, CloseInv, ReactorStutter, TickInv, Zenon DEF Readiness
<1>3. ASSUME NEW t \in Threads, ReactorCall(t) \/ ReactorStep(t) PROVE ReactorInv'
  BY <1>3, CallInv, ReactorStepInv
<1> QED
  BY <1>1, <1>2, <1>3, Zenon DEF ReactorNext, WakerTable, WakerCall, WakerStep

LEMMA ReactorInvariant == ReactorSpec => []ReactorInv
<1>1. ReactorInit => WakerInv /\ ReactorInv
  BY InitInv, ReactorInitInv DEF ReactorInit
<1>2. WakerInv /\ ReactorInv /\ [ReactorNext]_<<vars, rvars>> => WakerInv' /\ ReactorInv'
  BY ReactorKeepsWakers, ReactorNextInv
<1> QED
  BY <1>1, <1>2, PTL DEF ReactorSpec

(* ar_rt_reactor_register_socket and ar_rt_tcp_close, on the three backends: *)
(* what the kernel watches is the registration's own socket, or the socket  *)
(* was closed while register was looking at its fd.                         *)
THEOREM RegistrationsOwn == ReactorSpec => []RegistrationsReachTheirOwn
<1>1. ReactorInv => RegistrationsReachTheirOwn
  BY Zenon DEF ReactorInv
<1> QED
  BY <1>1, ReactorInvariant, PTL

(* The dispatch of ar_rt_reactor_poll_ms wakes a registration once, with any *)
(* batch size and any number of polling threads.                            *)
THEOREM WakesOnce == ReactorSpec => []OneWakePerRegistration
<1>1. ReactorInv => OneWakePerRegistration
  BY Zenon  DEF ReactorInv, Once
<1> QED
  BY <1>1, ReactorInvariant, PTL

(* ar_rt_reactor_sleep_ms waits in the kernel with its timer armed, or      *)
(* another call took the timer.                                             *)
THEOREM SleepsTimed == ReactorSpec => []SleepTimed
<1>1. ReactorInv => SleepTimed
  BY ReactorAssumption DEF ReactorInv, Locked, Armed, Timed, SleepTimed
<1> QED
  BY <1>1, ReactorInvariant, PTL
=============================================================================
