------------------------------- MODULE Reactor -------------------------------
(***************************************************************************)
(* The reactor (arandu_runtime/src/reactor_runtime) with the sockets it    *)
(* watches and the wakers it wakes: one reactor from its creation to its   *)
(* destruction, on each of its three readiness backends, called by several *)
(* threads.  Its wakes are the calls of module Waker.                      *)
(*                                                                         *)
(* Sockets are numbered in the order in which they are opened; which fd a  *)
(* new one gets is the kernel's choice.  A call with a bad argument, a     *)
(* stale id or on a closed reactor returns -1 and changes nothing.         *)
(***************************************************************************)
EXTENDS Waker

CONSTANTS
  Fds, Nobody,
  Filters,       \* the readiness bits, WAIT_READ and WAIT_WRITE
  Interests,     \* the sets of filters that registrations ask for
  MaxSockets,    \* bound on the sockets ever opened
  MaxBatch       \* MAX_EPOLL_EVENTS, MAX_KEVENTS

ASSUME ReactorAssumption ==
  /\ Nobody \notin Threads
  /\ Interests \subseteq (SUBSET Filters) \ {{}}
  /\ MaxSockets \in Nat /\ MaxBatch \in Nat \ {0}

VARIABLES
  backend,       \* what probe_backend found
  live,          \* the table of reactors still has this one
  closed, deadline, timer, sockets,   \* the ReactorSlot
  owner,         \* who holds the slot's lock across steps
  interest,      \* kernel: the armed (socket, filter) pairs of this reactor
  ready,         \* kernel: the (socket, filter) pairs that are ready
  file,          \* kernel: per fd, the open socket, 0 for none
  fd,            \* per socket ever opened: its fd
  published,     \* the sockets the table of TCP handles has
  at, call       \* per thread: where it is and what its call works on

slot    == <<closed, deadline, timer, sockets>>
kernel  == <<interest, ready, file, fd, published>>
rvars   == <<backend, live, slot, owner, kernel, at, call>>

(* Two fields are history: crossed, the socket a register named was closed  *)
(* under it, and robbed, another call took the timer a sleep had armed.     *)
NoCall == [key |-> 0, sock |-> 0, id |-> pack_waker(0, 0), events |-> {},
           forever |-> FALSE, sleep |-> FALSE, leases |-> {}, batch |-> {}, fired |-> FALSE,
           crossed |-> FALSE, robbed |-> FALSE]

ReactorInit ==
  /\ Init
  /\ backend \in {"epoll", "kqueue", "wsapoll"}
  /\ live = TRUE /\ closed = FALSE
  /\ deadline = "none" /\ timer = FALSE /\ sockets = <<>>
  /\ owner = Nobody
  /\ interest = {} /\ ready = {}
  /\ file = [f \in Fds |-> 0] /\ fd = <<>> /\ published = {}
  /\ at = [t \in Threads |-> "idle"]
  /\ call = [t \in Threads |-> NoCall]

(* A reactor call starts: get_reactor finds the reactor. *)
Begin(t, where, c) ==
  /\ at[t] = "idle" /\ pc[t] = "idle" /\ live
  /\ at' = [at EXCEPT ![t] = where]
  /\ call' = [call EXCEPT ![t] = c]
  /\ UNCHANGED <<backend, live, slot, owner, kernel, vars>>

Goto(t, where) == at' = [at EXCEPT ![t] = where] /\ UNCHANGED call
Return(t) == at' = [at EXCEPT ![t] = "idle"] /\ call' = [call EXCEPT ![t] = NoCall]

(* It has the lock of the slot. *)
Locks(t, where) == at[t] = where /\ owner = Nobody

----------------------------------------------------------------------------
(* Sockets and readiness *)

(* listen, accept or connect *)
Open(f) ==
  /\ file[f] = 0
  /\ Len(fd) < MaxSockets
  /\ fd' = Append(fd, f)
  /\ file' = [file EXCEPT ![f] = Len(fd) + 1]
  /\ published' = published \union {Len(fd) + 1}
  /\ UNCHANGED <<backend, live, slot, owner, interest, ready, at, call, vars>>

(* The last handle of the sockets gone goes: the kernel closes them and     *)
(* forgets what epoll or kqueue knew of them.                               *)
Release(gone) ==
  /\ file' = [f \in Fds |-> IF file[f] \in gone THEN 0 ELSE file[f]]
  /\ interest' = {e \in interest : e[1] \notin gone}
  /\ ready' = {e \in ready : e[1] \notin gone}
  /\ UNCHANGED fd

(* ar_rt_tcp_close; a lease of a poll on Windows keeps the socket open.     *)
Close(s) ==
  /\ s \in published
  /\ published' = published \ {s}
  /\ Release({s} \ UNION {call[t].leases : t \in Threads})
  /\ call' = [t \in Threads |-> [call[t] EXCEPT !.crossed = @ \/ call[t].sock = s]]
  /\ UNCHANGED <<backend, live, slot, owner, at, vars>>

(* The peer, the program's own reads and writes, and the clock. *)
Readiness(s, f) ==
  /\ file[fd[s]] = s
  /\ ready' = IF <<s, f>> \in ready THEN ready \ {<<s, f>>} ELSE ready \union {<<s, f>>}
  /\ UNCHANGED <<backend, live, slot, owner, interest, file, fd, published, at, call, vars>>

Tick ==
  /\ deadline = "set"
  /\ deadline' = "past"
  /\ UNCHANGED <<backend, live, closed, timer, sockets, owner, kernel, at, call, vars>>

----------------------------------------------------------------------------
(* ar_rt_reactor_register_socket: the fd is looked up first,                *)
FindSocket(t, s, w, events) ==
  /\ s \in published
  /\ Begin(t, "register",
           [NoCall EXCEPT !.key = IF backend = "wsapoll" THEN s ELSE fd[s],
                          !.sock = s, !.id = ids[w], !.events = events])

Put(f, k, x) == [i \in DOMAIN f \union {k} |-> IF i = k THEN x ELSE f[i]]

(* epoll_ctl or kevent with the fd: the kernel watches the socket that has  *)
(* it now, and refuses an fd that nobody has.                               *)
Watch(f, events) ==
  interest' = IF file[f] = 0 THEN interest
              ELSE {e \in interest : e[1] # file[f]} \union ({file[f]} \X events)

(* What register stores; wakes counts the wakes it has led to. *)
Registration(c) ==
  [id |-> c.id, sock |-> c.sock, crossed |-> c.crossed, wakes |-> 0,
   events |-> IF backend = "wsapoll" THEN c.events ELSE {},
   armed |-> backend = "wsapoll" \/ (backend = "kqueue" /\ file[c.key] # 0)]

(* Mutant: a registration the map already has for the fd is kept. *)
RegisterKeepsOld(t) ==
  /\ Locks(t, "register")
  /\ IF closed THEN UNCHANGED <<sockets, interest>>
     ELSE /\ sockets' = IF call[t].key \in DOMAIN sockets THEN sockets
                        ELSE Put(sockets, call[t].key, Registration(call[t]))
          /\ IF backend = "wsapoll" THEN UNCHANGED interest ELSE Watch(call[t].key, call[t].events)
  /\ Return(t)
  /\ UNCHANGED <<backend, live, closed, deadline, timer, owner, ready, file, fd, published, vars>>

(* and under the slot's lock the registration is stored and the kernel told. *)
Register(t) ==
  /\ Locks(t, "register")
  /\ IF closed THEN UNCHANGED <<sockets, interest>>
     ELSE /\ sockets' = Put(sockets, call[t].key, Registration(call[t]))
          /\ IF backend = "wsapoll" THEN UNCHANGED interest ELSE Watch(call[t].key, call[t].events)
  /\ Return(t)
  /\ UNCHANGED <<backend, live, closed, deadline, timer, owner, ready, file, fd, published, vars>>

----------------------------------------------------------------------------
(* Timers and sleep *)

(* t returns and has taken the timer; a sleep of another thread that has    *)
(* armed it loses it.                                                       *)
Robbed(t) ==
  [u \in Threads |-> IF u = t THEN NoCall
                     ELSE [call[u] EXCEPT !.robbed = call[u].sleep /\ at[u] # "arm"]]

(* Mutant: sleep polls although the timer could not be armed. *)
ArmTimerUnchecked(t) ==
  /\ Locks(t, "arm")
  /\ IF closed THEN Return(t) /\ UNCHANGED <<deadline, timer>>
     ELSE /\ deadline' = "set"
          /\ timer' \in IF backend = "wsapoll" THEN {FALSE} ELSE BOOLEAN
          /\ IF call[t].sleep
               THEN Goto(t, "armed")
               ELSE /\ at' = [at EXCEPT ![t] = "idle"]
                    /\ call' = IF timer' \/ backend = "wsapoll"
                                 THEN [call EXCEPT ![t] = NoCall] ELSE Robbed(t)
  /\ UNCHANGED <<backend, live, closed, sockets, owner, kernel, vars>>

(* arm_timer_ms under the lock: the old timer is gone, and the kernel may   *)
(* refuse the new one, which leaves the deadline alone.                     *)
ArmTimer(t) ==
  /\ Locks(t, "arm")
  /\ IF closed THEN Return(t) /\ UNCHANGED <<deadline, timer>>
     ELSE /\ deadline' = "set"
          /\ timer' \in IF backend = "wsapoll" THEN {FALSE} ELSE BOOLEAN
          /\ IF call[t].sleep /\ (timer' \/ backend = "wsapoll")
               THEN Goto(t, "armed")
               ELSE /\ at' = [at EXCEPT ![t] = "idle"]
                    /\ call' = IF timer' \/ backend = "wsapoll"
                                 THEN [call EXCEPT ![t] = NoCall] ELSE Robbed(t)
  /\ UNCHANGED <<backend, live, closed, sockets, owner, kernel, vars>>

(* sleep goes on to an unlimited poll, if the table still has the reactor.  *)
SleepPolls(t) ==
  /\ at[t] = "armed"
  /\ IF live THEN Goto(t, "poll") ELSE Return(t)
  /\ UNCHANGED <<backend, live, slot, owner, kernel, vars>>

(* sleep_ms_io_uring waits for its own completion under the lock.           *)
RingSleep(t) ==
  /\ Locks(t, "arm") /\ backend = "epoll" /\ call[t].sleep /\ ~closed
  /\ Return(t)
  /\ UNCHANGED <<backend, live, slot, owner, kernel, vars>>

----------------------------------------------------------------------------
(* ar_rt_reactor_poll_ms *)

(* On Windows a poll drops the registrations of closed sockets,             *)
Retained ==
  [k \in {k \in DOMAIN sockets : backend = "wsapoll" => k \in published} |-> sockets[k]]

(* and leases the armed ones into its wait; elsewhere the kernel knows.     *)
Leases == {k \in DOMAIN Retained : backend = "wsapoll" /\ sockets[k].armed}

(* Nothing to wait for in the kernel: a registration that has fired still   *)
(* counts with epoll and kqueue, and does not with WSAPoll.                 *)
Sourceless ==
  IF backend = "wsapoll" THEN Leases = {} ELSE ~timer /\ DOMAIN sockets = {}

(* The fallback on the deadline alone.  With epoll the remaining time is    *)
(* cut to milliseconds, so that even an unlimited poll can come back early. *)
PollDeadline(t) ==
  /\ Locks(t, "poll") /\ ~closed /\ Sourceless
  /\ at' = [at EXCEPT ![t] = "idle"]
  /\ \/ /\ deadline # "none" /\ deadline' = "none"
        /\ call' = Robbed(t)
     \/ /\ deadline = "none" \/ (deadline = "set" /\ (~call[t].forever \/ backend = "epoll"))
        /\ call' = [call EXCEPT ![t] = NoCall]
        /\ UNCHANGED deadline
  /\ sockets' = Retained
  /\ UNCHANGED <<backend, live, closed, timer, owner, kernel, vars>>

(* The wait in the kernel, with the lock held; kqueue notes a deadline that *)
(* is already past.                                                         *)
PollEnter(t) ==
  /\ Locks(t, "poll")
  /\ IF closed THEN Return(t) /\ UNCHANGED <<owner, sockets>>
     ELSE /\ ~Sourceless
          /\ owner' = t
          /\ at' = [at EXCEPT ![t] = "wait"]
          /\ call' = [call EXCEPT ![t].leases = Leases,
                                  ![t].fired = backend = "kqueue" /\ deadline = "past"]
          /\ sockets' = Retained
  /\ UNCHANGED <<backend, live, closed, deadline, timer, kernel, vars>>

(* The events the kernel has for t; <<0, "timer">> is the timer's.          *)
Events(t) ==
  CASE backend = "epoll"   -> {<<e[1], "any">> : e \in interest \intersect ready}
    [] backend = "kqueue"  -> interest \intersect ready
    [] backend = "wsapoll" -> {<<s, "any">> : s \in {s \in call[t].leases :
                                 \E f \in sockets[s].events : <<s, f>> \in ready}}
TimerEvents == {e \in {<<0, "timer">>} : timer /\ deadline = "past"}

(* As many events as there are and fit are taken, each disarmed: epoll's    *)
(* one-shot disarms the fd, kqueue's the filter.                            *)
Batches(events) ==
  {b \in SUBSET events : \/ b = events /\ (backend = "wsapoll" \/ Cardinality(b) <= MaxBatch)
                         \/ backend # "wsapoll" /\ Cardinality(b) = MaxBatch}

PollWait(t) ==
  /\ at[t] = "wait"
  /\ \E b \in Batches(Events(t) \union TimerEvents) :
       /\ \/ b # {} \/ ~call[t].forever \/ call[t].fired
          \/ backend = "wsapoll" /\ deadline = "past"
       /\ call' = [call EXCEPT ![t].batch = b \ TimerEvents,
                               ![t].fired = @ \/ <<0, "timer">> \in b]
       /\ interest' = CASE backend = "epoll"   -> {e \in interest : \A x \in b : x[1] # e[1]}
                         [] backend = "kqueue"  -> interest \ b
                         [] backend = "wsapoll" -> interest
  /\ at' = [at EXCEPT ![t] = "dispatch"]
  /\ UNCHANGED <<backend, live, slot, owner, ready, file, fd, published, vars>>

(* The wakes of registration k, up to two. *)
Woke(k) == [sockets EXCEPT ![k].wakes = IF @ < 2 THEN @ + 1 ELSE @]

(* Mutant: a registration that has fired is not remembered as disarmed. *)
PollDispatchAgain(t) ==
  /\ at[t] = "dispatch" /\ pc[t] = "idle"
  /\ \E e \in call[t].batch :
       LET k == IF backend = "wsapoll" THEN e[1] ELSE fd[e[1]]
       IN /\ call' = [call EXCEPT ![t].batch = @ \ {e}]
          /\ sockets' = Woke(k)
          /\ IF waker_state(sockets[k].id) # 0
               THEN Find(t, sockets[k].id, "wake", FALSE) ELSE UNCHANGED vars
  /\ UNCHANGED <<backend, live, closed, deadline, timer, owner, interest, ready, file, fd,
                 published, at>>

(* One event after the other wakes its waker, if that still exists; with    *)
(* kqueue and WSAPoll only if the registration is armed, and it no longer   *)
(* is, nor is its sibling filter.                                           *)
PollDispatch(t) ==
  /\ at[t] = "dispatch" /\ pc[t] = "idle"
  /\ \E e \in call[t].batch :
       LET k == IF backend = "wsapoll" THEN e[1] ELSE fd[e[1]]
           fires == backend = "epoll" \/ sockets[k].armed
       IN /\ call' = [call EXCEPT ![t].batch = @ \ {e}]
          /\ sockets' = IF fires THEN [Woke(k) EXCEPT ![k].armed = FALSE] ELSE sockets
          /\ interest' = IF fires /\ backend = "kqueue"
                           THEN {x \in interest : fd[x[1]] # k} ELSE interest
          /\ IF fires /\ waker_state(sockets[k].id) # 0
               THEN Find(t, sockets[k].id, "wake", FALSE) ELSE UNCHANGED vars
  /\ UNCHANGED <<backend, live, closed, deadline, timer, owner, ready, file, fd, published, at>>

(* The fired timer goes, and the lock and the leases with it; WSAPoll looks *)
(* at the clock only now.                                                   *)
PollReturn(t) ==
  /\ at[t] = "dispatch" /\ pc[t] = "idle" /\ call[t].batch = {}
  /\ at' = [at EXCEPT ![t] = "idle"]
  /\ IF call[t].fired \/ (backend = "wsapoll" /\ deadline = "past")
       THEN timer' = FALSE /\ deadline' = "none" /\ call' = Robbed(t)
       ELSE call' = [call EXCEPT ![t] = NoCall] /\ UNCHANGED <<timer, deadline>>
  /\ owner' = Nobody
  /\ Release(call[t].leases \ published)
  /\ UNCHANGED <<backend, live, closed, sockets, published, vars>>

----------------------------------------------------------------------------
(* ar_rt_reactor_destroy: the table forgets the reactor,                    *)
Unpublish(t) ==
  /\ at[t] = "idle" /\ pc[t] = "idle" /\ live
  /\ live' = FALSE
  /\ Goto(t, "destroy")
  /\ UNCHANGED <<backend, slot, owner, kernel, vars>>

(* and its slot is closed once no poll holds the lock.  What Linux leaves   *)
(* in a closed slot is never read.                                          *)
CloseSlot(t) ==
  /\ Locks(t, "destroy")
  /\ closed' = TRUE /\ timer' = FALSE /\ deadline' = "none" /\ sockets' = <<>>
  /\ interest' = {}
  /\ Return(t)
  /\ UNCHANGED <<backend, live, owner, ready, file, fd, published, vars>>

----------------------------------------------------------------------------
ReactorStep(t) ==
  \/ Register(t) \/ ArmTimer(t) \/ SleepPolls(t) \/ RingSleep(t)
  \/ PollDeadline(t) \/ PollEnter(t) \/ PollWait(t) \/ PollDispatch(t) \/ PollReturn(t)
  \/ CloseSlot(t)

ReactorCall(t) ==
  \/ \E s \in DOMAIN fd, w \in DOMAIN ids, ev \in Interests : FindSocket(t, s, w, ev)
  \/ \E sleep \in BOOLEAN : Begin(t, "arm", [NoCall EXCEPT !.sleep = sleep, !.forever = sleep])
  \/ \E forever \in BOOLEAN : Begin(t, "poll", [NoCall EXCEPT !.forever = forever])
  \/ Unpublish(t)

(* The rest of a wake or a wait, whoever called it. *)
WakerStep(t) == (SetFlag(t) \/ NotifyOne(t) \/ Check(t)) /\ UNCHANGED rvars

WakerCall(t) ==
  /\ at[t] = "idle" /\ ~closed
  /\ \E w \in DOMAIN ids :
       \/ Find(t, ids[w], "wake", FALSE)
       \/ \E timeout \in BOOLEAN : Find(t, ids[w], "enter", timeout)
  /\ UNCHANGED rvars

WakerTable == (Create \/ \E w \in DOMAIN ids : Destroy(ids[w])) /\ UNCHANGED rvars

(* The model is of the time until the reactor is closed: nothing starts     *)
(* after that, and the calls under way return.                              *)
ReactorNext ==
  \/ \E f \in Fds : ~closed /\ Open(f)
  \/ \E s \in DOMAIN fd : ~closed /\ Close(s)
  \/ \E s \in DOMAIN fd, f \in Filters : ~closed /\ Readiness(s, f)
  \/ Tick
  \/ ~closed /\ WakerTable
  \/ \E t \in Threads : ReactorCall(t) \/ ReactorStep(t) \/ WakerCall(t) \/ WakerStep(t)

ReactorSpec == ReactorInit /\ [][ReactorNext]_<<vars, rvars>>

----------------------------------------------------------------------------
(* "a reused fd number never inherits a registration": what the kernel     *)
(* watches is the socket that its registration was made for, through closes *)
(* and reuse of the fd.  The exception: on Unix a socket that is closed     *)
(* between register's look at its fd and the lock, when the fd may already  *)
(* be another socket's.                                                     *)
RegistrationsReachTheirOwn ==
  \A e \in interest : LET r == sockets[fd[e[1]]] IN r.sock = e[1] \/ r.crossed

(* "exactly one wake per registration": neither a second filter of the same *)
(* socket in the batch, nor in a later one, nor a poll of another thread    *)
(* wakes again before the socket is registered again.                       *)
OneWakePerRegistration == \A k \in DOMAIN sockets : sockets[k].wakes <= 1

(* "Sleeps for `ms` milliseconds using the reactor": a sleep that waits in  *)
(* the kernel has a timer to end it, unless another call on this reactor    *)
(* took the timer between the sleep's arm and its poll.                     *)
SleepTimed ==
  \A t \in Threads :
    at[t] = "wait" /\ call[t].sleep =>
      \/ IF backend = "wsapoll" THEN deadline # "none" ELSE timer
      \/ call[t].robbed
=============================================================================
