------------------------------- MODULE Daemon -------------------------------
(***************************************************************************)
(* The build daemon of arandu_cli (daemon/server.rs) and the clients that  *)
(* reach it (daemon/mod.rs): the project lock and the socket, the accept   *)
(* loop, one thread per connection and the builder thread, which joins     *)
(* waiting requests for the same build and gives a build up when a newer   *)
(* request for it arrives.                                                 *)
(*                                                                         *)
(* A request is a key, the directory and arguments of a build, and an      *)
(* identity, the toolchain of its client; key Shutdown asks the daemon to  *)
(* stop.  Sources are edited before every request, so a build answers a    *)
(* request with what the client sees if it read its inputs after the       *)
(* request began: `covers` has the requests for which it did.  Daemons are *)
(* process slots; a daemon may die at any moment, and its lock with it.    *)
(***************************************************************************)
EXTENDS Naturals, Sequences, FiniteSets, Functions

CONSTANTS
  Clients, Daemons, Keys, Ids, None,
  Shutdown,        \* the key of a shutdown request
  Asks,            \* per client: the requests it may make
  Impatient,       \* the clients that may go away while they wait
  MaxConnections,  \* MAX_CONNECTIONS
  MaxSuperseded    \* MAX_SUPERSEDED

ASSUME DaemonAssumption ==
  /\ IsFiniteSet(Clients) /\ IsFiniteSet(Daemons) /\ None \notin Daemons
  /\ Shutdown \notin Keys
  /\ Asks \in [Clients -> SUBSET [key: Keys \union {Shutdown}, id: Ids]]
  /\ Impatient \subseteq Clients
  /\ MaxConnections \in Nat \ {0} /\ MaxSuperseded \in Nat

VARIABLES
  lock,     \* the daemon that has the project's daemon lock
  socket,   \* the daemon whose socket is at the project's path
  daemon,   \* per slot: where the main thread is, identity, stop flag, backlog
  builder,  \* per slot: the builder thread, its queue and its signal
  client,   \* per client: where it is, its request and its attempt
  conn      \* per client: its connection and the thread that serves it

vars == <<lock, socket, daemon, builder, client, conn>>

Dead    == [pc |-> "dead", id |-> None, stopping |-> FALSE, backlog |-> <<>>]
(* The builder's jobs: in the channel; taken, as `order`, the distinct     *)
(* requests in the order each first arrived, and the jobs for them; and    *)
(* the group it builds, whose request is `running`.  Jobs of one group get *)
(* one reply, so a group is a set.                                         *)
Resting == [pc |-> "recv", queue |-> <<>>, order |-> <<>>, jobs |-> {}, group |-> {},
            streak |-> 0, running |-> None, supersede |-> FALSE, covers |-> {}]
Closed  == [pc |-> "none", d |-> None, reply |-> None, fresh |-> TRUE]
Free    == [pc |-> "idle", req |-> None, attempt |-> 0]

Init ==
  /\ lock = None /\ socket = None
  /\ daemon = [d \in Daemons |-> Dead]
  /\ builder = [d \in Daemons |-> Resting]
  /\ client = [c \in Clients |-> Free]
  /\ conn = [c \in Clients |-> Closed]

Key(c) == client[c].req.key
Id(c)  == client[c].req.id

(* The connections a daemon counts: accepted, and their thread not done. *)
Serving == {"accepted", "matched", "send", "waiting"}
Connections(d) == {c \in Clients : conn[c].d = d /\ conn[c].pc \in Serving}

Listening(d) == daemon[d].pc \in {"check", "accept", "closing"}
Reachable    == socket # None /\ Listening(socket)

----------------------------------------------------------------------------
(* The client: client::build and client::stop.                             *)

Begin(c) ==
  /\ client[c].pc = "idle"
  /\ \E r \in Asks[c] :
       client' = [client EXCEPT ![c] = [pc |-> "connect", req |-> r, attempt |-> 1]]
  /\ builder' = [d \in Daemons |-> [builder[d] EXCEPT !.covers = @ \ {c}]]
  /\ UNCHANGED <<lock, socket, daemon, conn>>

(* UnixStream::connect: the connection waits in the listener's backlog. *)
Connected(c) ==
  /\ Reachable
  /\ daemon' = [daemon EXCEPT ![socket].backlog = Append(@, c)]
  /\ conn' = [conn EXCEPT ![c] = [Closed EXCEPT !.pc = "backlog", !.d = socket]]
  /\ client' = [client EXCEPT ![c].pc = "exchange"]
  /\ UNCHANGED <<lock, socket, builder>>

GiveUp(c) == client' = [client EXCEPT ![c] = Free]

(* connect_or_spawn: a process is started when nobody listens; stop ends.  *)
Connect(c) ==
  /\ client[c].pc = "connect"
  /\ \/ Connected(c)
     \/ /\ ~Reachable /\ Key(c) = Shutdown
        /\ GiveUp(c) /\ UNCHANGED <<lock, socket, daemon, builder, conn>>
     \/ /\ ~Reachable /\ Key(c) # Shutdown
        /\ \E d \in Daemons : daemon[d] = Dead
        /\ LET d == CHOOSE d \in Daemons : daemon[d] = Dead IN
             daemon' = [daemon EXCEPT ![d] = [Dead EXCEPT !.pc = "locking", !.id = Id(c)]]
        /\ client' = [client EXCEPT ![c].pc = "spawned"]
        /\ UNCHANGED <<lock, socket, builder, conn>>

(* The processes that already started are enough slots: a client that      *)
(* finds none free has the spawn fail, and waits no longer.                *)
SpawnFails(c) ==
  /\ client[c].pc = "connect" /\ ~Reachable /\ Key(c) # Shutdown
  /\ \A d \in Daemons : daemon[d] # Dead
  /\ GiveUp(c) /\ UNCHANGED <<lock, socket, daemon, builder, conn>>

SpawnWait(c) ==
  /\ client[c].pc = "spawned"
  /\ \/ Connected(c)
     \/ GiveUp(c) /\ UNCHANGED <<lock, socket, daemon, builder, conn>>   \* SPAWN_WAIT

(* exchange, which reads a response as the daemon writes it: Mismatch      *)
(* starts the second attempt, whenever the wait for the old socket to go   *)
(* ends; a build that is done ends the request, and everything else does   *)
(* so with a batch build.                                                  *)
Read(c, response) ==
  IF response = "mismatch" /\ client[c].attempt = 1
    THEN [client[c] EXCEPT !.pc = "connect", !.attempt = 2]
    ELSE Free

(* The threads of the connections in cs write a response and end. *)
Respond(cs, response) ==
  /\ client' = [c \in Clients |-> IF c \in cs THEN Read(c, response) ELSE client[c]]
  /\ conn' = [c \in Clients |-> IF c \in cs THEN Closed ELSE conn[c]]

(* The client's process ends, or SILENCE passes on a stalled machine; the  *)
(* next heartbeat fails and ends the connection.  The request was written  *)
(* when the client connected: before the thread waits it cannot tell.      *)
Abandon(c) ==
  /\ c \in Impatient
  /\ conn[c].pc = "waiting"
  /\ client' = [client EXCEPT ![c].pc = "gone"]
  /\ conn' = [conn EXCEPT ![c] = Closed]
  /\ UNCHANGED <<lock, socket, daemon, builder>>

(* The slot is another process's once nobody refers to the abandoned job:  *)
(* its reply goes nowhere, so among other jobs of its group it is dropped. *)
Matters(c, jobs) == c \in jobs /\ \A e \in jobs \ {c} : Key(e) # Key(c)

Forgotten(c) ==
  /\ client[c].pc = "gone"
  /\ \A d \in Daemons : LET b == builder[d] IN
       c \notin Range(b.queue) /\ ~Matters(c, b.jobs) /\ ~Matters(c, b.group)
  /\ builder' = [d \in Daemons |->
       [builder[d] EXCEPT !.jobs = @ \ {c}, !.group = @ \ {c}]]
  /\ GiveUp(c)
  /\ UNCHANGED <<lock, socket, daemon, conn>>

ClientStep(c) ==
  Connect(c) \/ SpawnFails(c) \/ SpawnWait(c) \/ Forgotten(c)

----------------------------------------------------------------------------
(* The daemon's main thread: serve.                                        *)

Main(d, from, to) ==
  /\ daemon[d].pc = from
  /\ daemon' = [daemon EXCEPT ![d].pc = to]

(* Shared::stop *)
Stopped(d) == [daemon EXCEPT ![d].stopping = TRUE]

(* The lock proves that nobody listens on a leftover socket: it goes, the  *)
(* new one is bound and the builder starts.                                *)
Lock(d) ==
  /\ lock = None
  /\ Main(d, "locking", "check")
  /\ lock' = d
  /\ socket' = d
  /\ builder' = [builder EXCEPT ![d] = Resting]
  /\ UNCHANGED <<client, conn>>

(* Five seconds of a live daemon's lock. *)
LockTimeout(d) ==
  /\ daemon[d].pc = "locking" /\ lock # None
  /\ daemon' = [daemon EXCEPT ![d] = Dead]
  /\ UNCHANGED <<lock, socket, builder, client, conn>>

CheckStop(d) ==
  /\ Main(d, "check", IF daemon[d].stopping THEN "closing" ELSE "accept")
  /\ UNCHANGED <<lock, socket, builder, client, conn>>

(* accept: beyond MAX_CONNECTIONS the stream is dropped at once. *)
Accept(d) ==
  /\ daemon[d].pc = "accept" /\ daemon[d].backlog # <<>>
  /\ LET c == Head(daemon[d].backlog) IN
       IF Cardinality(Connections(d)) >= MaxConnections
         THEN Respond({c}, "eof")
         ELSE conn' = [conn EXCEPT ![c].pc = "accepted"] /\ UNCHANGED client
  /\ daemon' = [daemon EXCEPT ![d].pc = "check", ![d].backlog = Tail(@)]
  /\ UNCHANGED <<lock, socket, builder>>

(* WouldBlock: the idle time has passed with no connection, or a wait for  *)
(* a client or for the byte that stop writes.                              *)
Wait(d) ==
  /\ daemon[d].backlog = <<>>
  /\ \/ Connections(d) = {} /\ Main(d, "accept", "closing")
     \/ daemon[d].stopping /\ Main(d, "accept", "check")
  /\ UNCHANGED <<lock, socket, builder, client, conn>>

(* Mutant: the lock goes with the listener, before the builds answered. *)
CloseUnlocks(d) ==
  /\ daemon[d].pc = "closing"
  /\ socket' = None /\ lock' = None
  /\ daemon' = [daemon EXCEPT ![d] = [@ EXCEPT !.pc = "draining", !.stopping = TRUE,
                                               !.backlog = <<>>]]
  /\ Respond(Range(daemon[d].backlog), "eof")
  /\ UNCHANGED builder

(* The end of serve: the socket is unlinked if it is still this daemon's,  *)
(* the listener dropped with its backlog, and the flag raised.             *)
Close(d) ==
  /\ daemon[d].pc = "closing"
  /\ socket' = IF socket = d THEN None ELSE socket
  /\ daemon' = [daemon EXCEPT ![d] = [@ EXCEPT !.pc = "draining", !.stopping = TRUE,
                                               !.backlog = <<>>]]
  /\ Respond(Range(daemon[d].backlog), "eof")
  /\ UNCHANGED <<lock, builder>>

(* The open connections end, and then main drops its sender of jobs. *)
Drain(d) ==
  /\ Connections(d) = {}
  /\ Main(d, "draining", "joining")
  /\ UNCHANGED <<lock, socket, builder, client, conn>>

Exit(d) ==
  /\ daemon[d].pc = "joining" /\ builder[d].pc = "exited"
  /\ lock' = None
  /\ daemon' = [daemon EXCEPT ![d] = Dead]
  /\ builder' = [builder EXCEPT ![d] = Resting]
  /\ UNCHANGED <<socket, client, conn>>

(* The process dies: the system closes its descriptors and drops the lock. *)
Crash(d) ==
  /\ daemon[d] # Dead
  /\ lock' = IF lock = d THEN None ELSE lock
  /\ daemon' = [daemon EXCEPT ![d] = Dead]
  /\ builder' = [builder EXCEPT ![d] = Resting]
  /\ Respond({c \in Clients : conn[c].d = d}, "eof")
  /\ UNCHANGED socket

MainStep(d) ==
  \/ Lock(d) \/ LockTimeout(d) \/ CheckStop(d) \/ Accept(d)
  \/ Wait(d) \/ Close(d) \/ Drain(d) \/ Exit(d)

----------------------------------------------------------------------------
(* A connection's thread: serve_connection.                                *)

Conn(c, from, to) ==
  /\ conn[c].pc = from
  /\ conn' = [conn EXCEPT ![c].pc = to]

(* The request is read.  A shutdown of this identity, or a build of        *)
(* another one, stops the daemon; a build is compared with the running one.*)
ReadRequest(c) ==
  LET d    == conn[c].d
      same == Id(c) = daemon[d].id
  IN /\ conn[c].pc = "accepted"
     /\ daemon' = IF same = (Key(c) = Shutdown) THEN Stopped(d) ELSE daemon
     /\ IF Key(c) = Shutdown THEN Respond({c}, "eof")
        ELSE IF ~same THEN Respond({c}, "mismatch")
        ELSE /\ conn' = [conn EXCEPT ![c].pc = IF builder[d].running = Key(c)
                                                 THEN "matched" ELSE "send"]
             /\ UNCHANGED client
     /\ UNCHANGED <<lock, socket, builder>>

(* supersede.store(true), after the lock on `running` was released. *)
Supersede(c) ==
  /\ Conn(c, "matched", "send")
  /\ builder' = [builder EXCEPT ![conn[c].d].supersede = TRUE]
  /\ UNCHANGED <<lock, socket, daemon, client>>

SendJob(c) ==
  /\ Conn(c, "send", "waiting")
  /\ builder' = [builder EXCEPT ![conn[c].d].queue = Append(@, c)]
  /\ UNCHANGED <<lock, socket, daemon, client>>

Await(c) ==
  /\ conn[c].pc = "waiting" /\ conn[c].reply # None
  /\ Respond({c}, conn[c].reply)
  /\ UNCHANGED <<lock, socket, daemon, builder>>

ConnStep(c) == ReadRequest(c) \/ Supersede(c) \/ SendJob(c) \/ Await(c)

----------------------------------------------------------------------------
(* The builder thread: build_loop.                                         *)

(* coalesce: the requests of the jobs in qs, each after the ones known. *)
Coalesce(known, qs) ==
  LET seen[n \in 0 .. Len(qs)] ==
        IF n = 0 THEN known
        ELSE IF Key(qs[n]) \in Range(seen[n - 1]) THEN seen[n - 1]
        ELSE Append(seen[n - 1], Key(qs[n]))
  IN seen[Len(qs)]

Builder(d, from, new) ==
  /\ builder[d].pc = from
  /\ builder' = [builder EXCEPT ![d] = new]

(* Mutant: the builder leaves when the daemon stops, whoever has a sender. *)
TakeUntilStopped(d) ==
  LET b == builder[d]
      idle == b.jobs = {} /\ b.queue = <<>>
  IN /\ Listening(d) \/ daemon[d].pc \in {"draining", "joining"}
     /\ \/ /\ ~idle
           /\ Builder(d, "recv", [b EXCEPT !.pc = "next", !.queue = <<>>,
                                           !.jobs = @ \union Range(b.queue),
                                           !.order = Coalesce(@, b.queue)])
        \/ /\ idle /\ daemon[d].stopping
           /\ Builder(d, "recv", [b EXCEPT !.pc = "exited"])
     /\ UNCHANGED <<lock, socket, daemon, client, conn>>

(* recv blocks until there is a job, or there is no sender left: main has   *)
(* one until it joins the builder, and a connection's thread a clone until  *)
(* it ends.                                                                 *)
Take(d) ==
  LET b == builder[d]
      idle == b.jobs = {} /\ b.queue = <<>>
      senders == daemon[d].pc # "joining" \/ Connections(d) # {}
  IN /\ Listening(d) \/ daemon[d].pc \in {"draining", "joining"}
     /\ \/ /\ ~idle
           /\ Builder(d, "recv", [b EXCEPT !.pc = "next", !.queue = <<>>,
                                           !.jobs = @ \union Range(b.queue),
                                           !.order = Coalesce(@, b.queue)])
        \/ /\ idle /\ ~senders
           /\ Builder(d, "recv", [b EXCEPT !.pc = "exited"])
     /\ UNCHANGED <<lock, socket, daemon, client, conn>>

(* The next group, and build up to the start of the run. *)
Start(d) ==
  LET b == builder[d]
      request == Head(b.order)
      group == {c \in b.jobs : Key(c) = request}
  IN /\ Builder(d, "next",
          IF b.order = <<>> THEN [b EXCEPT !.pc = "recv"]
          ELSE [b EXCEPT !.pc = "run", !.order = Tail(@), !.jobs = @ \ group,
                         !.group = group, !.supersede = FALSE, !.running = request])
     /\ UNCHANGED <<lock, socket, daemon, client, conn>>

(* BuildSession::refresh reads the inputs; the analysis follows, then code *)
(* generation, with a checkpoint after each.                               *)
Refresh(d) ==
  LET b == builder[d] IN
  /\ Builder(d, "run", [b EXCEPT !.pc = "compiling",
                                 !.covers = {c \in Clients : client[c].pc # "idle"}])
  /\ UNCHANGED <<lock, socket, daemon, client, conn>>

Cancellable(d) == builder[d].streak < MaxSuperseded

(* Mutant: superseded builds are not counted. *)
GivenUpUncounted(d) ==
  LET b == builder[d] IN
  /\ b.pc = "compiling" /\ b.supersede
  /\ builder' = [builder EXCEPT ![d] =
       [b EXCEPT !.pc = "recv", !.running = None, !.covers = {}, !.group = {},
                 !.jobs = @ \union b.group, !.order = <<b.running>> \o @]]
  /\ UNCHANGED <<lock, socket, daemon, client, conn>>

(* A checkpoint saw the signal: the group goes back to the front. *)
GivenUp(d) ==
  LET b == builder[d] IN
  /\ b.pc = "compiling"
  /\ Cancellable(d) /\ b.supersede
  /\ builder' = [builder EXCEPT ![d] =
       [b EXCEPT !.pc = "recv", !.streak = @ + 1, !.running = None, !.covers = {},
                 !.group = {}, !.jobs = @ \union b.group, !.order = <<b.running>> \o @]]
  /\ UNCHANGED <<lock, socket, daemon, client, conn>>

(* The end of a build: every job of the group gets the reply.  A build may *)
(* end before its first checkpoint (up to date, an error), be one that the *)
(* daemon does not run, or panic, which stops the daemon; so does a        *)
(* process that has grown too large.                                       *)
Ends(b) ==
  CASE b.pc = "run"       -> {"unsupported", "panicked"}
    [] b.pc = "compiling" -> {"built", "panicked"}

(* Mutant: the reply also goes to the requests that came during the build. *)
FinishLate(d) ==
  LET b == builder[d] IN
  /\ b.pc \in {"run", "compiling"}
  /\ \E reply \in Ends(b) :
       conn' = [c \in Clients |->
            IF /\ conn[c].d = d /\ conn[c].pc = "waiting"
               /\ c \in b.group \/ (c \in Range(b.queue) /\ Key(c) = b.running)
              THEN [conn[c] EXCEPT !.reply = reply,
                      !.fresh = reply = "built" => c \in b.covers /\ Id(c) = daemon[d].id]
              ELSE conn[c]]
  /\ builder' = [builder EXCEPT ![d] =
       [b EXCEPT !.pc = "next", !.streak = 0, !.running = None, !.group = {}, !.covers = {},
                 !.queue = SelectSeq(b.queue, LAMBDA c : Key(c) # b.running)]]
  /\ UNCHANGED <<lock, socket, daemon, client>>

Finish(d) ==
  LET b == builder[d] IN
  /\ b.pc \in {"run", "compiling"}
  /\ \E reply \in Ends(b) :
       /\ conn' = [c \in Clients |->
            IF c \in b.group /\ conn[c].d = d /\ conn[c].pc = "waiting"
              THEN [conn[c] EXCEPT !.reply = reply,
                      !.fresh = reply = "built" => c \in b.covers /\ Id(c) = daemon[d].id]
              ELSE conn[c]]
       /\ \/ reply # "panicked" /\ UNCHANGED daemon
          \/ daemon' = Stopped(d)
  /\ builder' = [builder EXCEPT ![d] = [b EXCEPT !.pc = "next", !.streak = 0,
                                         !.running = None, !.group = {}, !.covers = {}]]
  /\ UNCHANGED <<lock, socket, client>>

BuilderStep(d) ==
  Take(d) \/ Start(d) \/ Refresh(d) \/ GivenUp(d) \/ Finish(d)

----------------------------------------------------------------------------
Next ==
  \/ \E c \in Clients : Begin(c) \/ ClientStep(c) \/ Abandon(c) \/ ConnStep(c)
  \/ \E d \in Daemons : MainStep(d) \/ BuilderStep(d) \/ Crash(d)

Spec == Init /\ [][Next]_vars

(* Threads run and deadlines pass; a client and the thread that serves it  *)
(* take turns.  A client need not ask, and nothing has to die.             *)
Fairness ==
  /\ \A c \in Clients : WF_vars(ClientStep(c) \/ ConnStep(c))
  /\ \A d \in Daemons : WF_vars(MainStep(d)) /\ WF_vars(BuilderStep(d))

FairSpec == Spec /\ Fairness

----------------------------------------------------------------------------
(* A client that is told its build is done got it from a daemon of its own *)
(* toolchain that read the sources after the client asked, although builds *)
(* are shared, given up and started again, and requests arrive during them.*)
FreshAnswer == \A c \in Clients : conn[c].fresh

(* serve_connection's two ways to lose a job, a queue without a receiver   *)
(* and a reply sender dropped unused, do not happen in a live process: the *)
(* builder is there as long as a connection is.                            *)
BuilderOutlivesJobs ==
  \A c \in Clients : conn[c].pc \in Serving => builder[conn[c].d].pc # "exited"

(* The project has one daemon that builds: a successor, which waits for    *)
(* the lock, neither runs a build nor owns the socket while the one before *)
(* it drains.                                                              *)
OneBuilder ==
  \A d \in Daemons : Listening(d) \/ builder[d] # Resting => lock = d

(* Every request ends, with the daemon's answer or in a batch build: no    *)
(* stream of newer requests starves it, and no stop, crash or successor    *)
(* leaves it waiting.                                                      *)
RequestsEnd == \A c \in Clients : client[c].pc # "idle" ~> client[c].pc = "idle"

=============================================================================
