----------------------------- MODULE DaemonProofs -----------------------------
(***************************************************************************)
(* Proofs about Daemon for any finite sets of clients and daemon processes,*)
(* any requests and any limits: one daemon builds, it outlives its jobs,   *)
(* and what it answers was built from inputs read after the request.       *)
(***************************************************************************)
EXTENDS Daemon, TLAPS

Live == {"check", "accept", "closing", "draining", "joining"}

Requests == UNION {Asks[c] : c \in Clients}

(* Nothing is said of the order of the requests, on which no safety         *)
(* property depends.                                                        *)
IsBuilder(b) ==
  /\ DOMAIN b = {"pc", "queue", "order", "jobs", "group", "streak", "running",
                 "supersede", "covers"}
  /\ b.pc \in {"recv", "next", "run", "compiling", "exited"}
  /\ b.queue \in Seq(Clients) /\ b.streak \in Nat
  /\ b.jobs \subseteq Clients /\ b.group \subseteq Clients /\ b.covers \subseteq Clients

DaemonType == [pc : Live \union {"dead", "locking"}, id : Ids \union {None},
               stopping : BOOLEAN, backlog : Seq(Clients)]
ClientType == [pc : {"idle"}, req : {None}, attempt : {0}]
              \union [pc : {"connect", "spawned", "exchange", "gone"},
                      req : Requests, attempt : 1 .. 2]
ConnType   == [pc : Serving \union {"none", "backlog"}, d : Daemons \union {None},
               reply : {None, "built", "unsupported", "panicked"},
               fresh : BOOLEAN]

(* The state of the processes and of their connections. *)
TypeOK ==
  /\ lock \in Daemons \union {None} /\ socket \in Daemons \union {None}
  /\ daemon \in [Daemons -> DaemonType]
  /\ builder = [d \in Daemons |-> builder[d]]
  /\ \A d \in Daemons : IsBuilder(builder[d])
  /\ client \in [Clients -> ClientType]
  /\ conn \in [Clients -> ConnType]

(* The lock is the live daemon's, and the builder runs inside its life. *)
Owner ==
  \A d \in Daemons :
    /\ daemon[d].pc \in Live <=> lock = d
    /\ daemon[d].pc \notin Live => builder[d] = Resting
    /\ builder[d].pc = "exited" => daemon[d].pc = "joining"

(* A connection's client waits for it, and its daemon serves until it ends. *)
Lines ==
  \A c \in Clients :
    /\ conn[c].pc = "none" => conn[c] = Closed
    /\ conn[c].pc # "waiting" => conn[c].reply = None
    /\ conn[c].pc # "none" => client[c].pc = "exchange" /\ conn[c].d \in Daemons
    /\ conn[c].pc \in Serving => daemon[conn[c].d].pc \in Live \ {"joining"}
    /\ conn[c].pc \in Serving \ {"accepted"} => Id(c) = daemon[conn[c].d].id

Distinct(q) == \A i, j \in DOMAIN q : q[i] = q[j] => i = j

Backlogs ==
  \A d \in Daemons :
    /\ Distinct(daemon[d].backlog)
    /\ \A c \in Range(daemon[d].backlog) : conn[c].pc = "backlog" /\ conn[c].d = d

(* Where a job is, it is once, and its client waits for the reply or left. *)
Unanswered(c, d) ==
  \/ client[c].pc = "gone"
  \/ conn[c].pc = "waiting" /\ conn[c].d = d /\ conn[c].reply = None

Held ==
  \A d \in Daemons :
    /\ \A c \in Range(builder[d].queue) : Unanswered(c, d) /\ c \notin builder[d].jobs
                                           /\ c \notin builder[d].group
    /\ \A c \in builder[d].jobs : Unanswered(c, d) /\ c \notin builder[d].group
    /\ \A c \in builder[d].group : Unanswered(c, d)

(* The inputs were read after every job of the group was sent. *)
Covered ==
  \A d \in Daemons : builder[d].pc = "compiling" => builder[d].group \subseteq builder[d].covers

Inv == TypeOK /\ Owner /\ Lines /\ Backlogs /\ Held /\ Covered /\ FreshAnswer

----------------------------------------------------------------------------
LEMMA Constants ==
  /\ None \notin Daemons
  /\ Asks \in [Clients -> SUBSET [key : Keys \union {Shutdown}, id : Ids]]
BY DaemonAssumption

LEMMA RangeOfQueue ==
  ASSUME NEW q \in Seq(Clients)
  PROVE  Range(q) \subseteq Clients
BY DEF Range

LEMMA DeadTyped == Dead \in DaemonType
BY DEF DaemonType, Dead

LEMMA RestingTyped == IsBuilder(Resting)
BY DEF IsBuilder, Resting

LEMMA InitInv == Init => Inv
<1> SUFFICES ASSUME Init PROVE Inv
  OBVIOUS
<1>1. TypeOK
  <2>1. builder = [d \in Daemons |-> builder[d]] /\ \A d \in Daemons : IsBuilder(builder[d])
    BY RestingTyped DEF Init
  <2> QED
    BY <2>1 DEF Init, TypeOK, Dead, Free, Closed, Live, Serving, DaemonType, ClientType,
                ConnType
<1>2. Owner
  BY Constants DEF Init, Owner, Dead, Resting, Live
<1>3. Lines
  BY DEF Init, Lines, Closed, Serving
<1>4. Backlogs
  BY DEF Init, Backlogs, Dead, Distinct, Range
<1>5. Held
  BY DEF Init, Held, Resting, Range
<1>6. Covered
  BY DEF Init, Covered, Resting
<1>7. FreshAnswer
  BY DEF Init, FreshAnswer, Closed
<1> QED
  BY <1>1, <1>2, <1>3, <1>4, <1>5, <1>6, <1>7 DEF Inv

----------------------------------------------------------------------------
(* The builder thread's own steps: a new state of one builder whose jobs    *)
(* are still unanswered and each in one place.                              *)

JobsHeld(b, d) ==
  /\ \A c \in Range(b.queue) : Unanswered(c, d) /\ c \notin b.jobs /\ c \notin b.group
  /\ \A c \in b.jobs : Unanswered(c, d) /\ c \notin b.group
  /\ \A c \in b.group : Unanswered(c, d)

LEMMA BuilderMoves ==
  ASSUME Inv, NEW d \in Daemons, NEW b, IsBuilder(b),
         builder' = [builder EXCEPT ![d] = b],
         UNCHANGED <<lock, socket, daemon, client, conn>>,
         daemon[d].pc \in Live, b.pc = "exited" => daemon[d].pc = "joining",
         JobsHeld(b, d), b.pc = "compiling" => b.group \subseteq b.covers
  PROVE  Inv'
<1>1. TypeOK /\ Owner /\ Lines /\ Backlogs /\ Held /\ Covered /\ FreshAnswer
  BY DEF Inv
<1>2. /\ builder'[d] = b
      /\ \A e \in Daemons : e # d => builder'[e] = builder[e]
      /\ builder' = [e \in Daemons |-> builder'[e]]
  BY <1>1 DEF TypeOK
<1>3. TypeOK'
  BY <1>1, <1>2 DEF TypeOK, IsBuilder
<1>4. Owner'
  BY <1>1, <1>2 DEF Owner
<1>5. Lines' /\ Backlogs' /\ FreshAnswer'
  BY <1>1 DEF Lines, Backlogs, FreshAnswer, Id
<1>6. Held'
  BY <1>1, <1>2 DEF Held, JobsHeld, Unanswered
<1>7. Covered'
  BY <1>1, <1>2 DEF Covered
<1> QED
  BY <1>3, <1>4, <1>5, <1>6, <1>7 DEF Inv

(* A builder that is not at rest belongs to a live daemon. *)
LEMMA BuilderLives ==
  ASSUME Inv, NEW d \in Daemons, builder[d].pc # "recv"
  PROVE  daemon[d].pc \in Live
BY DEF Inv, Owner, Resting

LEMMA JobsOf ==
  ASSUME Inv, NEW d \in Daemons
  PROVE  JobsHeld(builder[d], d) /\ IsBuilder(builder[d])
BY DEF Inv, TypeOK, Held, JobsHeld

(* A builder at rest stays so when a client begins anew or is forgotten. *)
LEMMA RestingStays ==
  ASSUME NEW c
  PROVE  /\ [Resting EXCEPT !.covers = @ \ {c}] = Resting
         /\ [Resting EXCEPT !.jobs = @ \ {c}, !.group = @ \ {c}] = Resting
<1>1. /\ Resting.covers \ {c} = Resting.covers
      /\ Resting.jobs \ {c} = Resting.jobs /\ Resting.group \ {c} = Resting.group
  BY DEF Resting
<1>2. [Resting EXCEPT !.covers = Resting.covers] = Resting
  BY Zenon DEF Resting
<1>3. [Resting EXCEPT !.jobs = Resting.jobs, !.group = Resting.group] = Resting
  BY Zenon DEF Resting
<1> QED
  BY <1>1, <1>2, <1>3, Zenon

LEMMA TakeInv ==
  ASSUME Inv, NEW d \in Daemons, Take(d)
  PROVE  Inv'
<1> DEFINE b == builder[d]
           order == Coalesce(b.order, b.queue)
           n == [b EXCEPT !.pc = "next", !.queue = <<>>, !.jobs = @ \union Range(b.queue),
                          !.order = order]
           x == [b EXCEPT !.pc = "exited"]
<1>1. /\ IsBuilder(b) /\ JobsHeld(b, d)
      /\ daemon[d].pc \in Live
      /\ UNCHANGED <<lock, socket, daemon, client, conn>>
  BY JobsOf DEF Take, Listening, Live
<1>2. CASE builder' = [builder EXCEPT ![d] = n]
  <2> HIDE DEF order
  <2>1. /\ n.pc = "next" /\ n.queue = <<>> /\ n.jobs = b.jobs \union Range(b.queue)
        /\ n.group = b.group
    BY <1>1 DEF IsBuilder
  <2>2. b.jobs \union Range(b.queue) \in SUBSET Clients
    BY <1>1 DEF IsBuilder, Range
  <2>3. IsBuilder(n)
    BY <1>1, <2>2 DEF IsBuilder
  <2>4. JobsHeld(n, d)
    BY <1>1, <2>1 DEF JobsHeld, Range
  <2> HIDE DEF n
  <2> QED
    BY <1>1, <1>2, <2>1, <2>3, <2>4, BuilderMoves, Zenon
<1>3. CASE daemon[d].pc = "joining" /\ builder' = [builder EXCEPT ![d] = x]
  <2>1. x.pc = "exited" /\ x.queue = b.queue /\ x.jobs = b.jobs /\ x.group = b.group
    BY <1>1 DEF IsBuilder
  <2>2. IsBuilder(x)
    BY <1>1 DEF IsBuilder
  <2>3. JobsHeld(x, d)
    BY <1>1, <2>1 DEF JobsHeld
  <2> HIDE DEF x
  <2> QED
    BY <1>1, <1>3, <2>1, <2>2, <2>3, BuilderMoves, Zenon
<1> QED
  BY <1>2, <1>3, Zenon DEF Take, Builder

LEMMA StartInv ==
  ASSUME Inv, NEW d \in Daemons, Start(d)
  PROVE  Inv'
<1> DEFINE b == builder[d]
           group == {c \in b.jobs : Key(c) = Head(b.order)}
           n == [b EXCEPT !.pc = "run", !.order = Tail(@), !.jobs = @ \ group,
                          !.group = group, !.supersede = FALSE, !.running = Head(b.order)]
           x == [b EXCEPT !.pc = "recv"]
<1>1. /\ IsBuilder(b) /\ JobsHeld(b, d) /\ b.pc = "next"
      /\ daemon[d].pc \in Live
      /\ UNCHANGED <<lock, socket, daemon, client, conn>>
  BY JobsOf, BuilderLives DEF Start, Builder
<1>2. CASE builder' = [builder EXCEPT ![d] = n]
  <2>1. /\ n.pc = "run" /\ n.queue = b.queue /\ n.jobs = b.jobs \ group
        /\ n.group = group
    BY <1>1 DEF IsBuilder
  <2>2. IsBuilder(n)
    BY <1>1 DEF IsBuilder
  <2>3. JobsHeld(n, d)
    BY <1>1, <2>1 DEF JobsHeld
  <2> HIDE DEF n
  <2> QED
    BY <1>1, <1>2, <2>1, <2>2, <2>3, BuilderMoves, Zenon
<1>3. CASE builder' = [builder EXCEPT ![d] = x]
  <2>1. x.pc = "recv" /\ x.queue = b.queue /\ x.jobs = b.jobs /\ x.group = b.group
    BY <1>1 DEF IsBuilder
  <2>2. IsBuilder(x)
    BY <1>1 DEF IsBuilder
  <2>3. JobsHeld(x, d)
    BY <1>1, <2>1 DEF JobsHeld
  <2> HIDE DEF x
  <2> QED
    BY <1>1, <1>3, <2>1, <2>2, <2>3, BuilderMoves, Zenon
<1> QED
  BY <1>2, <1>3, Zenon DEF Start, Builder

(* refresh reads the inputs when every job of the group has been sent: its  *)
(* client has asked and still waits, or has left.                           *)
LEMMA RefreshInv ==
  ASSUME Inv, NEW d \in Daemons, Refresh(d)
  PROVE  Inv'
<1> DEFINE b == builder[d]
           asked == {c \in Clients : client[c].pc # "idle"}
           n == [b EXCEPT !.pc = "compiling", !.covers = asked]
<1>1. /\ IsBuilder(b) /\ JobsHeld(b, d) /\ b.pc = "run"
      /\ daemon[d].pc \in Live /\ builder' = [builder EXCEPT ![d] = n]
      /\ UNCHANGED <<lock, socket, daemon, client, conn>>
  BY JobsOf, BuilderLives DEF Refresh, Builder
<1>2. /\ n.pc = "compiling" /\ n.queue = b.queue /\ n.jobs = b.jobs
      /\ n.group = b.group /\ n.covers = asked
  BY <1>1 DEF IsBuilder
<1>3. IsBuilder(n)
  BY <1>1 DEF IsBuilder
<1>4. JobsHeld(n, d)
  BY <1>1, <1>2 DEF JobsHeld
<1>5. b.group \subseteq asked
  BY <1>1 DEF IsBuilder, JobsHeld, Unanswered, Inv, Lines
<1> HIDE DEF n
<1> QED
  BY <1>1, <1>2, <1>3, <1>4, <1>5, BuilderMoves, Zenon

LEMMA GivenUpInv ==
  ASSUME Inv, NEW d \in Daemons, GivenUp(d)
  PROVE  Inv'
<1> DEFINE b == builder[d]
           order == <<b.running>> \o b.order
           n == [b EXCEPT !.pc = "recv", !.streak = @ + 1, !.running = None, !.covers = {},
                          !.group = {}, !.jobs = @ \union b.group, !.order = order]
<1>1. /\ IsBuilder(b) /\ JobsHeld(b, d) /\ b.pc = "compiling"
      /\ daemon[d].pc \in Live /\ builder' = [builder EXCEPT ![d] = n]
      /\ UNCHANGED <<lock, socket, daemon, client, conn>>
  BY JobsOf, BuilderLives DEF GivenUp
<1> HIDE DEF order
<1>2. /\ n.pc = "recv" /\ n.queue = b.queue /\ n.jobs = b.jobs \union b.group
      /\ n.group = {}
  BY <1>1 DEF IsBuilder
<1>3. IsBuilder(n)
  BY <1>1 DEF IsBuilder
<1>4. JobsHeld(n, d)
  BY <1>1, <1>2 DEF JobsHeld
<1> HIDE DEF n
<1> QED
  BY <1>1, <1>2, <1>3, <1>4, BuilderMoves, Zenon

----------------------------------------------------------------------------
(* Steps that open no connection and send no job: a client keeps what it    *)
(* has, or its connection is closed and nobody holds a job it waits for.    *)

Stays(c) ==
  /\ conn'[c] = conn[c] /\ client'[c] = client[c]
  /\ conn[c].pc \in Serving =>
       /\ daemon'[conn[c].d].pc \in Live \ {"joining"}
       /\ daemon'[conn[c].d].id = daemon[conn[c].d].id

Leaves(c) ==
  /\ conn'[c] = Closed
  /\ \A d \in Daemons : c \notin Range(daemon'[d].backlog)
  /\ client'[c].pc # "gone" =>
       \A d \in Daemons : /\ c \notin Range(builder'[d].queue)
                          /\ c \notin builder'[d].jobs
                          /\ c \notin builder'[d].group

Shrinks(d) ==
  /\ Distinct(daemon'[d].backlog)
  /\ Range(daemon'[d].backlog) \subseteq Range(daemon[d].backlog)
  /\ Range(builder'[d].queue) \subseteq Range(builder[d].queue)
  /\ builder'[d].jobs \subseteq builder[d].jobs
  /\ builder'[d].group \subseteq builder[d].group
  /\ builder'[d].pc = "compiling" =>
       /\ builder[d].pc = "compiling"
       /\ builder'[d].group \intersect builder[d].covers \subseteq builder'[d].covers

LEMMA Leaving ==
  ASSUME Inv, TypeOK', Owner',
         \A c \in Clients : Stays(c) \/ Leaves(c),
         \A d \in Daemons : Shrinks(d)
  PROVE  Inv'
<1>1. TypeOK /\ Owner /\ Lines /\ Backlogs /\ Held /\ Covered /\ FreshAnswer
  BY DEF Inv
<1>2. /\ Closed.pc = "none" /\ Closed.fresh = TRUE /\ Closed.reply = None
      /\ "none" \notin Serving
  BY DEF Closed, Serving
<1>3. \A d \in Daemons : /\ Range(daemon[d].backlog) \subseteq Clients
                         /\ Range(builder[d].queue) \subseteq Clients
                         /\ builder[d].jobs \subseteq Clients
                         /\ builder[d].group \subseteq Clients
  <2> SUFFICES ASSUME NEW d \in Daemons
               PROVE  /\ Range(daemon[d].backlog) \subseteq Clients
                      /\ Range(builder[d].queue) \subseteq Clients
                      /\ builder[d].jobs \subseteq Clients
                      /\ builder[d].group \subseteq Clients
    OBVIOUS
  <2>1. daemon[d].backlog \in Seq(Clients)
    BY <1>1 DEF TypeOK, DaemonType
  <2>2. IsBuilder(builder[d])
    BY <1>1 DEF TypeOK
  <2> QED
    BY <2>1, <2>2, RangeOfQueue DEF IsBuilder
<1>4. Lines'
  <2> SUFFICES ASSUME NEW c \in Clients
               PROVE  /\ conn'[c].pc = "none" => conn'[c] = Closed
                      /\ conn'[c].pc # "waiting" => conn'[c].reply = None
                      /\ conn'[c].pc # "none" =>
                           client'[c].pc = "exchange" /\ conn'[c].d \in Daemons
                      /\ conn'[c].pc \in Serving =>
                           daemon'[conn'[c].d].pc \in Live \ {"joining"}
                      /\ conn'[c].pc \in Serving \ {"accepted"} =>
                           client'[c].req.id = daemon'[conn'[c].d].id
    BY DEF Lines, Id
  <2>1. CASE Stays(c)
    BY <1>1, <2>1 DEF Lines, Stays, Id
  <2>2. CASE Leaves(c)
    BY <1>2, <2>2 DEF Leaves
  <2> QED
    BY <2>1, <2>2
<1>5. Backlogs'
  BY <1>1, <1>3 DEF Backlogs, Stays, Leaves, Shrinks
<1>6. Held'
  <2>1. ASSUME NEW d \in Daemons, NEW c \in Clients, Unanswered(c, d),
               \/ c \in Range(builder'[d].queue)
               \/ c \in builder'[d].jobs
               \/ c \in builder'[d].group
        PROVE  Unanswered(c, d)'
    BY <2>1 DEF Unanswered, Stays, Leaves
  <2> QED
    BY <1>1, <1>3, <2>1 DEF Held, Shrinks
<1>7. Covered'
  BY <1>1 DEF Covered, Shrinks
<1>8. FreshAnswer'
  BY <1>1, <1>2 DEF FreshAnswer, Stays, Leaves
<1> QED
  BY <1>4, <1>5, <1>6, <1>7, <1>8 DEF Inv

LEMMA SameShrinks ==
  ASSUME Inv, NEW d \in Daemons, builder'[d] = builder[d],
         daemon'[d].backlog = daemon[d].backlog
  PROVE  Shrinks(d)
BY DEF Inv, Backlogs, Shrinks

LEMMA RestShrinks ==
  ASSUME NEW d \in Daemons, builder'[d] = Resting, daemon'[d].backlog = <<>>
  PROVE  Shrinks(d)
BY DEF Shrinks, Resting, Range, Distinct

(* Nobody holds a job of a client that waits for none. *)
LEMMA NoJob ==
  ASSUME Inv, NEW c \in Clients, \A d \in Daemons : ~Unanswered(c, d)
  PROVE  \A d \in Daemons : /\ c \notin Range(builder[d].queue)
                            /\ c \notin builder[d].jobs
                            /\ c \notin builder[d].group
BY DEF Inv, Held

LEMMA NotQueued ==
  ASSUME Inv, NEW c \in Clients, conn[c].pc # "backlog"
  PROVE  \A d \in Daemons : c \notin Range(daemon[d].backlog)
BY DEF Inv, Backlogs

(* A client that has not connected is known to nobody. *)
LEMMA Outside ==
  ASSUME Inv, NEW c \in Clients, client[c].pc \notin {"exchange", "gone"}
  PROVE  /\ conn[c] = Closed /\ conn[c].pc = "none"
         /\ \A d \in Daemons : /\ c \notin Range(builder[d].queue)
                               /\ c \notin builder[d].jobs
                               /\ c \notin builder[d].group
                               /\ c \notin Range(daemon[d].backlog)
<1>1. conn[c].pc = "none" /\ conn[c] = Closed
  BY DEF Inv, Lines
<1>2. \A d \in Daemons : ~Unanswered(c, d)
  BY <1>1 DEF Unanswered
<1> QED
  BY <1>1, <1>2, NoJob, NotQueued

LEMMA Served ==
  ASSUME Inv, NEW c \in Clients, conn[c].pc \in Serving
  PROVE  /\ conn[c].d \in Daemons /\ daemon[conn[c].d].pc \in Live \ {"joining"}
         /\ client[c].pc = "exchange"
BY DEF Inv, Lines, Serving

(* A client that is not connected changes, and nothing else. *)
LEMMA ClientMoves ==
  ASSUME Inv, NEW c \in Clients, client[c].pc \notin {"exchange", "gone"},
         NEW new \in ClientType, new.pc # "gone", client' = [client EXCEPT ![c] = new],
         UNCHANGED <<lock, socket, daemon, builder, conn>>
  PROVE  Inv'
<1>1. TypeOK /\ Owner /\ conn[c] = Closed
  BY Outside DEF Inv
<1>2. TypeOK' /\ Owner'
  BY <1>1 DEF TypeOK, Owner
<1>3. Leaves(c)
  BY <1>1, Outside DEF Leaves
<1>4. \A e \in Clients : e # c => Stays(e)
  BY <1>1, Served DEF Stays, TypeOK
<1>5. \A d \in Daemons : Shrinks(d)
  BY SameShrinks
<1> QED
  BY <1>2, <1>3, <1>4, <1>5, Leaving

LEMMA GiveUpInv ==
  ASSUME Inv, NEW c \in Clients, client[c].pc \notin {"exchange", "gone"}, GiveUp(c),
         UNCHANGED <<lock, socket, daemon, builder, conn>>
  PROVE  Inv'
<1>1. Free \in ClientType /\ Free.pc # "gone"
  BY DEF Free, ClientType
<1> QED
  BY <1>1, ClientMoves, Zenon DEF GiveUp

LEMMA BeginInv ==
  ASSUME Inv, NEW c \in Clients, Begin(c)
  PROVE  Inv'
<1>1. TypeOK /\ Owner /\ client[c].pc = "idle"
  BY DEF Inv, Begin
<1>2. PICK r \in Asks[c] :
        client' = [client EXCEPT ![c] = [pc |-> "connect", req |-> r, attempt |-> 1]]
  BY Zenon DEF Begin
<1>3. /\ builder' = [d \in Daemons |-> [builder[d] EXCEPT !.covers = @ \ {c}]]
      /\ UNCHANGED <<lock, socket, daemon, conn>>
  BY DEF Begin
<1>4. [pc |-> "connect", req |-> r, attempt |-> 1] \in ClientType
  BY Constants DEF ClientType, Requests
<1>5. ASSUME NEW d \in Daemons
      PROVE  /\ IsBuilder(builder'[d])
             /\ builder'[d].pc = builder[d].pc /\ builder'[d].queue = builder[d].queue
             /\ builder'[d].jobs = builder[d].jobs /\ builder'[d].group = builder[d].group
             /\ builder'[d].covers = builder[d].covers \ {c}
             /\ builder[d] = Resting => builder'[d] = Resting
  BY <1>1, <1>3, RestingStays, ZenonT(30) DEF TypeOK, IsBuilder
<1>6. TypeOK'
  BY <1>1, <1>2, <1>3, <1>4, <1>5, Zenon DEF TypeOK
<1>7. Owner'
  BY <1>1, <1>3, <1>5 DEF Owner
<1>8. Leaves(c)
  BY <1>1, <1>2, <1>3, <1>5, Outside, Zenon DEF Leaves, TypeOK
<1>9. \A e \in Clients : e # c => Stays(e)
  BY <1>1, <1>2, <1>3, Served DEF Stays, TypeOK
<1>10. \A d \in Daemons : Shrinks(d)
  BY <1>1, <1>3, <1>5, Outside DEF Shrinks, Inv, Backlogs
<1> QED
  BY <1>6, <1>7, <1>8, <1>9, <1>10, Leaving

LEMMA AppendQueue ==
  ASSUME NEW q \in Seq(Clients), NEW c \in Clients
  PROVE  /\ Append(q, c) \in Seq(Clients)
         /\ Range(Append(q, c)) = Range(q) \union {c}
         /\ Distinct(q) /\ c \notin Range(q) => Distinct(Append(q, c))
<1>1. /\ Append(q, c) \in Seq(Clients) /\ DOMAIN Append(q, c) = 1 .. Len(q) + 1
      /\ DOMAIN q = 1 .. Len(q) /\ Len(q) \in Nat
      /\ Append(q, c)[Len(q) + 1] = c
      /\ \A i \in 1 .. Len(q) : Append(q, c)[i] = q[i]
  OBVIOUS
<1>2. \A x : x \in Range(Append(q, c)) <=> x \in Range(q) \union {c}
  BY <1>1 DEF Range
<1>3. ASSUME Distinct(q), c \notin Range(q) PROVE Distinct(Append(q, c))
  BY <1>1, <1>3 DEF Distinct, Range
<1> QED
  BY <1>1, <1>2, <1>3, Zenon

LEMMA Busy ==
  ASSUME NEW x \in ClientType, x.pc # "idle"
  PROVE  x \in [pc : {"connect", "spawned", "exchange", "gone"},
                req : Requests, attempt : 1 .. 2]
BY DEF ClientType

LEMMA ClientAt ==
  ASSUME TypeOK, NEW c \in Clients, client[c].pc # "idle",
         NEW p \in {"connect", "spawned", "exchange", "gone"},
         client' = [client EXCEPT ![c].pc = p]
  PROVE  /\ client' \in [Clients -> ClientType] /\ client'[c].pc = p
         /\ \A e \in Clients : e # c => client'[e] = client[e]
<1>1. client \in [Clients -> ClientType] /\ client[c] \in ClientType
  BY DEF TypeOK
<1>2. client[c] \in [pc : {"connect", "spawned", "exchange", "gone"},
                     req : Requests, attempt : 1 .. 2]
  BY <1>1, Busy
<1>3. /\ [client[c] EXCEPT !.pc = p] \in [pc : {"connect", "spawned", "exchange", "gone"},
                                          req : Requests, attempt : 1 .. 2]
      /\ [client[c] EXCEPT !.pc = p].pc = p
  BY <1>2
<1>4. [client[c] EXCEPT !.pc = p] \in ClientType
  BY <1>3, Zenon DEF ClientType
<1> QED
  BY <1>1, <1>3, <1>4

(* The new connection is the last of the backlog. *)
LEMMA ConnectedInv ==
  ASSUME Inv, NEW c \in Clients, client[c].pc \in {"connect", "spawned"}, Connected(c)
  PROVE  Inv'
<1> DEFINE d == socket
           new == [Closed EXCEPT !.pc = "backlog", !.d = socket]
<1>1. /\ TypeOK /\ Owner /\ Lines /\ Backlogs /\ Held /\ Covered /\ FreshAnswer
      /\ d \in Daemons
      /\ daemon' = [daemon EXCEPT ![d].backlog = Append(@, c)]
      /\ conn' = [conn EXCEPT ![c] = new]
      /\ client' = [client EXCEPT ![c].pc = "exchange"]
      /\ UNCHANGED <<lock, socket, builder>>
  BY DEF Inv, Connected, Reachable, TypeOK
<1>2. /\ new \in ConnType /\ new.pc = "backlog" /\ new.d = d /\ new.fresh = TRUE
      /\ new.reply = None
  BY <1>1, Zenon DEF Closed, ConnType
<1>3. /\ daemon[d].backlog \in Seq(Clients) /\ c \notin Range(daemon[d].backlog)
      /\ Distinct(daemon[d].backlog)
  BY <1>1, Outside, Zenon DEF TypeOK, DaemonType, Backlogs
<1>4. /\ Append(daemon[d].backlog, c) \in Seq(Clients)
      /\ Range(Append(daemon[d].backlog, c)) = Range(daemon[d].backlog) \union {c}
      /\ Distinct(Append(daemon[d].backlog, c))
  BY <1>3, AppendQueue
<1>5. /\ daemon' \in [Daemons -> DaemonType]
      /\ daemon'[d].backlog = Append(daemon[d].backlog, c)
      /\ \A e \in Daemons : /\ daemon'[e].pc = daemon[e].pc /\ daemon'[e].id = daemon[e].id
                            /\ e # d => daemon'[e].backlog = daemon[e].backlog
  BY <1>1, <1>4, ZenonT(30) DEF TypeOK, DaemonType
<1>6. /\ conn'[c] = new /\ client'[c].pc = "exchange"
      /\ \A e \in Clients : e # c => conn'[e] = conn[e] /\ client'[e] = client[e]
      /\ client' \in [Clients -> ClientType] /\ conn' \in [Clients -> ConnType]
  BY <1>1, <1>2, ClientAt, ZenonT(30) DEF TypeOK
<1> HIDE DEF new
<1>7. TypeOK'
  BY <1>1, <1>5, <1>6 DEF TypeOK
<1>8. Owner'
  BY <1>1, <1>5 DEF Owner
<1>9. Lines'
  BY <1>1, <1>2, <1>5, <1>6 DEF Lines, Serving, Id
<1>10. Backlogs'
  BY <1>1, <1>2, <1>4, <1>5, <1>6, Outside DEF Backlogs
<1>11. Held'
  BY <1>1, <1>6, Outside DEF Held, Unanswered
<1>12. Covered' /\ FreshAnswer'
  BY <1>1, <1>2, <1>6 DEF Covered, FreshAnswer
<1> QED
  BY <1>7, <1>8, <1>9, <1>10, <1>11, <1>12 DEF Inv

LEMMA SpawnInv ==
  ASSUME Inv, NEW c \in Clients, client[c].pc = "connect",
         NEW d \in Daemons, daemon[d] = Dead,
         daemon' = [daemon EXCEPT ![d] = [Dead EXCEPT !.pc = "locking", !.id = Id(c)]],
         client' = [client EXCEPT ![c].pc = "spawned"],
         UNCHANGED <<lock, socket, builder, conn>>
  PROVE  Inv'
<1> DEFINE new == [Dead EXCEPT !.pc = "locking", !.id = Id(c)]
<1>1. TypeOK /\ Owner /\ conn[c] = Closed
  BY Outside DEF Inv
<1>2. client[c].req \in Requests
  BY <1>1 DEF TypeOK, ClientType
<1>3. Id(c) \in Ids
  BY <1>2, Constants DEF Id, Requests
<1>4. Dead.pc = "dead" /\ Dead.backlog = <<>>
  BY DEF Dead
<1>a. new \in DaemonType /\ new.pc = "locking" /\ new.backlog = <<>>
  BY <1>3, <1>4, DeadTyped, Zenon DEF DaemonType
<1> HIDE DEF new
<1>5. /\ client' \in [Clients -> ClientType] /\ client'[c].pc = "spawned"
      /\ \A e \in Clients : e # c => client'[e] = client[e]
  BY <1>1, ClientAt, Zenon
<1>6. /\ daemon' \in [Daemons -> DaemonType] /\ daemon'[d] = new
      /\ \A e \in Daemons : e # d => daemon'[e] = daemon[e]
  BY <1>1, <1>a DEF TypeOK, new
<1>7. TypeOK'
  BY <1>1, <1>5, <1>6 DEF TypeOK
<1>8. Owner'
  BY <1>1, <1>4, <1>a, <1>6 DEF Owner, Live
<1>9. Leaves(c)
  <2>1. \A e \in Daemons : daemon'[e].backlog = daemon[e].backlog
    BY <1>4, <1>a, <1>6
  <2> QED
    BY <1>1, <1>5, <2>1, Outside DEF Leaves
<1>10. \A e \in Clients : e # c => Stays(e)
  <2>1. \A e \in Clients : conn[e].pc \in Serving => conn[e].d # d
    BY <1>4, Served DEF Live
  <2> QED
    BY <1>5, <1>6, <2>1, Served DEF Stays
<1>11. \A e \in Daemons : Shrinks(e)
  BY <1>4, <1>a, <1>6, SameShrinks
<1> QED
  BY <1>7, <1>8, <1>9, <1>10, <1>11, Leaving

LEMMA ConnectInv ==
  ASSUME Inv, NEW c \in Clients, Connect(c) \/ SpawnFails(c) \/ SpawnWait(c)
  PROVE  Inv'
<1>1. client[c].pc \in {"connect", "spawned"}
  BY DEF Connect, SpawnFails, SpawnWait
<1>2. CASE Connected(c)
  BY <1>1, <1>2, ConnectedInv
<1>3. CASE GiveUp(c) /\ UNCHANGED <<lock, socket, daemon, builder, conn>>
  BY <1>1, <1>3, GiveUpInv, Zenon
<1>4. CASE /\ client[c].pc = "connect" /\ \E d \in Daemons : daemon[d] = Dead
           /\ LET d == CHOOSE d \in Daemons : daemon[d] = Dead IN
                daemon' = [daemon EXCEPT ![d] = [Dead EXCEPT !.pc = "locking", !.id = Id(c)]]
           /\ client' = [client EXCEPT ![c].pc = "spawned"]
           /\ UNCHANGED <<lock, socket, builder, conn>>
  <2> DEFINE d == CHOOSE d \in Daemons : daemon[d] = Dead
  <2>2. d \in Daemons /\ daemon[d] = Dead
    BY <1>4
  <2>3. /\ client[c].pc = "connect"
        /\ daemon' = [daemon EXCEPT ![d] = [Dead EXCEPT !.pc = "locking", !.id = Id(c)]]
        /\ client' = [client EXCEPT ![c].pc = "spawned"]
        /\ UNCHANGED <<lock, socket, builder, conn>>
    BY <1>4
  <2> HIDE DEF d
  <2> QED
    BY <2>2, <2>3, SpawnInv, Zenon
<1> QED
  BY <1>2, <1>3, <1>4, Zenon DEF Connect, SpawnFails, SpawnWait

(* The client goes: its job, wherever it is, is one that nobody awaits. *)
LEMMA AbandonInv ==
  ASSUME Inv, NEW c \in Clients, Abandon(c)
  PROVE  Inv'
<1>1. /\ TypeOK /\ Owner /\ conn[c].pc = "waiting"
      /\ client' = [client EXCEPT ![c].pc = "gone"]
      /\ conn' = [conn EXCEPT ![c] = Closed]
      /\ UNCHANGED <<lock, socket, daemon, builder>>
  BY DEF Inv, Abandon
<1>2. Closed \in ConnType /\ client[c].pc = "exchange"
  BY <1>1, Served DEF Closed, ConnType, Serving
<1>3. /\ client' \in [Clients -> ClientType] /\ client'[c].pc = "gone"
      /\ \A e \in Clients : e # c => client'[e] = client[e] /\ conn'[e] = conn[e]
      /\ conn' \in [Clients -> ConnType] /\ conn'[c] = Closed
  BY <1>1, <1>2, ClientAt, ZenonT(30) DEF TypeOK
<1>4. TypeOK'
  BY <1>1, <1>3 DEF TypeOK
<1>5. Owner'
  BY <1>1 DEF Owner
<1>6. Leaves(c)
  BY <1>1, <1>3, NotQueued DEF Leaves
<1>7. \A e \in Clients : e # c => Stays(e)
  BY <1>1, <1>3, Served DEF Stays
<1>8. \A e \in Daemons : Shrinks(e)
  BY <1>1, SameShrinks
<1> QED
  BY <1>4, <1>5, <1>6, <1>7, <1>8, Leaving

LEMMA ForgottenInv ==
  ASSUME Inv, NEW c \in Clients, Forgotten(c)
  PROVE  Inv'
<1>1. /\ TypeOK /\ Owner /\ client[c].pc = "gone"
      /\ \A d \in Daemons : c \notin Range(builder[d].queue)
      /\ builder' = [d \in Daemons |-> [builder[d] EXCEPT !.jobs = @ \ {c}, !.group = @ \ {c}]]
      /\ client' = [client EXCEPT ![c] = Free]
      /\ UNCHANGED <<lock, socket, daemon, conn>>
  BY Zenon DEF Inv, Forgotten, GiveUp
<1>2. conn[c].pc = "none" /\ conn[c] = Closed
  BY <1>1, Zenon DEF Inv, Lines
<1>3. Free \in ClientType /\ Free.pc = "idle"
  BY DEF Free, ClientType
<1>4. ASSUME NEW d \in Daemons
      PROVE  /\ IsBuilder(builder'[d])
             /\ builder'[d].pc = builder[d].pc /\ builder'[d].queue = builder[d].queue
             /\ builder'[d].jobs = builder[d].jobs \ {c}
             /\ builder'[d].group = builder[d].group \ {c}
             /\ builder'[d].covers = builder[d].covers
             /\ builder[d] = Resting => builder'[d] = Resting
  BY <1>1, RestingStays, ZenonT(30) DEF TypeOK, IsBuilder
<1>5. TypeOK'
  BY <1>1, <1>3, <1>4, Zenon DEF TypeOK
<1>6. Owner'
  BY <1>1, <1>4, ZenonT(30) DEF Owner
<1>7. Leaves(c)
  BY <1>1, <1>2, <1>4, NotQueued, Zenon DEF Leaves
<1>8. \A e \in Clients : e # c => Stays(e)
  BY <1>1, Served, Zenon DEF Stays, TypeOK
<1>9. ASSUME NEW d \in Daemons PROVE Shrinks(d)
  <2>1. Distinct(daemon'[d].backlog) /\ daemon'[d].backlog = daemon[d].backlog
    BY <1>1, Zenon DEF Inv, Backlogs
  <2> QED
    BY <1>4, <2>1, Zenon DEF Shrinks
<1> QED
  BY <1>5, <1>6, <1>7, <1>8, <1>9, Leaving

----------------------------------------------------------------------------
(* The daemon's main thread. *)

LEMMA MainMoves ==
  ASSUME Inv, NEW d \in Daemons, NEW to \in Live, daemon[d].pc \in Live \ {"joining"},
         daemon' = [daemon EXCEPT ![d].pc = to],
         to = "joining" => Connections(d) = {},
         UNCHANGED <<lock, socket, builder, client, conn>>
  PROVE  Inv'
<1>1. TypeOK /\ Owner
  BY DEF Inv
<1>2. /\ daemon' \in [Daemons -> DaemonType] /\ daemon'[d].pc = to
      /\ \A e \in Daemons : /\ daemon'[e].id = daemon[e].id
                            /\ daemon'[e].backlog = daemon[e].backlog
                            /\ e # d => daemon'[e].pc = daemon[e].pc
  BY <1>1, ZenonT(30) DEF TypeOK, DaemonType
<1>3. TypeOK'
  BY <1>1, <1>2 DEF TypeOK
<1>4. Owner'
  BY <1>1, <1>2 DEF Owner
<1>5. \A c \in Clients : Stays(c)
  <2>1. \A c \in Clients : conn[c].pc \in Serving => conn[c].d # d \/ to # "joining"
    BY DEF Connections
  <2> QED
    BY <1>2, <2>1, Served DEF Stays
<1>6. \A e \in Daemons : Shrinks(e)
  BY <1>2, SameShrinks
<1> QED
  BY <1>3, <1>4, <1>5, <1>6, Leaving

LEMMA MainPcInv ==
  ASSUME Inv, NEW d \in Daemons, CheckStop(d) \/ Wait(d) \/ Drain(d)
  PROVE  Inv'
<1>1. CASE CheckStop(d)
  BY <1>1, MainMoves, Zenon DEF CheckStop, Main, Live
<1>2. CASE Wait(d)
  BY <1>2, MainMoves DEF Wait, Main, Live
<1>3. CASE Drain(d)
  BY <1>3, MainMoves, Zenon DEF Drain, Main, Live
<1> QED
  BY <1>1, <1>2, <1>3

(* A process ends or begins its service: it had no connection, and its     *)
(* builder is a new one or has nothing to do.                               *)
LEMMA Renewal ==
  ASSUME Inv, NEW d \in Daemons, NEW new \in DaemonType,
         daemon' = [daemon EXCEPT ![d] = new],
         new.backlog = <<>> \/ new.backlog = daemon[d].backlog,
         \A c \in Clients : conn[c].pc \in Serving => conn[c].d # d,
         builder' = [builder EXCEPT ![d] = Resting],
         lock' \in Daemons \union {None}, socket' \in Daemons \union {None}, Owner',
         UNCHANGED <<client, conn>>
  PROVE  Inv'
<1>1. TypeOK
  BY DEF Inv
<1>2. /\ daemon' \in [Daemons -> DaemonType] /\ daemon'[d] = new
      /\ \A e \in Daemons : e # d => daemon'[e] = daemon[e]
      /\ builder'[d] = Resting /\ \A e \in Daemons : e # d => builder'[e] = builder[e]
      /\ builder' = [e \in Daemons |-> builder'[e]]
  BY <1>1 DEF TypeOK
<1>3. TypeOK'
  BY <1>1, <1>2, RestingTyped DEF TypeOK
<1>4. \A c \in Clients : Stays(c)
  BY <1>2, Served DEF Stays
<1>5. Shrinks(d)
  <2>1. Range(<<>>) = {} /\ Distinct(<<>>)
    BY DEF Range, Distinct
  <2>2. Distinct(daemon[d].backlog)
    BY DEF Inv, Backlogs
  <2> QED
    BY <1>2, <2>1, <2>2 DEF Shrinks, Resting
<1>6. \A e \in Daemons : e # d => Shrinks(e)
  BY <1>2, SameShrinks
<1> QED
  BY <1>3, <1>4, <1>5, <1>6, Leaving

LEMMA LockInv ==
  ASSUME Inv, NEW d \in Daemons, Lock(d)
  PROVE  Inv'
<1> DEFINE new == [daemon[d] EXCEPT !.pc = "check"]
<1>1. /\ TypeOK /\ Owner /\ lock = None /\ daemon[d].pc = "locking" /\ lock' = d /\ socket' = d
      /\ daemon' = [daemon EXCEPT ![d].pc = "check"]
      /\ builder' = [builder EXCEPT ![d] = Resting] /\ UNCHANGED <<client, conn>>
  BY DEF Inv, Lock, Main
<1>2. new \in DaemonType /\ new.pc = "check" /\ new.backlog = daemon[d].backlog
  BY <1>1, Zenon DEF TypeOK, DaemonType, Live
<1>3. daemon' = [daemon EXCEPT ![d] = new]
  BY <1>1
<1>4. \A c \in Clients : conn[c].pc \in Serving => conn[c].d # d
  BY <1>1, Served DEF Live
<1> HIDE DEF new
<1>5. Owner'
  BY <1>1, <1>2, <1>3, Constants, Zenon DEF Owner, TypeOK, Live, Resting
<1> QED
  BY <1>1, <1>2, <1>3, <1>4, <1>5, Renewal, Zenon

LEMMA LockTimeoutInv ==
  ASSUME Inv, NEW d \in Daemons, LockTimeout(d)
  PROVE  Inv'
<1>1. /\ TypeOK /\ Owner /\ daemon[d].pc = "locking"
      /\ daemon' = [daemon EXCEPT ![d] = Dead]
      /\ UNCHANGED <<lock, socket, builder, client, conn>>
  BY DEF Inv, LockTimeout
<1>2. builder[d] = Resting
  BY <1>1 DEF Owner, Live
<1>3. builder' = [builder EXCEPT ![d] = Resting]
  BY <1>1, <1>2 DEF TypeOK
<1>4. \A c \in Clients : conn[c].pc \in Serving => conn[c].d # d
  BY <1>1, Served DEF Live
<1>5. Dead.pc = "dead" /\ Dead.backlog = <<>>
  BY DEF Dead
<1>6. Owner'
  BY <1>1, <1>5 DEF Owner, TypeOK, Live
<1> QED
  BY <1>1, <1>3, <1>4, <1>5, <1>6, DeadTyped, Renewal, Zenon DEF TypeOK

LEMMA ExitInv ==
  ASSUME Inv, NEW d \in Daemons, Exit(d)
  PROVE  Inv'
<1>1. /\ TypeOK /\ Owner /\ daemon[d].pc = "joining" /\ lock' = None
      /\ daemon' = [daemon EXCEPT ![d] = Dead]
      /\ builder' = [builder EXCEPT ![d] = Resting]
      /\ UNCHANGED <<socket, client, conn>>
  BY DEF Inv, Exit
<1>2. \A c \in Clients : conn[c].pc \in Serving => conn[c].d # d
  BY <1>1, Served DEF Live
<1>3. Dead.pc = "dead" /\ Dead.backlog = <<>>
  BY DEF Dead
<1>4. Owner'
  BY <1>1, <1>3, Constants, Zenon DEF Owner, TypeOK, Live, Resting
<1> QED
  BY <1>1, <1>2, <1>3, <1>4, DeadTyped, Renewal, Zenon DEF TypeOK

LEMMA Retrying ==
  ASSUME NEW P, NEW R, NEW A, NEW p \in P, NEW a \in A,
         NEW x \in [pc : P, req : R, attempt : A]
  PROVE  /\ [x EXCEPT !.pc = p, !.attempt = a] \in [pc : P, req : R, attempt : A]
         /\ [x EXCEPT !.pc = p, !.attempt = a].pc = p
BY Zenon

(* A response that ends connections: the client tries once more or is free. *)
LEMMA Responds ==
  ASSUME TypeOK, NEW cs, NEW r, Respond(cs, r),
         \A c \in Clients : c \in cs => client[c].pc = "exchange"
  PROVE  /\ client' \in [Clients -> ClientType] /\ conn' \in [Clients -> ConnType]
         /\ \A c \in Clients : c \in cs => conn'[c] = Closed /\ client'[c].pc # "gone"
         /\ \A c \in Clients : c \notin cs => conn'[c] = conn[c] /\ client'[c] = client[c]
<1>1. /\ client' = [c \in Clients |-> IF c \in cs THEN Read(c, r) ELSE client[c]]
      /\ conn' = [c \in Clients |-> IF c \in cs THEN Closed ELSE conn[c]]
      /\ client \in [Clients -> ClientType] /\ conn \in [Clients -> ConnType]
  BY DEF Respond, TypeOK
<1>2. Closed \in ConnType
  BY DEF Closed, ConnType
<1>3. Free \in ClientType /\ Free.pc = "idle"
  BY DEF Free, ClientType
<1>4. ASSUME NEW c \in Clients, c \in cs
      PROVE  Read(c, r) \in ClientType /\ Read(c, r).pc # "gone"
  <2>1. client[c] \in ClientType /\ client[c].pc = "exchange"
    BY <1>1, <1>4
  <2>2. client[c] \in [pc : {"connect", "spawned", "exchange", "gone"},
                       req : Requests, attempt : 1 .. 2]
    BY <2>1, Busy
  <2> DEFINE again == [client[c] EXCEPT !.pc = "connect", !.attempt = 2]
  <2>3. /\ again.pc = "connect"
        /\ again \in [pc : {"connect", "spawned", "exchange", "gone"},
                      req : Requests, attempt : 1 .. 2]
    <3>1. "connect" \in {"connect", "spawned", "exchange", "gone"} /\ 2 \in 1 .. 2
      OBVIOUS
    <3> QED
      BY <2>2, <3>1, Retrying, Zenon
  <2>4. again \in ClientType
    BY <2>3, Zenon DEF ClientType
  <2> HIDE DEF again
  <2>5. Read(c, r) = again \/ Read(c, r) = Free
    BY DEF Read, again
  <2> QED
    BY <1>3, <2>3, <2>4, <2>5
<1> QED
  BY <1>1, <1>2, <1>4

LEMMA CrashInv ==
  ASSUME Inv, NEW d \in Daemons, Crash(d)
  PROVE  Inv'
<1> DEFINE cs == {c \in Clients : conn[c].d = d}
<1>1. /\ TypeOK /\ Owner /\ Lines /\ Respond(cs, "eof")
      /\ lock' = IF lock = d THEN None ELSE lock
      /\ daemon' = [daemon EXCEPT ![d] = Dead]
      /\ builder' = [builder EXCEPT ![d] = Resting]
      /\ UNCHANGED socket
  BY DEF Inv, Crash
<1>2. Closed.d \notin Daemons
  BY Constants DEF Closed
<1>3. \A c \in cs : conn[c].pc # "none" /\ client[c].pc = "exchange"
  BY <1>1, <1>2 DEF Lines
<1>4. /\ client' \in [Clients -> ClientType] /\ conn' \in [Clients -> ConnType]
      /\ \A c \in Clients : c \in cs => conn'[c] = Closed /\ client'[c].pc # "gone"
      /\ \A c \in Clients : c \notin cs => conn'[c] = conn[c] /\ client'[c] = client[c]
  BY <1>1, <1>3, Responds
<1>5. /\ daemon' \in [Daemons -> DaemonType] /\ daemon'[d] = Dead
      /\ \A e \in Daemons : e # d => daemon'[e] = daemon[e] /\ builder'[e] = builder[e]
      /\ builder'[d] = Resting /\ builder' = [e \in Daemons |-> builder'[e]]
  BY <1>1, DeadTyped DEF TypeOK
<1>6. /\ Dead.pc = "dead" /\ Dead.backlog = <<>> /\ Range(<<>>) = {}
      /\ Resting.queue = <<>> /\ Resting.jobs = {} /\ Resting.group = {} /\ Resting.pc = "recv"
  BY DEF Dead, Resting, Range
<1>7. TypeOK'
  BY <1>1, <1>4, <1>5, RestingTyped DEF TypeOK
<1>8. Owner'
  BY <1>1, <1>5, <1>6, Constants DEF Owner, TypeOK, Live
<1>9. \A c \in Clients : c \notin cs => Stays(c)
  BY <1>4, <1>5, Served DEF Stays
<1>10. ASSUME NEW c \in cs PROVE Leaves(c)
  <2>1. \A e \in Daemons : e # d => ~Unanswered(c, e)
    BY <1>3 DEF Unanswered
  <2>2. \A e \in Daemons : e # d => /\ c \notin Range(builder[e].queue)
                                    /\ c \notin builder[e].jobs
                                    /\ c \notin builder[e].group
                                    /\ c \notin Range(daemon[e].backlog)
    BY <2>1 DEF Inv, Held, Backlogs
  <2> QED
    BY <1>4, <1>5, <1>6, <2>2 DEF Leaves
<1>11. \A e \in Daemons : Shrinks(e)
  BY <1>5, <1>6, SameShrinks, RestShrinks
<1> QED
  BY <1>7, <1>8, <1>9, <1>10, <1>11, Leaving

(* The listener goes with its backlog, whose clients nobody has heard. *)
LEMMA CloseInv ==
  ASSUME Inv, NEW d \in Daemons, Close(d)
  PROVE  Inv'
<1> DEFINE cs == Range(daemon[d].backlog)
           new == [daemon[d] EXCEPT !.pc = "draining", !.stopping = TRUE, !.backlog = <<>>]
<1>1. /\ TypeOK /\ Owner /\ Lines /\ Backlogs /\ Respond(cs, "eof")
      /\ daemon[d].pc = "closing" /\ socket' \in {socket, None}
      /\ daemon' = [daemon EXCEPT ![d] = new]
      /\ UNCHANGED <<lock, builder>>
  BY DEF Inv, Close
<1>2. \A c \in cs : conn[c].pc = "backlog" /\ conn[c].d = d
  BY <1>1 DEF Backlogs
<1>3. \A c \in Clients : c \in cs => client[c].pc = "exchange"
  BY <1>1, <1>2 DEF Lines
<1>4. /\ client' \in [Clients -> ClientType] /\ conn' \in [Clients -> ConnType]
      /\ \A c \in Clients : c \in cs => conn'[c] = Closed /\ client'[c].pc # "gone"
      /\ \A c \in Clients : c \notin cs => conn'[c] = conn[c] /\ client'[c] = client[c]
  BY <1>1, <1>3, Responds
<1>5. /\ new \in DaemonType /\ new.pc = "draining" /\ new.backlog = <<>>
      /\ new.id = daemon[d].id
  <2>1. daemon[d] \in DaemonType
    BY <1>1 DEF TypeOK
  <2> DEFINE p == "draining"
             s == TRUE
             q == <<>>
  <2>2. p \in Live /\ s \in BOOLEAN /\ q \in Seq(Clients)
    BY DEF Live
  <2> HIDE DEF p, s, q
  <2>3. /\ [daemon[d] EXCEPT !.pc = p, !.stopping = s, !.backlog = q] \in DaemonType
        /\ [daemon[d] EXCEPT !.pc = p, !.stopping = s, !.backlog = q].pc = p
        /\ [daemon[d] EXCEPT !.pc = p, !.stopping = s, !.backlog = q].backlog = q
        /\ [daemon[d] EXCEPT !.pc = p, !.stopping = s, !.backlog = q].id = daemon[d].id
    BY <2>1, <2>2, Zenon DEF DaemonType
  <2> QED
    BY <2>3, Zenon DEF p, s, q
<1> HIDE DEF new
<1>6. /\ daemon' \in [Daemons -> DaemonType] /\ daemon'[d] = new
      /\ \A e \in Daemons : e # d => daemon'[e] = daemon[e]
  BY <1>1, <1>5 DEF TypeOK
<1>7. TypeOK'
  BY <1>1, <1>4, <1>6 DEF TypeOK
<1>8. Owner'
  BY <1>1, <1>5, <1>6 DEF Owner, Live
<1>9. \A c \in Clients : c \notin cs => Stays(c)
  BY <1>4, <1>5, <1>6, Served DEF Stays, Live
<1>r. Range(<<>>) = {} /\ Distinct(<<>>)
  BY SMTT(20)  DEF Range, Distinct
<1>10. ASSUME NEW c \in Clients, c \in cs PROVE Leaves(c)
  <2>1. \A e \in Daemons : ~Unanswered(c, e)
    BY <1>2, <1>3, <1>10, Zenon DEF Unanswered
  <2>2. \A e \in Daemons : e # d => c \notin Range(daemon[e].backlog)
    BY <1>1, <1>2, <1>10 DEF Backlogs
  <2> QED
    BY <1>1, <1>4, <1>5, <1>6, <1>r, <1>10, <2>1, <2>2, NoJob DEF Leaves
<1>11. Shrinks(d)
  BY <1>1, <1>5, <1>6, <1>r DEF Shrinks
<1>12. \A e \in Daemons : e # d => Shrinks(e)
  BY <1>1, <1>6, SameShrinks
<1> QED
  BY <1>7, <1>8, <1>9, <1>10, <1>11, <1>12, Leaving

LEMMA TailQueue ==
  ASSUME NEW q \in Seq(Clients), q # <<>>, Distinct(q)
  PROVE  /\ Tail(q) \in Seq(Clients) /\ Head(q) \in Clients /\ Head(q) \in Range(q)
         /\ Range(Tail(q)) \subseteq Range(q) \ {Head(q)} /\ Distinct(Tail(q))
<1>1. Len(q) >= 1 /\ Head(q) = q[1] /\ DOMAIN q = 1 .. Len(q)
  OBVIOUS
<1>2. /\ Tail(q) \in Seq(Clients) /\ DOMAIN Tail(q) = 1 .. Len(q) - 1
      /\ \A i \in 1 .. Len(q) - 1 : Tail(q)[i] = q[i + 1]
  OBVIOUS
<1>3. Head(q) \in Clients /\ Head(q) \in Range(q)
  BY <1>1 DEF Range
<1>4. Distinct(Tail(q))
  BY <1>1, <1>2 DEF Distinct
<1>5. ASSUME NEW x \in Range(Tail(q)) PROVE x \in Range(q) \ {Head(q)}
  BY <1>1, <1>2 DEF Range, Distinct
<1> QED
  BY <1>2, <1>3, <1>4, <1>5

(* A connection goes on to its next state. *)
LEMMA ConnMoves ==
  ASSUME Inv, NEW c \in Clients, NEW to \in Serving, conn[c].pc \notin {"none", "waiting"},
         conn' = [conn EXCEPT ![c].pc = to], UNCHANGED client,
         daemon[conn[c].d].pc \in Live \ {"joining"},
         to # "accepted" => Id(c) = daemon[conn[c].d].id,
         \A e \in Daemons :
           /\ daemon[e].pc \in Live \ {"joining"} => daemon'[e].pc \in Live \ {"joining"}
           /\ daemon'[e].id = daemon[e].id
           /\ Distinct(daemon'[e].backlog)
           /\ Range(daemon'[e].backlog) \subseteq Range(daemon[e].backlog) \ {c}
  PROVE  /\ Lines' /\ Backlogs' /\ FreshAnswer' /\ conn' \in [Clients -> ConnType]
         /\ conn'[c].pc = to /\ conn'[c].d = conn[c].d /\ conn'[c].reply = None
         /\ \A e \in Clients : e # c => conn'[e] = conn[e]
<1>1. TypeOK /\ Lines /\ Backlogs /\ FreshAnswer /\ client' = client
  BY DEF Inv
<1>2. conn \in [Clients -> ConnType] /\ conn[c] \in ConnType /\ "none" \notin Serving
  BY <1>1 DEF TypeOK, Serving
<1>3. /\ conn' \in [Clients -> ConnType]
      /\ conn'[c].pc = to /\ conn'[c].d = conn[c].d /\ conn'[c].reply = conn[c].reply
      /\ conn'[c].fresh = conn[c].fresh
      /\ \A e \in Clients : e # c => conn'[e] = conn[e]
  BY <1>2 DEF ConnType
<1>4. conn[c].d \in Daemons /\ client[c].pc = "exchange" /\ conn[c].reply = None
  BY <1>1 DEF Lines
<1>5. ASSUME NEW e \in Clients
      PROVE  /\ conn'[e].pc = "none" => conn'[e] = Closed
             /\ conn'[e].pc # "waiting" => conn'[e].reply = None
             /\ conn'[e].pc # "none" => client'[e].pc = "exchange" /\ conn'[e].d \in Daemons
             /\ conn'[e].pc \in Serving => daemon'[conn'[e].d].pc \in Live \ {"joining"}
             /\ conn'[e].pc \in Serving \ {"accepted"} =>
                  client'[e].req.id = daemon'[conn'[e].d].id
  <2>1. CASE e = c
    BY <1>1, <1>2, <1>3, <1>4, <2>1 DEF Id
  <2>2. CASE e # c
    BY <1>1, <1>3, <2>2, Served DEF Lines, Id
  <2> QED
    BY <2>1, <2>2
<1>6. Lines'
  BY <1>5 DEF Lines, Id
<1>7. Backlogs'
  BY <1>1, <1>3 DEF Backlogs
<1>8. FreshAnswer'
  BY <1>1, <1>3 DEF FreshAnswer
<1> QED
  BY <1>3, <1>4, <1>6, <1>7, <1>8

(* Jobs stay unanswered when a connection that awaits none goes on. *)
LEMMA HeldStays ==
  ASSUME Inv, NEW c \in Clients, \A d \in Daemons : ~Unanswered(c, d), UNCHANGED client,
         \A e \in Clients : e # c => conn'[e] = conn[e],
         \A d \in Daemons : /\ builder'[d].queue = builder[d].queue
                            /\ builder'[d].jobs = builder[d].jobs
                            /\ builder'[d].group = builder[d].group
                            /\ builder'[d].pc = builder[d].pc
                            /\ builder'[d].covers = builder[d].covers
  PROVE  Held' /\ Covered'
<1>1. Held /\ Covered /\ TypeOK
  BY DEF Inv
<1>2. ASSUME NEW d \in Daemons, NEW e \in Clients, e # c, Unanswered(e, d)
      PROVE  Unanswered(e, d)'
  BY <1>2 DEF Unanswered
<1>3. \A d \in Daemons : /\ Range(builder[d].queue) \subseteq Clients
                         /\ builder[d].jobs \subseteq Clients
                         /\ builder[d].group \subseteq Clients
  BY <1>1, RangeOfQueue DEF TypeOK, IsBuilder
<1>4. Held'
  BY <1>1, <1>2, <1>3, NoJob DEF Held
<1>5. Covered'
  BY <1>1 DEF Covered
<1> QED
  BY <1>4, <1>5

LEMMA AcceptInv ==
  ASSUME Inv, NEW d \in Daemons, Accept(d)
  PROVE  Inv'
<1> DEFINE q == daemon[d].backlog
           c == Head(q)
           new == [daemon[d] EXCEPT !.pc = "check", !.backlog = Tail(q)]
<1>1. /\ TypeOK /\ Owner /\ Lines /\ Backlogs /\ daemon[d].pc = "accept" /\ q # <<>>
      /\ daemon' = [daemon EXCEPT ![d].pc = "check", ![d].backlog = Tail(@)]
      /\ UNCHANGED <<lock, socket, builder>>
      /\ Respond({c}, "eof") \/ (conn' = [conn EXCEPT ![c].pc = "accepted"] /\ UNCHANGED client)
  BY DEF Inv, Accept
<1>2. daemon[d] \in DaemonType /\ q \in Seq(Clients) /\ Distinct(q)
  BY <1>1 DEF TypeOK, DaemonType, Backlogs
<1>3. /\ Tail(q) \in Seq(Clients) /\ c \in Clients /\ c \in Range(q)
      /\ Range(Tail(q)) \subseteq Range(q) \ {c} /\ Distinct(Tail(q))
  BY <1>1, <1>2, TailQueue
<1>4. /\ daemon' \in [Daemons -> DaemonType]
      /\ daemon'[d].pc = "check" /\ daemon'[d].backlog = Tail(q) /\ daemon'[d].id = daemon[d].id
      /\ \A e \in Daemons : e # d => daemon'[e] = daemon[e]
  BY <1>1, <1>2, <1>3, ZenonT(30) DEF TypeOK, DaemonType, Live
<1>5. conn[c].pc = "backlog" /\ conn[c].d = d /\ client[c].pc = "exchange"
  BY <1>1, <1>3 DEF Backlogs, Lines
<1>6. /\ \A e \in Daemons : ~Unanswered(c, e)
      /\ \A e \in Daemons : e # d => c \notin Range(daemon[e].backlog)
  BY <1>1, <1>5 DEF Unanswered, Backlogs
<1> HIDE DEF q, c
<1>7. Owner'
  BY <1>1, <1>4 DEF Owner, Live
<1>8. CASE Respond({c}, "eof")
  <2>1. /\ client' \in [Clients -> ClientType] /\ conn' \in [Clients -> ConnType]
        /\ conn'[c] = Closed /\ client'[c].pc # "gone"
        /\ \A e \in Clients : e # c => conn'[e] = conn[e] /\ client'[e] = client[e]
    BY <1>1, <1>3, <1>5, <1>8, Responds
  <2>2. TypeOK'
    BY <1>1, <1>4, <2>1 DEF TypeOK
  <2>3. Leaves(c)
    BY <1>1, <1>3, <1>4, <1>6, <2>1, NoJob, ZenonT(30) DEF Leaves
  <2>4. \A e \in Clients : e # c => Stays(e)
    BY <1>1, <1>4, <2>1, Served DEF Stays, Live
  <2>5. Shrinks(d)
    BY <1>1, <1>3, <1>4 DEF Shrinks, q
  <2>6. \A e \in Daemons : e # d => Shrinks(e)
    BY <1>1, <1>4, SameShrinks
  <2> QED
    BY <1>7, <2>2, <2>3, <2>4, <2>5, <2>6, Leaving
<1>9. CASE conn' = [conn EXCEPT ![c].pc = "accepted"] /\ UNCHANGED client
  <2>1. \A e \in Daemons :
           /\ daemon[e].pc \in Live \ {"joining"} => daemon'[e].pc \in Live \ {"joining"}
           /\ daemon'[e].id = daemon[e].id
           /\ Distinct(daemon'[e].backlog)
           /\ Range(daemon'[e].backlog) \subseteq Range(daemon[e].backlog) \ {c}
    BY <1>1, <1>3, <1>4, <1>6, SMTT(20) DEF Live, Backlogs, q
  <2>2. /\ Lines' /\ Backlogs' /\ FreshAnswer' /\ conn' \in [Clients -> ConnType]
        /\ \A e \in Clients : e # c => conn'[e] = conn[e]
    BY <1>1, <1>3, <1>5, <1>9, <2>1, ConnMoves, Zenon DEF Serving, Live
  <2>3. TypeOK'
    BY <1>1, <1>4, <1>9, <2>2 DEF TypeOK
  <2>4. Held' /\ Covered'
    BY <1>1, <1>3, <1>6, <1>9, <2>2, HeldStays
  <2> QED
    BY <1>7, <2>2, <2>3, <2>4 DEF Inv
<1> QED
  BY <1>1, <1>8, <1>9

----------------------------------------------------------------------------
(* The connections' threads. *)

LEMMA StopKeeps ==
  ASSUME TypeOK, NEW d \in Daemons, daemon' = daemon \/ daemon' = Stopped(d)
  PROVE  /\ daemon' \in [Daemons -> DaemonType]
         /\ \A e \in Daemons : /\ daemon'[e].pc = daemon[e].pc /\ daemon'[e].id = daemon[e].id
                               /\ daemon'[e].backlog = daemon[e].backlog
<1>1. daemon \in [Daemons -> DaemonType] /\ daemon[d] \in DaemonType
  BY DEF TypeOK
<1>2. CASE daemon' = Stopped(d)
  <2> DEFINE new == [daemon[d] EXCEPT !.stopping = TRUE]
  <2>1. /\ new \in DaemonType /\ new.pc = daemon[d].pc /\ new.id = daemon[d].id
        /\ new.backlog = daemon[d].backlog
    BY <1>1, Zenon DEF DaemonType
  <2>2. daemon' = [daemon EXCEPT ![d] = new]
    BY <1>2 DEF Stopped
  <2> HIDE DEF new
  <2> QED
    BY <1>1, <2>1, <2>2
<1> QED
  BY <1>1, <1>2

(* One connection is answered. *)
LEMMA AnsweredInv ==
  ASSUME Inv, NEW c \in Clients, NEW r, Respond({c}, r), conn[c].pc \in Serving,
         \A d \in Daemons : ~Unanswered(c, d),
         daemon' = daemon \/ daemon' = Stopped(conn[c].d),
         UNCHANGED <<lock, socket, builder>>
  PROVE  Inv'
<1>1. TypeOK /\ Owner
  BY DEF Inv
<1>2. conn[c].d \in Daemons /\ client[c].pc = "exchange" /\ conn[c].pc # "backlog"
  BY Served DEF Serving
<1>3. /\ daemon' \in [Daemons -> DaemonType]
      /\ \A e \in Daemons : /\ daemon'[e].pc = daemon[e].pc /\ daemon'[e].id = daemon[e].id
                            /\ daemon'[e].backlog = daemon[e].backlog
  BY <1>1, <1>2, StopKeeps
<1>4. /\ client' \in [Clients -> ClientType] /\ conn' \in [Clients -> ConnType]
      /\ conn'[c] = Closed /\ client'[c].pc # "gone"
      /\ \A e \in Clients : e # c => conn'[e] = conn[e] /\ client'[e] = client[e]
  BY <1>1, <1>2, Responds
<1>5. TypeOK'
  BY <1>1, <1>3, <1>4, Zenon DEF TypeOK
<1>6. Owner'
  BY <1>1, <1>3, Zenon DEF Owner
<1>7. Leaves(c)
  BY <1>2, <1>3, <1>4, NoJob, NotQueued, ZenonT(30) DEF Leaves
<1>8. \A e \in Clients : e # c => Stays(e)
  BY <1>3, <1>4, Served DEF Stays
<1>9. \A e \in Daemons : Shrinks(e)
  BY <1>3, SameShrinks, Zenon
<1> QED
  BY <1>5, <1>6, <1>7, <1>8, <1>9, Leaving

LEMMA AwaitInv ==
  ASSUME Inv, NEW c \in Clients, Await(c)
  PROVE  Inv'
<1>1. conn[c].pc = "waiting" /\ conn[c].pc \in Serving /\ conn[c].reply # None
  BY DEF Await, Serving
<1>2. \A d \in Daemons : ~Unanswered(c, d)
  BY <1>1, Served DEF Unanswered
<1> QED
  BY <1>1, <1>2, AnsweredInv DEF Await

QueuesStay(c) ==
  \A e \in Daemons :
    /\ daemon[e].pc \in Live \ {"joining"} => daemon'[e].pc \in Live \ {"joining"}
    /\ daemon'[e].id = daemon[e].id
    /\ Distinct(daemon'[e].backlog)
    /\ Range(daemon'[e].backlog) \subseteq Range(daemon[e].backlog) \ {c}

LEMMA QueuesKept ==
  ASSUME Inv, NEW c \in Clients, conn[c].pc # "backlog", UNCHANGED daemon
  PROVE  QueuesStay(c)
BY NotQueued DEF QueuesStay, Inv, Backlogs

LEMMA ReadRequestInv ==
  ASSUME Inv, NEW c \in Clients, ReadRequest(c)
  PROVE  Inv'
<1> DEFINE d == conn[c].d
<1>1. /\ TypeOK /\ Owner /\ conn[c].pc = "accepted" /\ conn[c].pc \in Serving
      /\ daemon' = daemon \/ daemon' = Stopped(d)
      /\ UNCHANGED <<lock, socket, builder>>
  BY DEF Inv, ReadRequest, Serving
<1>2. \A e \in Daemons : ~Unanswered(c, e)
  BY <1>1, Served DEF Unanswered
<1>3. CASE \E r : Respond({c}, r)
  BY <1>1, <1>2, <1>3, AnsweredInv
<1>4. ASSUME NEW to \in {"matched", "send"}, conn' = [conn EXCEPT ![c].pc = to],
             Id(c) = daemon[d].id, UNCHANGED <<client, daemon>>
      PROVE  Inv'
  <2>1. d \in Daemons /\ daemon[d].pc \in Live \ {"joining"}
        /\ conn[c].pc \notin {"none", "waiting"}
    BY <1>1, Served
  <2>2. QueuesStay(c)
    BY <1>1, <1>4, QueuesKept, Zenon DEF Serving
  <2>3. /\ Lines' /\ Backlogs' /\ FreshAnswer' /\ conn' \in [Clients -> ConnType]
        /\ \A e \in Clients : e # c => conn'[e] = conn[e]
    BY <1>4, <2>1, <2>2, ConnMoves, Zenon DEF Serving, QueuesStay
  <2>4. TypeOK' /\ Owner'
    BY <1>1, <1>4, <2>3 DEF TypeOK, Owner
  <2>5. Held' /\ Covered'
    BY <1>1, <1>2, <1>4, <2>3, HeldStays
  <2> QED
    BY <2>3, <2>4, <2>5 DEF Inv
<1> QED
  BY <1>3, <1>4 DEF ReadRequest

LEMMA SupersedeInv ==
  ASSUME Inv, NEW c \in Clients, Supersede(c)
  PROVE  Inv'
<1> DEFINE d == conn[c].d
<1>1. /\ TypeOK /\ Owner /\ Lines /\ conn[c].pc = "matched"
      /\ conn' = [conn EXCEPT ![c].pc = "send"]
      /\ builder' = [builder EXCEPT ![d].supersede = TRUE]
      /\ UNCHANGED <<lock, socket, daemon, client>>
  BY DEF Inv, Supersede, Conn
<1>2. /\ conn[c].pc \in Serving /\ conn[c].pc \notin {"none", "waiting"}
      /\ "send" \in Serving \ {"accepted"}
  BY <1>1 DEF Serving
<1>3. d \in Daemons /\ daemon[d].pc \in Live \ {"joining"} /\ Id(c) = daemon[d].id
  BY <1>1, <1>2, Served DEF Lines
<1>4. \A e \in Daemons : ~Unanswered(c, e)
  BY <1>1, <1>2, Served DEF Unanswered
<1>5. QueuesStay(c)
  BY <1>1, QueuesKept
<1>6. /\ Lines' /\ Backlogs' /\ FreshAnswer' /\ conn' \in [Clients -> ConnType]
      /\ \A e \in Clients : e # c => conn'[e] = conn[e]
  BY <1>1, <1>2, <1>3, <1>5, ConnMoves, Zenon DEF QueuesStay
<1>7. /\ builder' = [e \in Daemons |-> builder'[e]]
      /\ \A e \in Daemons : /\ IsBuilder(builder'[e])
                            /\ builder'[e].pc = builder[e].pc
                            /\ builder'[e].queue = builder[e].queue
                            /\ builder'[e].jobs = builder[e].jobs
                            /\ builder'[e].group = builder[e].group
                            /\ builder'[e].covers = builder[e].covers
                            /\ e # d => builder'[e] = builder[e]
  <2> DEFINE new == [builder[d] EXCEPT !.supersede = TRUE]
  <2>1. IsBuilder(builder[d])
    BY <1>1, <1>3 DEF TypeOK
  <2>2. /\ IsBuilder(new) /\ new.pc = builder[d].pc /\ new.queue = builder[d].queue
        /\ new.jobs = builder[d].jobs /\ new.group = builder[d].group
        /\ new.covers = builder[d].covers
    BY <2>1 DEF IsBuilder
  <2>3. builder' = [builder EXCEPT ![d] = new]
    BY <1>1, Zenon
  <2> HIDE DEF new
  <2> QED
    BY <1>1, <1>3, <2>2, <2>3, Zenon DEF TypeOK
<1>8. TypeOK'
  BY <1>1, <1>6, <1>7, ZenonT(30) DEF TypeOK
<1>9. Owner'
  BY <1>1, <1>3, <1>7, SMTT(20) DEF Owner
<1>10. Held' /\ Covered'
  BY <1>1, <1>4, <1>6, <1>7, HeldStays
<1> QED
  BY <1>6, <1>8, <1>9, <1>10 DEF Inv

LEMMA SendJobInv ==
  ASSUME Inv, NEW c \in Clients, SendJob(c)
  PROVE  Inv'
<1>0. PICK d \in Daemons : d = conn[c].d
  BY Served DEF SendJob, Conn, Serving
<1> DEFINE q == builder[d].queue
           new == [builder[d] EXCEPT !.queue = Append(q, c)]
<1>1. /\ TypeOK /\ Owner /\ Lines /\ Held /\ Covered /\ conn[c].pc = "send"
      /\ conn' = [conn EXCEPT ![c].pc = "waiting"]
      /\ builder' = [builder EXCEPT ![d] = new]
      /\ UNCHANGED <<lock, socket, daemon, client>>
  BY <1>0 DEF Inv, SendJob, Conn
<1>2. conn[c].pc \in Serving /\ conn[c].pc \notin {"none", "waiting"}
      /\ "waiting" \in Serving \ {"accepted"}
  BY <1>1 DEF Serving
<1>3. d \in Daemons /\ daemon[d].pc \in Live \ {"joining"} /\ Id(c) = daemon[d].id
  BY <1>0, <1>1, <1>2, Served DEF Lines
<1>4. \A e \in Daemons : /\ c \notin Range(builder[e].queue) /\ c \notin builder[e].jobs
                         /\ c \notin builder[e].group
  <2>1. \A e \in Daemons : ~Unanswered(c, e)
    BY <1>1, <1>2, Served DEF Unanswered
  <2> QED
    BY <2>1, NoJob
<1>5. QueuesStay(c)
  BY <1>1, QueuesKept, Zenon
<1>6. /\ Lines' /\ Backlogs' /\ FreshAnswer' /\ conn' \in [Clients -> ConnType]
      /\ conn'[c].pc = "waiting" /\ conn'[c].d = d /\ conn'[c].reply = None
      /\ \A e \in Clients : e # c => conn'[e] = conn[e]
  BY <1>0, <1>1, <1>2, <1>3, <1>5, ConnMoves, Zenon DEF QueuesStay
<1>7. IsBuilder(builder[d]) /\ q \in Seq(Clients)
  BY <1>1, <1>3 DEF TypeOK, IsBuilder
<1>8. Append(q, c) \in Seq(Clients) /\ Range(Append(q, c)) = Range(q) \union {c}
  BY <1>7, AppendQueue
<1>9. /\ IsBuilder(new) /\ new.pc = builder[d].pc /\ new.queue = Append(q, c)
      /\ new.jobs = builder[d].jobs /\ new.group = builder[d].group
      /\ new.covers = builder[d].covers
  BY <1>7, <1>8 DEF IsBuilder
<1> HIDE DEF new, q
<1>10. /\ builder' = [e \in Daemons |-> builder'[e]] /\ builder'[d] = new
       /\ \A e \in Daemons : e # d => builder'[e] = builder[e]
  BY <1>1, <1>3 DEF TypeOK
<1>11. TypeOK'
  BY <1>1, <1>6, <1>9, <1>10 DEF TypeOK
<1>12. Owner'
  BY <1>1, <1>3, <1>9, <1>10 DEF Owner
<1>13. Covered'
  BY <1>1, <1>9, <1>10 DEF Covered
<1>14. \A e \in Daemons : \A x \in Clients : x # c /\ Unanswered(x, e) => Unanswered(x, e)'
  BY <1>1, <1>6 DEF Unanswered
<1>15. Unanswered(c, d)'
  BY <1>6 DEF Unanswered
<1>16. ASSUME NEW e \in Daemons PROVE JobsHeld(builder[e], e)'
  <2>1. JobsHeld(builder[e], e) /\ IsBuilder(builder[e])
    BY JobsOf
  <2>2. /\ Range(builder[e].queue) \subseteq Clients /\ builder[e].jobs \subseteq Clients
        /\ builder[e].group \subseteq Clients
    BY <2>1, RangeOfQueue DEF IsBuilder
  <2>3. CASE e = d
    <3>1. \A x \in Range(Append(q, c)) : /\ Unanswered(x, d)' /\ x \notin builder[d].jobs
                                          /\ x \notin builder[d].group
      BY <1>4, <1>8, <1>14, <1>15, <2>1, <2>2, <2>3 DEF JobsHeld, q
    <3>2. /\ \A x \in builder[d].jobs : Unanswered(x, d)' /\ x \notin builder[d].group
          /\ \A x \in builder[d].group : Unanswered(x, d)'
      BY <1>4, <1>14, <2>1, <2>2, <2>3 DEF JobsHeld
    <3> QED
      BY <1>9, <1>10, <2>3, <3>1, <3>2, ZenonT(30) DEF JobsHeld
  <2>4. CASE e # d
    BY <1>4, <1>10, <1>14, <2>1, <2>2, <2>4, ZenonT(30) DEF JobsHeld
  <2> QED
    BY <2>3, <2>4
<1>17. Held'
  BY <1>16 DEF Held, JobsHeld
<1> QED
  BY <1>6, <1>11, <1>12, <1>13, <1>17 DEF Inv

(* The end of a build: what its group waited for is what it is told. *)
LEMMA FinishInv ==
  ASSUME Inv, NEW d \in Daemons, Finish(d)
  PROVE  Inv'
<1> DEFINE b == builder[d]
           new == [b EXCEPT !.pc = "next", !.streak = 0, !.running = None,
                            !.group = {}, !.covers = {}]
           told == {c \in b.group : conn[c].d = d /\ conn[c].pc = "waiting"}
<1>1. /\ TypeOK /\ Owner /\ Lines /\ Backlogs /\ Held /\ Covered /\ FreshAnswer
      /\ b.pc \in {"run", "compiling"}
      /\ builder' = [builder EXCEPT ![d] = new]
      /\ UNCHANGED <<lock, socket, client>>
      /\ daemon' = daemon \/ daemon' = Stopped(d)
  BY Zenon DEF Inv, Finish
<1>2. PICK r \in Ends(b) :
        conn' = [c \in Clients |->
          IF c \in told
            THEN [conn[c] EXCEPT !.reply = r,
                    !.fresh = r = "built" => c \in b.covers /\ Id(c) = daemon[d].id]
            ELSE conn[c]]
  BY ZenonT(30) DEF Finish
<1>3. /\ r \in {None, "built", "unsupported", "panicked"}
      /\ r = "built" => b.pc = "compiling"
  BY <1>1 DEF Ends
<1>4. ASSUME NEW c \in Clients, c \in told
      PROVE  (r = "built" => c \in b.covers /\ Id(c) = daemon[d].id) = TRUE
  BY <1>1, <1>3, <1>4 DEF Covered, Lines, Serving
<1>5. ASSUME NEW c \in Clients, c \in told
      PROVE  conn'[c] = [conn[c] EXCEPT !.reply = r, !.fresh = TRUE]
  BY <1>2, <1>4, <1>5, ZenonT(30)
<1>6. ASSUME NEW c \in Clients
      PROVE  /\ conn'[c] \in ConnType /\ conn'[c].fresh
             /\ conn'[c].pc = conn[c].pc /\ conn'[c].d = conn[c].d
             /\ c \notin told => conn'[c] = conn[c]
  <2>1. conn[c] \in ConnType /\ conn[c].fresh
    BY <1>1 DEF TypeOK, FreshAnswer
  <2>2. CASE c \in told
    <3> DEFINE f == TRUE
    <3>1. f \in BOOLEAN /\ f /\ conn'[c] = [conn[c] EXCEPT !.reply = r, !.fresh = f]
      BY <1>5, <2>2, Zenon
    <3> HIDE DEF f
    <3>2. /\ [conn[c] EXCEPT !.reply = r, !.fresh = f] \in ConnType
          /\ [conn[c] EXCEPT !.reply = r, !.fresh = f].pc = conn[c].pc
          /\ [conn[c] EXCEPT !.reply = r, !.fresh = f].d = conn[c].d
          /\ [conn[c] EXCEPT !.reply = r, !.fresh = f].fresh = f
      BY <1>3, <2>1, <3>1, Zenon DEF ConnType
    <3> QED
      BY <2>2, <3>1, <3>2, Zenon
  <2>3. CASE c \notin told
    BY <1>2, <2>1, <2>3, Zenon
  <2> QED
    BY <2>2, <2>3
<1>7. conn' \in [Clients -> ConnType]
  <2>1. conn' = [c \in Clients |-> conn'[c]]
    BY <1>2, Zenon
  <2> QED
    BY <1>6, <2>1, Zenon
<1>8. IsBuilder(b) /\ b.group \subseteq Clients /\ told \subseteq b.group
  BY <1>1 DEF TypeOK, IsBuilder
<1>9. /\ IsBuilder(new) /\ new.pc = "next" /\ new.queue = b.queue /\ new.jobs = b.jobs
      /\ new.group = {} /\ new.covers = {}
  BY <1>8 DEF IsBuilder
<1> HIDE DEF new
<1>10. /\ builder' = [e \in Daemons |-> builder'[e]] /\ builder'[d] = new
       /\ \A e \in Daemons : e # d => builder'[e] = builder[e]
  BY <1>1 DEF TypeOK
<1>11. /\ daemon' \in [Daemons -> DaemonType]
       /\ \A e \in Daemons : /\ daemon'[e].pc = daemon[e].pc /\ daemon'[e].id = daemon[e].id
                             /\ daemon'[e].backlog = daemon[e].backlog
  BY <1>1, StopKeeps
<1>12. TypeOK'
  BY <1>1, <1>7, <1>9, <1>10, <1>11, ZenonT(30) DEF TypeOK
<1>13. Owner'
  <2>1. daemon[d].pc \in Live
    BY <1>1, BuilderLives, ZenonT(30)
  <2> QED
    BY <1>1, <1>9, <1>10, <1>11, <2>1 DEF Owner
<1>14. Lines'
  <2>1. \A c \in Clients : conn[c].pc # "waiting" => conn'[c] = conn[c]
    BY <1>6
  <2>2. client' = client /\ "none" # "waiting"
    BY <1>1, ZenonT(30)
  <2> QED
    BY <1>1, <1>6, <1>11, <2>1, <2>2, Served, SMTT(20) DEF Lines, Id
<1>15. Backlogs'
  <2>1. \A e \in Daemons : Range(daemon[e].backlog) \subseteq Clients
    BY <1>1, RangeOfQueue, Zenon DEF TypeOK, DaemonType
  <2> QED
    BY <1>1, <1>6, <1>11, <2>1 DEF Backlogs
<1>16. FreshAnswer'
  BY <1>6 DEF FreshAnswer
<1>17. Covered'
  BY <1>1, <1>9, <1>10, Zenon DEF Covered
<1>18. ASSUME NEW e \in Daemons, NEW c \in Clients, Unanswered(c, e), c \notin told
       PROVE  Unanswered(c, e)'
  BY <1>1, <1>6, <1>18 DEF Unanswered
<1>19. ASSUME NEW e \in Daemons PROVE JobsHeld(builder[e], e)'
  <2>1. JobsHeld(builder[e], e) /\ IsBuilder(builder[e])
    BY JobsOf
  <2>2. /\ Range(builder[e].queue) \subseteq Clients /\ builder[e].jobs \subseteq Clients
        /\ builder[e].group \subseteq Clients
    BY <2>1, RangeOfQueue DEF IsBuilder
  <2>3. CASE e = d
    BY <1>8, <1>9, <1>10, <1>18, <2>1, <2>2, <2>3, Zenon DEF JobsHeld
  <2>4. CASE e # d
    <3>1. ASSUME NEW c \in Clients, Unanswered(c, e) PROVE Unanswered(c, e)'
      <4>1. CASE c \in told
        BY <1>1, <2>4, <3>1, <4>1, ZenonT(30) DEF Unanswered, Lines
      <4> QED
        BY <1>18, <3>1, <4>1, Zenon
    <3> QED
      BY <1>10, <2>1, <2>2, <2>4, <3>1, Zenon DEF JobsHeld
  <2> QED
    BY <2>3, <2>4
<1>20. Held'
  BY <1>19 DEF Held, JobsHeld
<1> QED
  BY <1>12, <1>13, <1>14, <1>15, <1>16, <1>17, <1>20, Zenon DEF Inv

----------------------------------------------------------------------------
LEMMA NextInv == Inv /\ [Next]_vars => Inv'
<1> SUFFICES ASSUME Inv, [Next]_vars PROVE Inv'
  OBVIOUS
<1>1. ASSUME NEW c \in Clients, Begin(c) \/ ClientStep(c) \/ Abandon(c) \/ ConnStep(c)
      PROVE  Inv'
  BY <1>1, BeginInv, ConnectInv, ForgottenInv, AbandonInv, ReadRequestInv, SupersedeInv,
     SendJobInv, AwaitInv, Zenon DEF ClientStep, ConnStep
<1>2. ASSUME NEW d \in Daemons, MainStep(d) \/ Crash(d) PROVE Inv'
  BY <1>2, LockInv, LockTimeoutInv, MainPcInv, AcceptInv, CloseInv, ExitInv, CrashInv,
     ZenonT(30) DEF MainStep
<1>3. ASSUME NEW d \in Daemons, BuilderStep(d) PROVE Inv'
  BY <1>3, TakeInv, StartInv, RefreshInv, GivenUpInv, FinishInv, ZenonT(30) DEF BuilderStep
<1>4. CASE UNCHANGED vars
  BY <1>4 DEF vars, Inv, TypeOK, Owner, Lines, Backlogs, Held, Covered, FreshAnswer,
              Unanswered, Id
<1> QED
  BY <1>1, <1>2, <1>3, <1>4, Zenon DEF Next

LEMMA InvHolds == Spec => []Inv
BY InitInv, NextInv, PTL DEF Spec

(* A client that is told its build is done got it from a daemon of its own  *)
(* toolchain whose build read the sources after the client asked.           *)
THEOREM AnswersAreFresh == Spec => []FreshAnswer
<1>1. Inv => FreshAnswer
  BY Zenon DEF Inv
<1> QED
  BY <1>1, InvHolds, PTL

(* The builder is there as long as a connection is served: it exits when    *)
(* the main thread joins it, which waits for every connection to end.       *)
THEOREM BuilderOutlives == Spec => []BuilderOutlivesJobs
<1>1. Inv => BuilderOutlivesJobs
  <2> SUFFICES ASSUME Inv, NEW c \in Clients, conn[c].pc \in Serving
               PROVE  builder[conn[c].d].pc # "exited"
    BY DEF BuilderOutlivesJobs
  <2>1. conn[c].d \in Daemons /\ daemon[conn[c].d].pc # "joining"
    BY Served
  <2> QED
    BY <2>1, Zenon DEF Inv, Owner
<1> QED
  BY <1>1, InvHolds, PTL

(* Of any number of daemon processes the one that has the lock listens and  *)
(* builds, and the others wait for it.                                      *)
THEOREM OneDaemonBuilds == Spec => []OneBuilder
<1>1. Inv => OneBuilder
  BY DEF Inv, Owner, OneBuilder, Listening, Live
<1> QED
  BY <1>1, InvHolds, PTL

=============================================================================
