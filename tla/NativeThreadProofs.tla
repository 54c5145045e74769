------------------------- MODULE NativeThreadProofs -------------------------
(***************************************************************************)
(* For every number of handles: a thread is claimed at most once and is    *)
(* never detached, and when the barrier finds no row in the table no       *)
(* callback of the module runs and none can start.                         *)
(*                                                                         *)
(* The second is not plain from the table, because a child runs before its *)
(* row is inserted.  Started accounts for those: each is still held by the *)
(* actor that spawned it, which runs too and has a smaller id.             *)
(***************************************************************************)
EXTENDS NativeThread, TLAPS, FiniteSetTheorems, NaturalsInduction, WellFoundedInduction

Places == {"idle", "run", "over", "claiming", "claimed", "joining", "destroying", "removing",
           "removed", "barrier", "barrier_wait", "batch", "unloaded"}

TypeOK ==
  /\ next_id \in Nat \ {0}
  /\ row \in [Handles -> {"none", "live", "claimed", "gone"}]
  /\ finished \subseteq Handles
  /\ child \in [Handles -> {"unborn", "running", "returned", "exited"}]
  /\ result \in [Handles -> {"uninit", "value", "none", "taken", "destroyed"}]
  /\ pc \in [Actors -> Places]
  /\ arg \in [Actors -> Actors]
  /\ op \in [Actors -> {"none", "join", "drop", "barrier"}]
  /\ spawning \in [Actors -> Actors]
  /\ batch \subseteq Handles
  /\ signalled \in BOOLEAN

(* What a child's thread has done, and what the table says of it. *)
Lives ==
  \A h \in Handles :
    /\ child[h] = "unborn" <=> pc[h] = "idle"
    /\ child[h] \in {"returned", "exited"} <=> pc[h] = "over"
    /\ child[h] # "unborn" => h < next_id
    /\ row[h] # "none" => child[h] # "unborn"
    /\ h \in finished <=> child[h] = "exited"
    /\ child[h] \in {"returned", "exited"} => result[h] # "uninit"

(* A child is in the table, or its spawner has it and still runs. *)
Started ==
  /\ \A a \in Actors : spawning[a] # 0 =>
       /\ pc[a] \in {"run", "destroying"}
       /\ a < spawning[a] /\ spawning[a] < next_id
       /\ row[spawning[a]] = "none" /\ child[spawning[a]] # "unborn"
  /\ \A a, b \in Actors : spawning[a] # 0 /\ spawning[a] = spawning[b] => a = b
  /\ \A h \in Handles :
       child[h] # "unborn" /\ row[h] = "none" => \E a \in Actors : spawning[a] = h

HasClaim(a) == pc[a] \in {"claimed", "joining", "destroying", "removing"}
Consumed(h) == child[h] = "exited" /\ result[h] \in {"taken", "destroyed", "none"}

(* A claimed row has one claimant: an actor, or the barrier's batch. *)
Claimed ==
  /\ \A a \in Actors : pc[a] = "claiming" \/ HasClaim(a) => arg[a] \in Handles
  /\ \A a \in Actors : HasClaim(a) => row[arg[a]] = "claimed" /\ arg[a] \notin batch
  /\ \A a, b \in Actors : HasClaim(a) /\ HasClaim(b) /\ arg[a] = arg[b] => a = b
  /\ \A h \in batch : row[h] = "claimed"
  /\ \A h \in Handles : row[h] = "claimed" =>
       h \in batch \/ \E a \in Actors : HasClaim(a) /\ arg[a] = h

(* The claimant joins and disposes of the result before the row goes. *)
Joins ==
  /\ \A a \in Actors : pc[a] = "destroying" =>
       child[arg[a]] = "exited" /\ result[arg[a]] = "value"
  /\ \A a \in Actors : pc[a] = "removing" => Consumed(arg[a])
  /\ \A h \in Handles : row[h] = "gone" => Consumed(h)

Inv == TypeOK /\ Lives /\ Started /\ Claimed /\ Joins /\ NoCallbackAfterUnload

USE DEF Handles, Actors, Main

----------------------------------------------------------------------------
LEMMA SpawnInv ==
  ASSUME NEW a \in Actors, Inv, Spawn(a)
  PROVE  Inv'
<1>0. next_id \in Handles /\ pc[next_id] = "idle"
  BY MaxIdAssumption DEF Inv, Spawn, TypeOK, Lives
<1>1. TypeOK'
  BY DEF Inv, Spawn, Goto, TypeOK, Places
<1>2. Lives'
  BY MaxIdAssumption DEF Inv, Spawn, Goto, InModule, TypeOK, Lives
<1>3. Started'
  BY MaxIdAssumption, SMTT(30) DEF Inv, Spawn, Goto, InModule, TypeOK, Lives, Started
<1>4. Claimed'
  <2>1. \A b \in Actors : HasClaim(b)' <=> HasClaim(b)
    BY <1>0 DEF Inv, Spawn, Goto, TypeOK, HasClaim
  <2> QED
    BY <1>0, <2>1 DEF Inv, Spawn, Goto, TypeOK, Claimed
<1>5. Joins'
  BY MaxIdAssumption DEF Inv, Spawn, Goto, InModule, TypeOK, Lives, Claimed, HasClaim,
     Joins, Consumed
<1>6. NoCallbackAfterUnload'
  BY MaxIdAssumption DEF Inv, Spawn, Goto, InModule, TypeOK, Lives, Started,
     NoCallbackAfterUnload
<1> QED
  BY <1>1, <1>2, <1>3, <1>4, <1>5, <1>6 DEF Inv

LEMMA SpawnFailsInv ==
  ASSUME NEW a \in Actors, Inv, SpawnFails(a)
  PROVE  Inv'
<1>1. TypeOK'
  BY MaxIdAssumption DEF Inv, SpawnFails, InModule, claims, TypeOK, Places
<1>2. Lives'
  BY MaxIdAssumption DEF Inv, SpawnFails, InModule, claims, TypeOK, Lives
<1>3. Started'
  BY MaxIdAssumption DEF Inv, SpawnFails, InModule, claims, TypeOK, Lives, Started
<1>4. Claimed'
  BY MaxIdAssumption DEF Inv, SpawnFails, InModule, claims, TypeOK, Lives, Claimed, HasClaim
<1>5. Joins'
  BY MaxIdAssumption DEF Inv, SpawnFails, InModule, claims, TypeOK, Lives, Claimed,
     HasClaim, Joins, Consumed
<1>6. NoCallbackAfterUnload'
  BY MaxIdAssumption DEF Inv, SpawnFails, InModule, claims, TypeOK, Lives, Started,
     NoCallbackAfterUnload
<1> QED
  BY <1>1, <1>2, <1>3, <1>4, <1>5, <1>6 DEF Inv

LEMMA InsertInv ==
  ASSUME NEW a \in Actors, Inv, Insert(a)
  PROVE  Inv'
<1>1. TypeOK'
  BY MaxIdAssumption DEF Inv, Insert, TypeOK, Places
<1>2. Lives'
  BY MaxIdAssumption DEF Inv, Insert, TypeOK, Lives, Started
<1>3. Started'
  BY MaxIdAssumption DEF Inv, Insert, TypeOK, Lives, Started
<1>4. Claimed'
  BY MaxIdAssumption, SMTT(30) DEF Inv, Insert, TypeOK, Started, Claimed, HasClaim
<1>5. Joins'
  BY MaxIdAssumption DEF Inv, Insert, TypeOK, Started, Claimed, HasClaim, Joins, Consumed
<1>6. NoCallbackAfterUnload'
  BY MaxIdAssumption, Zenon DEF Inv, Insert, TypeOK, Lives, Started, NoCallbackAfterUnload
<1> QED
  BY <1>1, <1>2, <1>3, <1>4, <1>5, <1>6 DEF Inv

LEMMA ReturnInv ==
  ASSUME NEW h \in Handles, Inv, Return(h)
  PROVE  Inv'
<1>0. \A b \in Actors : b # h => pc'[b] = pc[b]
  BY DEF Inv, Return, Goto, TypeOK
<1>1. TypeOK'
  BY MaxIdAssumption DEF Inv, Return, Goto, table, claims, TypeOK, Places
<1>2. Lives'
  BY MaxIdAssumption DEF Inv, Return, Goto, table, claims, TypeOK, Lives
<1>3. Started'
  BY MaxIdAssumption DEF Inv, Return, Goto, table, claims, TypeOK, Lives, Started
<1>4. Claimed'
  BY MaxIdAssumption, <1>0, SMTT(30) DEF Inv, Return, Goto, table, claims, TypeOK, Lives, Claimed,
     HasClaim
<1>5. Joins'
  BY MaxIdAssumption DEF Inv, Return, Goto, table, claims, TypeOK, Lives, Claimed, HasClaim,
     Joins, Consumed
<1>6. NoCallbackAfterUnload'
  BY MaxIdAssumption DEF Inv, Return, Goto, table, claims, TypeOK, Lives, Started,
     NoCallbackAfterUnload
<1> QED
  BY <1>1, <1>2, <1>3, <1>4, <1>5, <1>6 DEF Inv

LEMMA CompleteInv ==
  ASSUME NEW h \in Handles, Inv, Complete(h)
  PROVE  Inv'
<1>1. TypeOK'
  BY MaxIdAssumption DEF Inv, Complete, NotifyAll, claims, TypeOK, Places
<1>2. Lives'
  <2>1. /\ child[h] = "returned" /\ h \in DOMAIN child
        /\ child' = [child EXCEPT ![h] = "exited"] /\ finished' = finished \union {h}
        /\ UNCHANGED <<next_id, row, result, pc>>
    BY DEF Inv, Complete, claims, TypeOK
  <2>2. result[h] # "uninit"
    BY <2>1 DEF Inv, Lives
  <2> QED
    BY <2>1, <2>2 DEF Inv, Lives
<1>3. Started'
  BY MaxIdAssumption DEF Inv, Complete, NotifyAll, claims, TypeOK, Lives, Started
<1>4. Claimed'
  BY MaxIdAssumption, SMTT(30) DEF Inv, Complete, NotifyAll, claims, TypeOK, Lives, Claimed, HasClaim
<1>5. Joins'
  BY MaxIdAssumption DEF Inv, Complete, NotifyAll, claims, TypeOK, Lives, Claimed, HasClaim,
     Joins, Consumed
<1>6. NoCallbackAfterUnload'
  BY MaxIdAssumption DEF Inv, Complete, NotifyAll, claims, TypeOK, Lives, Started,
     NoCallbackAfterUnload
<1> QED
  BY <1>1, <1>2, <1>3, <1>4, <1>5, <1>6 DEF Inv

LEMMA CallInv ==
  ASSUME NEW a \in Actors, NEW h \in Handles, NEW o \in {"join", "drop"}, Inv, Call(a, h, o)
  PROVE  Inv'
<1>1. TypeOK'
  BY MaxIdAssumption DEF Inv, Call, Goto, table, TypeOK, Places
<1>2. Lives'
  BY MaxIdAssumption DEF Inv, Call, Goto, table, TypeOK, Lives
<1>3. Started'
  BY MaxIdAssumption, SMTT(30) DEF Inv, Call, Goto, table, TypeOK, Lives, Started
<1>4. Claimed'
  BY MaxIdAssumption, SMTT(30) DEF Inv, Call, Goto, table, TypeOK, Lives, Claimed, HasClaim
<1>5. Joins'
  BY MaxIdAssumption DEF Inv, Call, Goto, table, TypeOK, Lives, Claimed, HasClaim, Joins,
     Consumed
<1>6. NoCallbackAfterUnload'
  BY MaxIdAssumption DEF Inv, Call, Goto, table, TypeOK, Lives, Started,
     NoCallbackAfterUnload
<1> QED
  BY <1>1, <1>2, <1>3, <1>4, <1>5, <1>6 DEF Inv

LEMMA ClaimInv ==
  ASSUME NEW a \in Actors, Inv, Claim(a)
  PROVE  Inv'
<1>1. TypeOK /\ Lives /\ Started /\ Claimed /\ Joins /\ NoCallbackAfterUnload
  BY DEF Inv
<1>2. /\ pc[a] = "claiming" /\ arg[a] \in Handles /\ signalled' \in BOOLEAN
      /\ UNCHANGED <<next_id, finished, child, result, arg, op, spawning, batch>>
  BY <1>1, Zenon DEF Claim, NotifyAll, claims, TypeOK, Claimed
<1>3. CASE row[arg[a]] = "live"
  <2>1. /\ row' = [row EXCEPT ![arg[a]] = "claimed"]
        /\ pc' = [pc EXCEPT ![a] = "claimed"]
    BY <1>3, <1>1, <1>2 DEF Claim, Goto
  <2>2. TypeOK'
    BY <1>3, <1>1, <1>2, <2>1 DEF TypeOK, Places
  <2>3. Lives'
    BY <1>3, <1>1, <1>2, <2>1 DEF TypeOK, Lives
  <2>4. Started'
    BY <1>3, <1>1, <1>2, <2>1, SMTT(30) DEF TypeOK, Lives, Started
  <2>5. Claimed'
    BY <1>3, <1>1, <1>2, <2>1, SMTT(30) DEF TypeOK, Lives, Claimed, HasClaim
  <2>6. Joins'
    BY <1>3, <1>1, <1>2, <2>1, SMTT(30) DEF TypeOK, Lives, Claimed, HasClaim, Joins, Consumed
  <2>7. NoCallbackAfterUnload'
    BY <1>3, <1>1, <1>2, <2>1 DEF TypeOK, Lives, Started, NoCallbackAfterUnload
  <2> QED
    BY <2>2, <2>3, <2>4, <2>5, <2>6, <2>7 DEF Inv
<1>4. CASE row[arg[a]] # "live"
  <2>1. UNCHANGED row /\ pc' = [pc EXCEPT ![a] = "run"]
    BY <1>4, <1>1, <1>2 DEF Claim, Goto
  <2>2. TypeOK'
    BY <1>4, <1>1, <1>2, <2>1 DEF TypeOK, Places
  <2>3. Lives'
    BY <1>4, <1>1, <1>2, <2>1 DEF TypeOK, Lives
  <2>4. Started'
    BY <1>4, <1>1, <1>2, <2>1, SMTT(30) DEF TypeOK, Lives, Started
  <2>5. Claimed'
    BY <1>4, <1>1, <1>2, <2>1, SMTT(30) DEF TypeOK, Lives, Claimed, HasClaim
  <2>6. Joins'
    BY <1>4, <1>1, <1>2, <2>1 DEF TypeOK, Lives, Claimed, HasClaim, Joins, Consumed
  <2>7. NoCallbackAfterUnload'
    BY <1>4, <1>1, <1>2, <2>1 DEF TypeOK, Lives, Started, NoCallbackAfterUnload
  <2> QED
    BY <2>2, <2>3, <2>4, <2>5, <2>6, <2>7 DEF Inv
<1> QED
  BY <1>3, <1>4

LEMMA ClaimNotifyInv ==
  ASSUME NEW a \in Actors, Inv, ClaimNotify(a)
  PROVE  Inv'
<1>1. TypeOK'
  BY MaxIdAssumption DEF Inv, ClaimNotify, Goto, NotifyAll, table, claims, TypeOK, Places
<1>2. Lives'
  BY MaxIdAssumption DEF Inv, ClaimNotify, Goto, NotifyAll, table, claims, TypeOK, Lives
<1>3. Started'
  BY MaxIdAssumption DEF Inv, ClaimNotify, Goto, NotifyAll, table, claims, TypeOK, Lives,
     Started
<1>4. Claimed'
  BY MaxIdAssumption DEF Inv, ClaimNotify, Goto, NotifyAll, table, claims, TypeOK, Lives,
     Claimed, HasClaim
<1>5. Joins'
  BY MaxIdAssumption DEF Inv, ClaimNotify, Goto, NotifyAll, table, claims, TypeOK, Lives,
     Claimed, HasClaim, Joins, Consumed
<1>6. NoCallbackAfterUnload'
  BY MaxIdAssumption DEF Inv, ClaimNotify, Goto, NotifyAll, table, claims, TypeOK, Lives,
     Started, NoCallbackAfterUnload
<1> QED
  BY <1>1, <1>2, <1>3, <1>4, <1>5, <1>6 DEF Inv

LEMMA JoinedInv ==
  ASSUME NEW a \in Actors, Inv, Joined(a)
  PROVE  Inv'
<1>1. TypeOK /\ Lives /\ Started /\ Claimed /\ Joins /\ NoCallbackAfterUnload
  BY DEF Inv
<1>2. /\ pc[a] = "joining" /\ arg[a] \in Handles /\ child[arg[a]] = "exited"
      /\ UNCHANGED <<next_id, row, finished, child, arg, op, spawning, batch, signalled>>
  BY <1>1 DEF Joined, table, claims, Claimed, HasClaim
<1>3. CASE result[arg[a]] = "value" /\ op[a] # "join"
  <2>1. UNCHANGED result /\ pc' = [pc EXCEPT ![a] = "destroying"]
    BY <1>3, <1>1, <1>2 DEF Joined, Goto
  <2>2. TypeOK'
    BY <1>3, <1>1, <1>2, <2>1 DEF TypeOK, Places
  <2>3. Lives'
    BY <1>3, <1>1, <1>2, <2>1 DEF TypeOK, Lives
  <2>4. Started'
    BY <1>3, <1>1, <1>2, <2>1, SMTT(30) DEF TypeOK, Lives, Started
  <2>5. Claimed'
    BY <1>3, <1>1, <1>2, <2>1, SMTT(30) DEF TypeOK, Lives, Claimed, HasClaim
  <2>6. Joins'
    BY <1>3, <1>1, <1>2, <2>1 DEF TypeOK, Lives, Claimed, HasClaim, Joins, Consumed
  <2>7. NoCallbackAfterUnload'
    BY <1>3, <1>1, <1>2, <2>1, Zenon DEF TypeOK, Lives, Started, NoCallbackAfterUnload
  <2> QED
    BY <2>2, <2>3, <2>4, <2>5, <2>6, <2>7 DEF Inv
<1>4. CASE ~(result[arg[a]] = "value" /\ op[a] # "join")
  <2>1. /\ \E r \in {"none", "taken", "destroyed"} : result' = [result EXCEPT ![arg[a]] = r]
        /\ pc' = [pc EXCEPT ![a] = "removing"]
    BY <1>4, <1>1, <1>2 DEF Joined, Goto, TypeOK, Lives
  <2>2. TypeOK'
    BY <1>4, <1>1, <1>2, <2>1 DEF TypeOK, Places
  <2>3. Lives'
    BY <1>4, <1>1, <1>2, <2>1, SMTT(30) DEF TypeOK, Lives
  <2>4. Started'
    BY <1>4, <1>1, <1>2, <2>1, SMTT(30) DEF TypeOK, Lives, Started
  <2>5. Claimed'
    BY <1>4, <1>1, <1>2, <2>1, SMTT(30) DEF TypeOK, Lives, Claimed, HasClaim
  <2>6. Joins'
    BY <1>4, <1>1, <1>2, <2>1 DEF TypeOK, Lives, Claimed, HasClaim, Joins, Consumed
  <2>7. NoCallbackAfterUnload'
    BY <1>4, <1>1, <1>2, <2>1, Zenon DEF TypeOK, Lives, Started, NoCallbackAfterUnload
  <2> QED
    BY <2>2, <2>3, <2>4, <2>5, <2>6, <2>7 DEF Inv
<1> QED
  BY <1>3, <1>4

LEMMA DestroyedInv ==
  ASSUME NEW a \in Actors, Inv, Destroyed(a)
  PROVE  Inv'
<1>1. TypeOK'
  BY MaxIdAssumption, Zenon DEF Inv, Destroyed, Goto, table, claims, TypeOK, Places
<1>2. Lives'
  BY MaxIdAssumption DEF Inv, Destroyed, Goto, table, claims, TypeOK, Lives
<1>3. Started'
  BY MaxIdAssumption, SMTT(30) DEF Inv, Destroyed, Goto, table, claims, TypeOK, Lives, Started
<1>4. Claimed'
  BY MaxIdAssumption, SMTT(30) DEF Inv, Destroyed, Goto, table, claims, TypeOK, Lives, Claimed,
     HasClaim
<1>5. Joins'
  BY MaxIdAssumption DEF Inv, Destroyed, Goto, table, claims, TypeOK, Lives, Claimed,
     HasClaim, Joins, Consumed
<1>6. NoCallbackAfterUnload'
  BY MaxIdAssumption, ZenonT(30) DEF Inv, Destroyed, Goto, table, claims, TypeOK, Lives, Started,
     NoCallbackAfterUnload
<1> QED
  BY <1>1, <1>2, <1>3, <1>4, <1>5, <1>6 DEF Inv

LEMMA FinishClaimInv ==
  ASSUME NEW a \in Actors, Inv, FinishClaim(a)
  PROVE  Inv'
<1>1. TypeOK'
  BY MaxIdAssumption, Zenon DEF Inv, FinishClaim, Goto, claims, TypeOK, Places
<1>2. Lives'
  BY MaxIdAssumption DEF Inv, FinishClaim, Goto, claims, TypeOK, Lives, Claimed, HasClaim
<1>3. Started'
  BY MaxIdAssumption, SMTT(30) DEF Inv, FinishClaim, Goto, claims, TypeOK, Started, Claimed, HasClaim
<1>4. Claimed'
  BY MaxIdAssumption DEF Inv, FinishClaim, Goto, claims, TypeOK, Lives, Claimed, HasClaim
<1>5. Joins'
  BY MaxIdAssumption DEF Inv, FinishClaim, Goto, claims, TypeOK, Lives, Claimed, HasClaim,
     Joins, Consumed
<1>6. NoCallbackAfterUnload'
  BY MaxIdAssumption DEF Inv, FinishClaim, Goto, claims, TypeOK, Lives, Started,
     NoCallbackAfterUnload
<1> QED
  BY <1>1, <1>2, <1>3, <1>4, <1>5, <1>6 DEF Inv

LEMMA FinishNotifyInv ==
  ASSUME NEW a \in Actors, Inv, FinishNotify(a)
  PROVE  Inv'
<1>1. TypeOK'
  BY MaxIdAssumption DEF Inv, FinishNotify, Goto, NotifyAll, table, claims, TypeOK, Places
<1>2. Lives'
  BY MaxIdAssumption DEF Inv, FinishNotify, Goto, NotifyAll, table, claims, TypeOK, Lives
<1>3. Started'
  BY MaxIdAssumption DEF Inv, FinishNotify, Goto, NotifyAll, table, claims, TypeOK, Lives,
     Started
<1>4. Claimed'
  BY MaxIdAssumption, SMTT(30) DEF Inv, FinishNotify, Goto, NotifyAll, table, claims, TypeOK, Lives,
     Claimed, HasClaim
<1>5. Joins'
  BY MaxIdAssumption DEF Inv, FinishNotify, Goto, NotifyAll, table, claims, TypeOK, Lives,
     Claimed, HasClaim, Joins, Consumed
<1>6. NoCallbackAfterUnload'
  BY MaxIdAssumption DEF Inv, FinishNotify, Goto, NotifyAll, table, claims, TypeOK, Lives,
     Started, NoCallbackAfterUnload
<1> QED
  BY <1>1, <1>2, <1>3, <1>4, <1>5, <1>6 DEF Inv

LEMMA UnloadInv ==
  ASSUME Inv, Unload
  PROVE  Inv'
<1>1. TypeOK'
  BY MaxIdAssumption DEF Inv, Unload, Goto, table, TypeOK, Places
<1>2. Lives'
  BY MaxIdAssumption DEF Inv, Unload, Goto, table, TypeOK, Lives
<1>3. Started'
  BY MaxIdAssumption DEF Inv, Unload, Goto, table, TypeOK, Lives, Started
<1>4. Claimed'
  BY MaxIdAssumption, SMTT(30) DEF Inv, Unload, Goto, table, TypeOK, Lives, Claimed, HasClaim
<1>5. Joins'
  BY MaxIdAssumption DEF Inv, Unload, Goto, table, TypeOK, Lives, Claimed, HasClaim, Joins,
     Consumed
<1>6. NoCallbackAfterUnload'
  BY MaxIdAssumption DEF Inv, Unload, Goto, table, TypeOK, Lives, Started,
     NoCallbackAfterUnload
<1> QED
  BY <1>1, <1>2, <1>3, <1>4, <1>5, <1>6 DEF Inv

(* With no row in the table nobody runs: the running child with the least   *)
(* id would have a spawner that runs and has a smaller one.                 *)
LEMMA NobodyRuns ==
  ASSUME TypeOK, Lives, Started, Joins, Rows = {}, pc[Main] = "barrier"
  PROVE  \A h \in Handles : child[h] \in {"unborn", "exited"} /\ row[h] \in {"none", "gone"}
<1>1. \A h \in Handles : row[h] \in {"none", "gone"}
  BY DEF TypeOK, Rows
<1> DEFINE Hidden == {h \in Handles : child[h] # "unborn" /\ row[h] = "none"}
<1>2. \A h \in Hidden : \E g \in Hidden : g < h
  <2> TAKE h \in Hidden
  <2>1. PICK a \in Actors : spawning[a] = h
    BY DEF Started
  <2>2. a < h /\ pc[a] \in {"run", "destroying"}
    BY <2>1, MaxIdAssumption DEF Started
  <2>3. a \in Handles
    BY <2>2, MaxIdAssumption
  <2>4. child[a] = "running"
    BY <2>2, <2>3 DEF Lives, TypeOK
  <2>5. row[a] = "none"
    BY <1>1, <2>3, <2>4 DEF Joins, Consumed
  <2> QED
    BY <2>2, <2>3, <2>4, <2>5
<1>3. Hidden = {}
  <2> SUFFICES ASSUME Hidden # {} PROVE FALSE
    OBVIOUS
  <2>1. Hidden \subseteq Nat
    BY MaxIdAssumption
  <2> HIDE DEF Hidden
  <2>2. PICK h \in Hidden : \A g \in Hidden : ~(<<g, h>> \in OpToRel(<, Nat))
    BY <2>1, NatLessThanWellFounded, WFMin, Zenon
  <2>3. \A g \in Hidden : ~(g < h)
    BY <2>1, <2>2, Zenon DEF OpToRel
  <2> QED
    BY <1>2, <2>3
<1> QED
  BY <1>1, <1>3 DEF TypeOK, Joins, Consumed

LEMMA BarrierInv ==
  ASSUME Inv, Barrier
  PROVE  Inv'
<1>1. TypeOK /\ Lives /\ Started /\ Claimed /\ Joins /\ NoCallbackAfterUnload
  BY DEF Inv
<1>2. /\ pc[Main] = "barrier"
      /\ UNCHANGED <<next_id, finished, child, result, arg, op, spawning>>
  BY DEF Barrier
<1>3. CASE \E h \in Rows : row[h] = "claimed" \/ h \notin finished
  <2>1. /\ UNCHANGED <<row, batch>> /\ signalled' = FALSE
        /\ pc' = [pc EXCEPT ![Main] = "barrier_wait"]
    BY <1>3, <1>1, <1>2 DEF Barrier, Goto
  <2>2. TypeOK'
    BY <1>3, <1>1, <1>2, <2>1, Zenon DEF TypeOK, Places
  <2>3. Lives'
    BY <1>3, <1>1, <1>2, <2>1 DEF TypeOK, Lives
  <2>4. Started'
    BY <1>3, <1>1, <1>2, <2>1, SMTT(30) DEF TypeOK, Lives, Started
  <2>5. Claimed'
    BY <1>3, <1>1, <1>2, <2>1, SMTT(30) DEF TypeOK, Lives, Claimed, HasClaim
  <2>6. Joins'
    BY <1>3, <1>1, <1>2, <2>1 DEF TypeOK, Lives, Claimed, HasClaim, Joins, Consumed
  <2>7. NoCallbackAfterUnload'
    BY <1>3, <1>1, <1>2, <2>1 DEF TypeOK, Lives, Started, NoCallbackAfterUnload
  <2> QED
    BY <2>2, <2>3, <2>4, <2>5, <2>6, <2>7 DEF Inv
<1>4. CASE Rows # {} /\ ~\E h \in Rows : row[h] = "claimed" \/ h \notin finished
  <2>1. /\ row' = [h \in Handles |-> IF h \in Rows THEN "claimed" ELSE row[h]]
        /\ batch' = Rows /\ UNCHANGED signalled
        /\ pc' = [pc EXCEPT ![Main] = "batch"]
    BY <1>4, <1>1, <1>2 DEF Barrier, Goto
  <2>2. TypeOK'
    BY <1>4, <1>1, <1>2, <2>1 DEF Rows, TypeOK, Places
  <2>3. Lives'
    BY <1>4, <1>1, <1>2, <2>1, Zenon DEF Rows, TypeOK, Lives
  <2>4. Started'
    <3>1. \A h \in Handles : row'[h] = "none" <=> row[h] = "none"
      BY <2>1 DEF Rows
    <3> QED
      BY <1>1, <1>2, <2>1, <3>1 DEF TypeOK, Started
  <2>5. Claimed'
    BY <1>4, <1>1, <1>2, <2>1, SMTT(30) DEF Rows, TypeOK, Lives, Claimed, HasClaim
  <2>6. Joins'
    BY <1>4, <1>1, <1>2, <2>1 DEF Rows, TypeOK, Lives, Claimed, HasClaim, Joins, Consumed
  <2>7. NoCallbackAfterUnload'
    BY <1>4, <1>1, <1>2, <2>1, ZenonT(30) DEF Rows, TypeOK, Lives, Started, NoCallbackAfterUnload
  <2> QED
    BY <2>2, <2>3, <2>4, <2>5, <2>6, <2>7 DEF Inv
<1>5. CASE Rows = {}
  <2>1. /\ row' = [h \in Handles |-> row[h]]
        /\ batch' = {} /\ UNCHANGED signalled
        /\ pc' = [pc EXCEPT ![Main] = "unloaded"]
    BY <1>5, <1>1, <1>2 DEF Barrier, Goto
  <2>2. TypeOK'
    BY <1>5, <1>1, <1>2, <2>1 DEF Rows, TypeOK, Places
  <2>3. Lives'
    BY <1>5, <1>1, <1>2, <2>1, Zenon DEF Rows, TypeOK, Lives
  <2>4. Started'
    BY <1>5, <1>1, <1>2, <2>1, SMTT(30) DEF Rows, TypeOK, Lives, Started
  <2>5. Claimed'
    BY <1>5, <1>1, <1>2, <2>1, SMTT(30) DEF Rows, TypeOK, Lives, Claimed, HasClaim
  <2>6. Joins'
    BY <1>5, <1>1, <1>2, <2>1 DEF Rows, TypeOK, Lives, Claimed, HasClaim, Joins, Consumed
  <2>7. NoCallbackAfterUnload'
    <3>1. \A h \in Handles : child[h] \in {"unborn", "exited"} /\ row[h] \in {"none", "gone"}
      BY <1>5, <1>1, <1>2, NobodyRuns, ZenonT(30)
    <3> QED
      BY <3>1, <1>1, <1>2, <2>1 DEF TypeOK, Lives, NoCallbackAfterUnload
  <2> QED
    BY <2>2, <2>3, <2>4, <2>5, <2>6, <2>7 DEF Inv
<1> QED
  BY <1>3, <1>4, <1>5

LEMMA BarrierWakesInv ==
  ASSUME Inv, BarrierWakes
  PROVE  Inv'
<1>1. TypeOK'
  BY MaxIdAssumption DEF Inv, BarrierWakes, Goto, table, claims, TypeOK, Places
<1>2. Lives'
  BY MaxIdAssumption DEF Inv, BarrierWakes, Goto, table, claims, TypeOK, Lives
<1>3. Started'
  BY MaxIdAssumption, SMTT(30) DEF Inv, BarrierWakes, Goto, table, claims, TypeOK, Lives, Started
<1>4. Claimed'
  BY MaxIdAssumption, SMTT(30) DEF Inv, BarrierWakes, Goto, table, claims, TypeOK, Lives, Claimed,
     HasClaim
<1>5. Joins'
  BY MaxIdAssumption DEF Inv, BarrierWakes, Goto, table, claims, TypeOK, Lives, Claimed,
     HasClaim, Joins, Consumed
<1>6. NoCallbackAfterUnload'
  BY MaxIdAssumption DEF Inv, BarrierWakes, Goto, table, claims, TypeOK, Lives, Started,
     NoCallbackAfterUnload
<1> QED
  BY <1>1, <1>2, <1>3, <1>4, <1>5, <1>6 DEF Inv

LEMMA JoinBatchInv ==
  ASSUME Inv, JoinBatch
  PROVE  Inv'
<1>1. TypeOK /\ Lives /\ Started /\ Claimed /\ Joins /\ NoCallbackAfterUnload
  BY DEF Inv
<1>2. /\ pc[Main] = "batch"
      /\ UNCHANGED <<next_id, row, finished, child, result, op, spawning, signalled>>
  BY DEF JoinBatch, table
<1>3. CASE batch = {}
  <2>1. UNCHANGED <<arg, batch>> /\ pc' = [pc EXCEPT ![Main] = "barrier"]
    BY <1>3, <1>1, <1>2 DEF JoinBatch, Goto
  <2>2. TypeOK'
    BY <1>3, <1>1, <1>2, <2>1 DEF TypeOK, Places
  <2>3. Lives'
    BY <1>3, <1>1, <1>2, <2>1, ZenonT(30) DEF TypeOK, Lives
  <2>4. Started'
    BY <1>3, <1>1, <1>2, <2>1, SMTT(30) DEF TypeOK, Lives, Started
  <2>5. Claimed'
    BY <1>3, <1>1, <1>2, <2>1, SMTT(30) DEF TypeOK, Lives, Claimed, HasClaim
  <2>6. Joins'
    BY <1>3, <1>1, <1>2, <2>1 DEF TypeOK, Lives, Claimed, HasClaim, Joins, Consumed
  <2>7. NoCallbackAfterUnload'
    BY <1>3, <1>1, <1>2, <2>1 DEF TypeOK, Lives, Started, NoCallbackAfterUnload
  <2> QED
    BY <2>2, <2>3, <2>4, <2>5, <2>6, <2>7 DEF Inv
<1>4. CASE batch # {}
  <2>1. \E h \in batch : /\ batch' = batch \ {h} /\ arg' = [arg EXCEPT ![Main] = h]
                         /\ pc' = [pc EXCEPT ![Main] = "joining"]
    BY <1>4, <1>1, <1>2 DEF JoinBatch, Goto
  <2>2. TypeOK'
    BY <1>4, <1>1, <1>2, <2>1 DEF TypeOK, Places
  <2>3. Lives'
    BY <1>4, <1>1, <1>2, <2>1, ZenonT(57) DEF TypeOK, Lives
  <2>4. Started'
    BY <1>4, <1>1, <1>2, <2>1 DEF TypeOK, Lives, Started
  <2>5. Claimed'
    BY <1>4, <1>1, <1>2, <2>1 DEF TypeOK, Lives, Claimed, HasClaim
  <2>6. Joins'
    BY <1>4, <1>1, <1>2, <2>1, SMTT(30) DEF TypeOK, Lives, Claimed, HasClaim, Joins, Consumed
  <2>7. NoCallbackAfterUnload'
    BY <1>4, <1>1, <1>2, <2>1 DEF TypeOK, Lives, Started, NoCallbackAfterUnload
  <2> QED
    BY <2>2, <2>3, <2>4, <2>5, <2>6, <2>7 DEF Inv
<1> QED
  BY <1>3, <1>4

LEMMA InitInv ==
  ASSUME Init
  PROVE  Inv
<1>1. TypeOK
  <2>1. next_id \in Nat \ {0} /\ 0 \in Actors
    BY DEF Init
  <2> QED
    BY <2>1, Zenon DEF Init, TypeOK, Places
<1>2. ASSUME NEW h \in Handles PROVE pc[h] = "idle"
  <2>1. h \in Actors /\ h # Main
    BY MaxIdAssumption
  <2> QED
    BY <2>1, Zenon DEF Init
<1>3. Lives
  BY <1>2 DEF Init, Lives
<1>4. Started
  BY DEF Init, Started
<1>5. Claimed
  BY DEF Init, Claimed, HasClaim
<1>6. Joins /\ NoCallbackAfterUnload
  BY DEF Init, Joins, NoCallbackAfterUnload
<1> QED
  BY <1>1, <1>3, <1>4, <1>5, <1>6 DEF Inv

LEMMA ActInv ==
  ASSUME NEW a \in Actors, Inv, Act(a)
  PROVE  Inv'
<1>1. CASE Spawn(a)
  BY <1>1, SpawnInv
<1>2. CASE SpawnFails(a)
  BY <1>2, SpawnFailsInv
<1>3. CASE Insert(a)
  BY <1>3, InsertInv
<1>4. CASE Claim(a)
  BY <1>4, ClaimInv
<1>5. CASE ClaimNotify(a)
  BY <1>5, ClaimNotifyInv
<1>6. CASE Joined(a)
  BY <1>6, JoinedInv
<1>7. CASE Destroyed(a)
  BY <1>7, DestroyedInv
<1>8. CASE FinishClaim(a)
  BY <1>8, FinishClaimInv
<1>9. CASE FinishNotify(a)
  BY <1>9, FinishNotifyInv
<1>10. ASSUME NEW h \in Handles, NEW o \in {"join", "drop"}, Call(a, h, o) PROVE Inv'
  BY <1>10, CallInv
<1> QED
  BY <1>1, <1>2, <1>3, <1>4, <1>5, <1>6, <1>7, <1>8, <1>9, <1>10, Zenon DEF Act

LEMMA NextInv ==
  ASSUME Inv, [Next]_vars
  PROVE  Inv'
<1>1. CASE MainStep
  BY <1>1, ActInv, UnloadInv, BarrierInv, BarrierWakesInv, JoinBatchInv DEF MainStep
<1>2. ASSUME NEW h \in Handles, ChildStep(h) PROVE Inv'
  BY <1>2, ActInv, ReturnInv, CompleteInv, ZenonT(30) DEF ChildStep
<1>3. CASE UNCHANGED vars
  BY <1>3 DEF vars, Inv, TypeOK, Lives, Started, Claimed, HasClaim, Joins, Consumed,
     NoCallbackAfterUnload
<1> QED
  BY <1>1, <1>2, <1>3 DEF Next, Unloaded

(* A claimed row has one claimant and any other row none. *)
LEMMA CountClaimants ==
  ASSUME Inv
  PROVE  OneClaimant
<1> SUFFICES ASSUME NEW h \in Handles
             PROVE  /\ Cardinality(Claimants(h)) + (IF h \in batch THEN 1 ELSE 0)
                         = IF row[h] = "claimed" THEN 1 ELSE 0
                    /\ row[h] = "gone" =>
                         child[h] = "exited" /\ result[h] \in {"taken", "destroyed", "none"}
  BY DEF OneClaimant
<1>1. \A a \in Actors : a \in Claimants(h) <=> HasClaim(a) /\ arg[a] = h
  BY DEF Claimants, HasClaim
<1>2. Claimants(h) \subseteq Actors
  BY DEF Claimants
<1>3. row[h] = "gone" => child[h] = "exited" /\ result[h] \in {"taken", "destroyed", "none"}
  BY DEF Inv, Joins, Consumed
<1>4. CASE row[h] = "claimed" /\ h \in batch
  <2>1. Claimants(h) = {}
    BY <1>1, <1>2, <1>4 DEF Inv, Claimed
  <2> QED
    BY <1>4, <2>1, FS_EmptySet, SMTT(30)
<1>5. CASE row[h] = "claimed" /\ h \notin batch
  <2>1. PICK a \in Actors : HasClaim(a) /\ arg[a] = h
    BY <1>5 DEF Inv, Claimed
  <2>2. Claimants(h) = {a}
    BY <1>1, <1>2, <2>1 DEF Inv, Claimed
  <2>3. Cardinality(Claimants(h)) = 1
    BY <2>2, FS_Singleton, Zenon
  <2> QED
    BY <1>5, <2>3
<1>6. CASE row[h] # "claimed"
  <2>1. Claimants(h) = {} /\ h \notin batch
    BY <1>1, <1>2, <1>6 DEF Inv, Claimed
  <2>2. Cardinality(Claimants(h)) = 0
    BY <2>1, FS_EmptySet
  <2> QED
    BY <1>6, <1>3, <2>1, <2>2
<1> QED
  BY <1>4, <1>5, <1>6

LEMMA NativeThreadInvariant == Spec => []Inv
<1>1. Init => Inv
  BY InitInv
<1>2. Inv /\ [Next]_vars => Inv'
  BY NextInv
<1> QED
  BY <1>1, <1>2, PTL DEF Spec

(* join_module_threads returns only when no child of the module runs and    *)
(* none is being started, however many there are and whoever spawned them.  *)
THEOREM UnloadedIsQuiet == Spec => []NoCallbackAfterUnload
<1>1. Inv => NoCallbackAfterUnload
  BY DEF Inv
<1> QED
  BY <1>1, NativeThreadInvariant, PTL

(* claim_thread gives a thread to one join, drop or barrier, and its row    *)
(* goes only after the join and the disposal of its result.                 *)
THEOREM ClaimedOnce == Spec => []OneClaimant
<1>1. Inv => OneClaimant
  BY CountClaimants
<1> QED
  BY <1>1, NativeThreadInvariant, PTL
=============================================================================
