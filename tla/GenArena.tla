------------------------------ MODULE GenArena ------------------------------
(***************************************************************************)
(* The generational arenas of arandu_runtime/src/genref.rs: a registry of  *)
(* arenas, each with value slots.  Slots of both levels are reused with a  *)
(* higher generation and retired when the generation is used up.           *)
(*                                                                         *)
(* A Vec is a length and a function on all its possible indices.  Values   *)
(* are left out: a handle stands for the value it was issued for.  `memory`*)
(* says whether the allocation of a step succeeds.                         *)
(***************************************************************************)
EXTENDS Naturals, Sequences, FiniteSets

CONSTANTS
  ArenaCap,   \* the most arena slots u32 indexes (2^32 in the code)
  SlotCap,    \* the most value slots of one arena
  Limit,      \* generation_limit
  MaxIssued   \* bound: no more arenas are created and no more values inserted

ASSUME GenArenaAssumption ==
  /\ ArenaCap \in Nat \ {0} /\ SlotCap \in Nat \ {0}
  /\ Limit \in Nat \ {0}
  /\ MaxIssued \in Nat

ArenaIdx   == 0 .. ArenaCap - 1
SlotIdx    == 0 .. SlotCap - 1
Generation == 0 .. Limit

ArenaId == [slot : ArenaIdx, generation : Generation]
GenRef  == [arena : ArenaId, slot : SlotIdx, generation : Generation]

InvalidArena  == [slot |-> 0, generation |-> 0]
InvalidHandle == [arena |-> InvalidArena, slot |-> 0, generation |-> 0]

VARIABLES
  arenas,        \* the length of the registry's Vec of arena slots
  agen, astate,  \* their generations, and "vacant", "live" or "retired"
  afree,         \* the registry's stack of vacant arena slots
  slots,         \* per arena slot: the length of its Vec of value slots
  vgen, vstate,  \* their generations, and "vacant", "occupied" or "retired"
  vfree,         \* per arena slot: the stack of vacant value slots
  created,       \* every arena identity ever returned
  issued,        \* every handle ever returned
  result         \* the result of the last operation

arenaVars == <<arenas, agen, astate, afree>>
slotVars  == <<slots, vgen, vstate, vfree>>
state     == <<arenaVars, slotVars>>
vars      == <<state, created, issued, result>>

Init ==
  /\ arenas = 0
  /\ agen = [i \in ArenaIdx |-> 0]
  /\ astate = [i \in ArenaIdx |-> "vacant"]
  /\ afree = <<>>
  /\ slots = [i \in ArenaIdx |-> 0]
  /\ vgen = [i \in ArenaIdx |-> [j \in SlotIdx |-> 0]]
  /\ vstate = [i \in ArenaIdx |-> [j \in SlotIdx |-> "vacant"]]
  /\ vfree = [i \in ArenaIdx |-> <<>>]
  /\ created = {}
  /\ issued = {}
  /\ result = "ok"

Top(stack)    == stack[Len(stack)]
Popped(stack) == SubSeq(stack, 1, Len(stack) - 1)

Fail(error) ==
  /\ result' = error
  /\ UNCHANGED <<state, created, issued>>

(* Registry::arena and arena_mut *)
ArenaLive(id) ==
  /\ id.slot < arenas
  /\ agen[id.slot] = id.generation
  /\ astate[id.slot] = "live"

(* Arena::get and get_mut once the arena is found *)
SlotLive(h) ==
  /\ h.slot < slots[h.arena.slot]
  /\ vgen[h.arena.slot][h.slot] = h.generation
  /\ vstate[h.arena.slot][h.slot] = "occupied"

(* Registry::get and get_mut: what a lookup of h in arena id answers.       *)
Lookup(id, h) ==
  IF id = InvalidArena \/ h = InvalidHandle THEN "invalid"
  ELSE IF h.arena # id THEN "wrong_arena"
  ELSE IF ~ArenaLive(id) THEN "arena_gone"
  ELSE IF ~SlotLive(h) THEN "stale"
  ELSE "ok"

(* A live arena with no slots, Arena::new, at index i in generation g. *)
StartArena(i, g) ==
  /\ Cardinality(created) < MaxIssued
  /\ agen' = [agen EXCEPT ![i] = g]
  /\ astate' = [astate EXCEPT ![i] = "live"]
  /\ slots' = [slots EXCEPT ![i] = 0]
  /\ vgen' = [vgen EXCEPT ![i] = [j \in SlotIdx |-> 0]]
  /\ vstate' = [vstate EXCEPT ![i] = [j \in SlotIdx |-> "vacant"]]
  /\ vfree' = [vfree EXCEPT ![i] = <<>>]
  /\ created' = created \union {[slot |-> i, generation |-> g]}
  /\ result' = "ok"
  /\ UNCHANGED issued

(* create_arena on a vacant slot: it is popped before its generation is     *)
(* computed.                                                                *)
ReuseArena ==
  /\ afree # <<>>
  /\ afree' = Popped(afree)
  /\ UNCHANGED arenas
  /\ LET i == Top(afree) IN
       IF agen[i] < Limit
         THEN StartArena(i, agen[i] + 1)
         ELSE /\ result' = "capacity"
              /\ UNCHANGED <<agen, astate, slotVars, created, issued>>

(* create_arena at the end of the Vec. *)
PushArena(memory) ==
  /\ afree = <<>>
  /\ IF arenas = ArenaCap THEN Fail("capacity")
     ELSE IF ~memory THEN Fail("alloc_failed")
     ELSE /\ arenas' = arenas + 1
          /\ StartArena(arenas, 1)
          /\ UNCHANGED afree

(* The value slot j of arena id is filled in generation g. *)
FillSlot(id, j, g) ==
  /\ Cardinality(issued) < MaxIssued
  /\ vgen' = [vgen EXCEPT ![id.slot][j] = g]
  /\ vstate' = [vstate EXCEPT ![id.slot][j] = "occupied"]
  /\ issued' = issued \union {[arena |-> id, slot |-> j, generation |-> g]}
  /\ result' = "ok"
  /\ UNCHANGED <<arenaVars, created>>

(* Mutant: a reused slot keeps its generation. *)
InsertReuseSameGeneration(id) ==
  /\ ArenaLive(id)
  /\ vfree[id.slot] # <<>>
  /\ vfree' = [vfree EXCEPT ![id.slot] = Popped(@)]
  /\ LET j == Top(vfree[id.slot]) IN FillSlot(id, j, vgen[id.slot][j])
  /\ UNCHANGED slots

(* Arena::insert on a vacant slot. *)
InsertReuse(id) ==
  /\ ArenaLive(id)
  /\ vfree[id.slot] # <<>>
  /\ vfree' = [vfree EXCEPT ![id.slot] = Popped(@)]
  /\ UNCHANGED slots
  /\ LET j == Top(vfree[id.slot]) IN
       IF vgen[id.slot][j] < Limit
         THEN FillSlot(id, j, vgen[id.slot][j] + 1)
         ELSE /\ result' = "capacity"
              /\ UNCHANGED <<arenaVars, vgen, vstate, created, issued>>

(* Arena::insert at the end of the Vec. *)
InsertPush(id, memory) ==
  /\ ArenaLive(id)
  /\ vfree[id.slot] = <<>>
  /\ IF slots[id.slot] = SlotCap THEN Fail("capacity")
     ELSE IF ~memory THEN Fail("alloc_failed")
     ELSE /\ slots' = [slots EXCEPT ![id.slot] = @ + 1]
          /\ FillSlot(id, slots[id.slot], 1)
          /\ UNCHANGED vfree

InsertGone(id) ==
  /\ ~ArenaLive(id)
  /\ Fail("arena_gone")

(* Mutant: an exhausted slot is offered for reuse as well. *)
RemoveNoRetire(id, h, memory) ==
  IF Lookup(id, h) # "ok" THEN Fail(Lookup(id, h))
  ELSE IF ~memory THEN Fail("alloc_failed")
  ELSE /\ vstate' = [vstate EXCEPT ![id.slot][h.slot] = "vacant"]
       /\ vfree' = [vfree EXCEPT ![id.slot] = Append(@, h.slot)]
       /\ result' = "ok"
       /\ UNCHANGED <<arenaVars, slots, vgen, created, issued>>

(* Registry::remove *)
Remove(id, h, memory) ==
  LET retire == h.generation = Limit IN
  IF Lookup(id, h) # "ok" THEN Fail(Lookup(id, h))
  ELSE IF ~retire /\ ~memory THEN Fail("alloc_failed")
  ELSE /\ vstate' = [vstate EXCEPT ![id.slot][h.slot] = IF retire THEN "retired" ELSE "vacant"]
       /\ vfree' = [vfree EXCEPT ![id.slot] = IF retire THEN @ ELSE Append(@, h.slot)]
       /\ result' = "ok"
       /\ UNCHANGED <<arenaVars, slots, vgen, created, issued>>

(* Registry::destroy_arena *)
DestroyArena(id, memory) ==
  LET retire == id.generation = Limit IN
  IF ~ArenaLive(id) THEN Fail("arena_gone")
  ELSE IF ~retire /\ ~memory THEN Fail("alloc_failed")
  ELSE /\ astate' = [astate EXCEPT ![id.slot] = IF retire THEN "retired" ELSE "vacant"]
       /\ afree' = IF retire THEN afree ELSE Append(afree, id.slot)
       /\ result' = "ok"
       /\ UNCHANGED <<arenas, agen, slotVars, created, issued>>

(* The identities and handles a program can pass: those it was given, at    *)
(* any later time, and the reserved invalid ones.                           *)
KnownArenas  == created \union {InvalidArena}
KnownHandles == issued \union {InvalidHandle}

Next ==
  \/ ReuseArena
  \/ \E memory \in BOOLEAN : PushArena(memory)
  \/ \E id \in KnownArenas : InsertReuse(id) \/ InsertGone(id)
  \/ \E id \in KnownArenas, memory \in BOOLEAN : InsertPush(id, memory)
  \/ \E id \in KnownArenas, h \in KnownHandles, memory \in BOOLEAN : Remove(id, h, memory)
  \/ \E id \in KnownArenas, memory \in BOOLEAN : DestroyArena(id, memory)

Spec == Init /\ [][Next]_vars
----------------------------------------------------------------------------
OnceIn(x, stack) ==
  \E k \in DOMAIN stack : stack[k] = x /\ \A l \in DOMAIN stack : stack[l] = x => l = k

(* No slot is lost and none is offered twice: at both levels the free stack *)
(* holds each vacant slot once, and nothing else; a slot is retired only    *)
(* when its generations are used up, and a vacant one has one left.         *)
NoSlotLost ==
  /\ \A i \in 0 .. arenas - 1 :
       /\ astate[i] = "vacant" => OnceIn(i, afree) /\ agen[i] < Limit
       /\ astate[i] = "retired" => agen[i] = Limit
  /\ \A k \in DOMAIN afree : afree[k] < arenas /\ astate[afree[k]] = "vacant"
  /\ \A i \in 0 .. arenas - 1 : astate[i] = "live" =>
       /\ \A j \in 0 .. slots[i] - 1 :
            /\ vstate[i][j] = "vacant" => OnceIn(j, vfree[i]) /\ vgen[i][j] < Limit
            /\ vstate[i][j] = "retired" => vgen[i][j] = Limit
       /\ \A k \in DOMAIN vfree[i] :
            vfree[i][k] < slots[i] /\ vstate[i][vfree[i][k]] = "vacant"

ArenaOf(h) == h.arena

(* The handles that resolve, whoever made them. *)
Alive == {h \in GenRef : Lookup(h.arena, h) = "ok"}

H == INSTANCE HandleSet WITH Handle <- GenRef, alive <- Alive

(* A handle is issued once, resolves from its insertion until its value is  *)
(* removed or its arena destroyed, and is stale for ever afterwards, through *)
(* every reuse of its slot and of its arena's slot.                         *)
ImplementsHandleSet == H!Spec
=============================================================================
