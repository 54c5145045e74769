--------------------------- MODULE GenArenaProofs ---------------------------
(***************************************************************************)
(* For every number of arenas and slots and every generation limit: no     *)
(* slot of either level is lost or offered twice, and the arenas implement *)
(* HandleSet, so that a handle never resolves again once it is stale.      *)
(*                                                                         *)
(* Both levels keep their free slots in the same way, which is StackOK;    *)
(* Known relates the handles ever returned to the generations, so that the *)
(* next one is new.                                                        *)
(***************************************************************************)
EXTENDS GenArena, TLAPS

(* The n slots of a Vec, with their states and generations, and its stack. *)
StackOK(n, st, gen, stack) ==
  /\ \A i \in 0 .. n - 1 :
       /\ st[i] = "vacant" => OnceIn(i, stack) /\ gen[i] < Limit
       /\ st[i] = "retired" => gen[i] = Limit
  /\ \A k \in DOMAIN stack : stack[k] < n /\ st[stack[k]] = "vacant"

States == {"vacant", "live", "occupied", "retired"}

TypeOK ==
  /\ arenas \in 0 .. ArenaCap
  /\ agen \in [ArenaIdx -> Generation] /\ astate \in [ArenaIdx -> States]
  /\ afree \in Seq(ArenaIdx)
  /\ slots \in [ArenaIdx -> 0 .. SlotCap]
  /\ vgen \in [ArenaIdx -> [SlotIdx -> Generation]]
  /\ vstate \in [ArenaIdx -> [SlotIdx -> States]]
  /\ vfree \in [ArenaIdx -> Seq(SlotIdx)]
  /\ created \subseteq ArenaId /\ issued \subseteq GenRef

(* Whatever was returned has a generation that its slot has reached, and a  *)
(* handle of the arena's present generation one that its own slot has.      *)
Known ==
  /\ \A a \in created : a.slot < arenas /\ 0 < a.generation /\ a.generation <= agen[a.slot]
  /\ \A h \in issued :
       /\ h.arena \in created /\ 0 < h.generation
       /\ h.arena.generation = agen[h.arena.slot] =>
            /\ h.slot < slots[h.arena.slot]
            /\ h.generation <= vgen[h.arena.slot][h.slot]

(* A slot that was used has a generation; 0 is the invalid one's. *)
Used ==
  /\ \A i \in 0 .. arenas - 1 : 0 < agen[i]
  /\ \A i \in 0 .. arenas - 1 : \A j \in 0 .. slots[i] - 1 : 0 < vgen[i][j]

Inv == TypeOK /\ Known /\ Used /\ NoSlotLost

----------------------------------------------------------------------------
(* Stacks *)

LEMMA PopFacts ==
  ASSUME NEW S, NEW s \in Seq(S), s # <<>>
  PROVE  /\ Len(s) \in DOMAIN s /\ Top(s) = s[Len(s)] /\ Top(s) \in S
         /\ Popped(s) \in Seq(S)
         /\ DOMAIN Popped(s) = DOMAIN s \ {Len(s)}
         /\ \A k \in DOMAIN Popped(s) : Popped(s)[k] = s[k]
BY DEF Top, Popped

LEMMA PushFacts ==
  ASSUME NEW S, NEW s \in Seq(S), NEW x \in S
  PROVE  /\ Append(s, x) \in Seq(S)
         /\ DOMAIN Append(s, x) = DOMAIN s \union {Len(s) + 1} /\ Len(s) + 1 \notin DOMAIN s
         /\ Append(s, x)[Len(s) + 1] = x
         /\ \A k \in DOMAIN s : Append(s, x)[k] = s[k]
OBVIOUS

(* A vacant slot is taken from the stack and filled. *)
LEMMA StackPop ==
  ASSUME NEW n \in Nat, NEW I \in SUBSET Nat, 0 .. n - 1 \subseteq I,
         NEW st \in [I -> States], NEW gen \in [I -> Generation],
         NEW s \in Seq(I), s # <<>>, StackOK(n, st, gen, s),
         NEW o \in States \ {"vacant", "retired"}, NEW g \in Generation
  PROVE  /\ Top(s) \in 0 .. n - 1 /\ st[Top(s)] = "vacant" /\ gen[Top(s)] < Limit
         /\ Popped(s) \in Seq(I)
         /\ StackOK(n, [st EXCEPT ![Top(s)] = o], [gen EXCEPT ![Top(s)] = g], Popped(s))
<1>1. /\ Len(s) \in DOMAIN s /\ Top(s) = s[Len(s)] /\ Top(s) \in I
      /\ Popped(s) \in Seq(I)
      /\ DOMAIN Popped(s) = DOMAIN s \ {Len(s)}
      /\ \A k \in DOMAIN Popped(s) : Popped(s)[k] = s[k]
  BY PopFacts, Zenon
<1> DEFINE t == Top(s)
<1>2. t \in 0 .. n - 1 /\ st[t] = "vacant" /\ gen[t] < Limit /\ OnceIn(t, s)
  <2>1. t \in Nat /\ t < n /\ st[t] = "vacant"
    BY <1>1, Zenon DEF StackOK
  <2> HIDE DEF t
  <2> QED
    BY <2>1 DEF StackOK
<1> HIDE DEF t
<1>3. /\ \A i \in I : [st EXCEPT ![t] = o][i] = IF i = t THEN o ELSE st[i]
      /\ \A i \in I : [gen EXCEPT ![t] = g][i] = IF i = t THEN g ELSE gen[i]
  BY <1>2
<1>4. \A k \in DOMAIN Popped(s) : Popped(s)[k] # t
  BY <1>1, <1>2 DEF OnceIn, t
<1>5. \A i \in 0 .. n - 1 : i # t /\ OnceIn(i, s) => OnceIn(i, Popped(s))
  BY <1>1 DEF OnceIn, t
<1>6. StackOK(n, [st EXCEPT ![t] = o], [gen EXCEPT ![t] = g], Popped(s))
  BY <1>1, <1>3, <1>4, <1>5 DEF StackOK
<1> QED
  BY <1>1, <1>2, <1>6 DEF t

(* The Vec grows; with an empty stack nothing is vacant. *)
LEMMA StackGrow ==
  ASSUME NEW n \in Nat, NEW I, 0 .. n \subseteq I,
         NEW st \in [I -> States], NEW gen \in [I -> Generation],
         StackOK(n, st, gen, <<>>),
         NEW o \in States \ {"vacant", "retired"}, NEW g \in Generation
  PROVE  StackOK(n + 1, [st EXCEPT ![n] = o], [gen EXCEPT ![n] = g], <<>>)
BY DEF StackOK, OnceIn

(* A slot in use is emptied and offered again, or retired. *)
LEMMA StackPush ==
  ASSUME NEW n \in Nat, NEW I, 0 .. n - 1 \subseteq I,
         NEW st \in [I -> States], NEW gen \in [I -> Generation],
         NEW s \in Seq(I), StackOK(n, st, gen, s),
         NEW i \in 0 .. n - 1, st[i] # "vacant", gen[i] < Limit
  PROVE  StackOK(n, [st EXCEPT ![i] = "vacant"], gen, Append(s, i)) /\ Append(s, i) \in Seq(I)
<1>1. /\ Append(s, i) \in Seq(I)
      /\ DOMAIN Append(s, i) = DOMAIN s \union {Len(s) + 1} /\ Len(s) + 1 \notin DOMAIN s
      /\ Append(s, i)[Len(s) + 1] = i
      /\ \A k \in DOMAIN s : Append(s, i)[k] = s[k]
  BY PushFacts
<1>2. \A j \in I : [st EXCEPT ![i] = "vacant"][j] = IF j = i THEN "vacant" ELSE st[j]
  OBVIOUS
<1>3. \A k \in DOMAIN s : s[k] # i
  BY DEF StackOK
<1>4. OnceIn(i, Append(s, i)) /\ \A j \in 0 .. n - 1 : j # i /\ OnceIn(j, s) => OnceIn(j, Append(s, i))
  BY <1>1, <1>3 DEF OnceIn
<1>5. \A k \in DOMAIN s : s[k] \in I
  OBVIOUS
<1> QED
  BY <1>1, <1>2, <1>3, <1>4, <1>5 DEF StackOK

LEMMA StackRetire ==
  ASSUME NEW n \in Nat, NEW I, 0 .. n - 1 \subseteq I,
         NEW st \in [I -> States], NEW gen \in [I -> Generation],
         NEW s \in Seq(I), StackOK(n, st, gen, s),
         NEW i \in 0 .. n - 1, st[i] # "vacant", gen[i] = Limit
  PROVE  StackOK(n, [st EXCEPT ![i] = "retired"], gen, s)
<1>1. \A k \in DOMAIN s : s[k] \in I
  OBVIOUS
<1> QED
  BY <1>1 DEF StackOK

----------------------------------------------------------------------------
LEMMA Indices ==
  /\ ArenaIdx \subseteq Nat /\ SlotIdx \subseteq Nat /\ Generation \subseteq Nat
  /\ \A n \in 0 .. ArenaCap : n \in Nat /\ 0 .. n - 1 \subseteq ArenaIdx
  /\ \A n \in 0 .. SlotCap : n \in Nat /\ 0 .. n - 1 \subseteq SlotIdx
BY GenArenaAssumption DEF ArenaIdx, SlotIdx, Generation

Levels ==
  /\ StackOK(arenas, astate, agen, afree)
  /\ \A i \in 0 .. arenas - 1 : astate[i] = "live" => StackOK(slots[i], vstate[i], vgen[i], vfree[i])

LEMMA BothLevels == (NoSlotLost <=> Levels) /\ (NoSlotLost' <=> Levels')
BY DEF NoSlotLost, Levels, StackOK

(* The handles that resolve: 0 is no generation of a slot in use. *)
LEMMA AliveIs ==
  ASSUME TypeOK, Used, NEW h \in GenRef
  PROVE  h \in Alive <=> ArenaLive(h.arena) /\ SlotLive(h)
<1>1. ArenaLive(h.arena) => h.arena.generation # 0
  <2>1. h.arena.slot \in Nat /\ arenas \in Nat
    BY Indices, Zenon DEF GenRef, ArenaId, TypeOK
  <2> QED
    BY <2>1 DEF ArenaLive, Used
<1>2. InvalidArena.generation = 0 /\ InvalidHandle.arena = InvalidArena
  BY DEF InvalidArena, InvalidHandle
<1> QED
  BY <1>1, <1>2 DEF Alive, Lookup

LEMMA Below ==
  ASSUME NEW n \in Nat, NEW f, \A k \in 0 .. n - 1 : 0 < f[k]
  PROVE  \A k \in Nat : k < n => 0 < f[k] /\ f[k] # 0
OBVIOUS

LEMMA AliveNext ==
  ASSUME TypeOK', Used', NEW h \in GenRef
  PROVE  h \in Alive' <=> ArenaLive(h.arena)' /\ SlotLive(h)'
<1>1. ArenaLive(h.arena)' => h.arena.generation # 0
  <2>1. h.arena.slot \in Nat /\ arenas' \in Nat
    BY Indices, Zenon DEF GenRef, ArenaId, TypeOK
  <2>2. ArenaLive(h.arena)' => h.arena.slot < arenas' /\ h.arena.generation = agen'[h.arena.slot]
    BY DEF ArenaLive
  <2>3. \A k \in 0 .. arenas' - 1 : 0 < agen'[k]
    BY DEF Used
  <2> QED
    BY <2>1, <2>2, <2>3, Below, Zenon
<1>2. InvalidArena.generation = 0 /\ InvalidHandle.arena = InvalidArena
  BY DEF InvalidArena, InvalidHandle
<1> QED
  BY <1>1, <1>2 DEF Alive, Lookup

LEMMA GenArenaInit == Init => Inv
<1> SUFFICES ASSUME Init PROVE Inv
  OBVIOUS
<1>1. TypeOK
  BY GenArenaAssumption DEF Init, TypeOK, States, Generation
<1>2. Known /\ Used /\ NoSlotLost
  BY <1>1 DEF Init, Known, Used, NoSlotLost
<1> QED
  BY <1>1, <1>2 DEF Inv

LEMMA GenArenaStutter ==
  Inv /\ UNCHANGED <<state, created, issued>> => Inv' /\ UNCHANGED Alive
<1> SUFFICES ASSUME Inv, UNCHANGED <<state, created, issued>> PROVE Inv' /\ UNCHANGED Alive
  OBVIOUS
<1> USE DEF state, arenaVars, slotVars
<1>1. TypeOK' /\ Known'
  BY DEF Inv, TypeOK, Known
<1>2. Used' /\ NoSlotLost'
  BY DEF Inv, Used, NoSlotLost
<1>3. Alive' = Alive
  BY DEF Alive, Lookup, ArenaLive, SlotLive
<1> QED
  BY <1>1, <1>2, <1>3 DEF Inv

LEMMA Grown ==
  ASSUME NEW n \in Nat, NEW m \in Nat, NEW i \in Nat, (m = n /\ i < n) \/ (m = n + 1 /\ i = n)
  PROVE  n <= m /\ i < m /\ \A k \in 0 .. m - 1 : k = i \/ k \in 0 .. n - 1
OBVIOUS

(* A new arena at i: nothing resolved there, and nothing does yet. *)
LEMMA StartInv ==
  ASSUME Inv, NEW i \in ArenaIdx, NEW g \in Generation, 0 < g, StartArena(i, g),
         arenas' \in 0 .. ArenaCap, afree' \in Seq(ArenaIdx),
         \/ arenas' = arenas /\ i < arenas /\ astate[i] = "vacant" /\ agen[i] < g
         \/ arenas' = arenas + 1 /\ i = arenas,
         StackOK(arenas', astate', agen', afree')
  PROVE  Inv' /\ UNCHANGED <<issued, Alive>>
<1> USE DEF Inv
<1>1. /\ \A k \in ArenaIdx : agen'[k] = IF k = i THEN g ELSE agen[k]
      /\ \A k \in ArenaIdx : astate'[k] = IF k = i THEN "live" ELSE astate[k]
      /\ \A k \in ArenaIdx : slots'[k] = IF k = i THEN 0 ELSE slots[k]
      /\ \A k \in ArenaIdx : k # i => vgen'[k] = vgen[k] /\ vstate'[k] = vstate[k] /\ vfree'[k] = vfree[k]
      /\ vfree'[i] = <<>>
      /\ created' = created \union {[slot |-> i, generation |-> g]}
      /\ issued' = issued
  BY DEF StartArena, TypeOK
<1>2. TypeOK'
  <2>1. [slot |-> i, generation |-> g] \in ArenaId
    BY DEF ArenaId
  <2>2. vgen' \in [ArenaIdx -> [SlotIdx -> Generation]] /\ vstate' \in [ArenaIdx -> [SlotIdx -> States]]
    <3>1. [j \in SlotIdx |-> 0] \in [SlotIdx -> Generation] /\ [j \in SlotIdx |-> "vacant"] \in [SlotIdx -> States]
      BY GenArenaAssumption DEF Generation, States
    <3> QED
      BY <3>1 DEF StartArena, TypeOK
  <2>3. /\ agen' \in [ArenaIdx -> Generation] /\ astate' \in [ArenaIdx -> States]
        /\ slots' \in [ArenaIdx -> 0 .. SlotCap]
    BY GenArenaAssumption DEF StartArena, TypeOK, States
  <2>4. vfree' \in [ArenaIdx -> Seq(SlotIdx)]
    BY DEF StartArena, TypeOK
  <2> QED
    BY <1>1, <2>1, <2>2, <2>3, <2>4 DEF TypeOK
<1>3. \A a \in created : a \in ArenaId /\ a.slot \in ArenaIdx /\ a.generation \in Nat
  BY SMTT(60) DEF TypeOK, ArenaId, Generation
<1>4. \A k \in ArenaIdx : k \in Nat /\ agen[k] \in Nat
  BY Indices, Zenon DEF TypeOK
<1>5. /\ i \in Nat /\ g \in Nat /\ arenas \in Nat /\ arenas' \in Nat
      /\ arenas <= arenas' /\ i < arenas'
      /\ \A k \in 0 .. arenas' - 1 : k = i \/ k \in 0 .. arenas - 1
  <2>1. i \in Nat /\ g \in Nat /\ arenas \in Nat /\ arenas' \in Nat
    BY Indices DEF TypeOK
  <2>2. (arenas' = arenas /\ i < arenas) \/ (arenas' = arenas + 1 /\ i = arenas)
    OBVIOUS
  <2> QED
    BY <2>1, <2>2, Grown, Zenon
<1>6. ASSUME NEW a \in created
      PROVE  /\ a.slot < arenas' /\ 0 < a.generation /\ a.generation <= agen'[a.slot]
             /\ a.slot = i => a.generation < g
  <2>1. /\ a.slot < arenas /\ 0 < a.generation /\ a.generation <= agen[a.slot]
        /\ a.slot \in Nat /\ a.generation \in Nat /\ agen[a.slot] \in Nat
    BY <1>3, <1>4 DEF Known
  <2>2. a.slot = i => agen[i] < g
    BY <1>5, <2>1
  <2> QED
    BY <1>1, <1>3, <1>5, <2>1, <2>2, SMTT(60)
<1>7. Known'
  <2>1. \A a \in created' : a.slot < arenas' /\ 0 < a.generation /\ a.generation <= agen'[a.slot]
    BY <1>1, <1>5, <1>6
  <2>2. ASSUME NEW h \in issued, h.arena.generation = agen'[h.arena.slot] PROVE h.arena.slot # i
    BY <1>1, <1>3, <1>5, <1>6, <2>2 DEF Known
  <2> QED
    BY <1>1, <1>3, <2>1, <2>2 DEF Known
<1>8. Used'
  <2>1. ASSUME NEW k \in 0 .. arenas' - 1
        PROVE  0 < agen'[k] /\ \A j \in 0 .. slots'[k] - 1 : 0 < vgen'[k][j]
    <3>1. k \in ArenaIdx /\ (k = i \/ k \in 0 .. arenas - 1)
      <4>1. k \in ArenaIdx
        BY Indices, Zenon
      <4>2. k = i \/ k \in 0 .. arenas - 1
        BY <1>5, Zenon
      <4> QED
        BY <4>1, <4>2
    <3>2. CASE k = i
      BY <1>1, <3>2
    <3>3. CASE k # i
      BY <1>1, <3>1, <3>3 DEF Used
    <3> QED
      BY <3>2, <3>3
  <2> QED
    BY <2>1 DEF Used
<1>9. NoSlotLost'
  <2>1. StackOK(0, vstate'[i], vgen'[i], <<>>)
    BY DEF StackOK
  <2>2. ASSUME NEW k \in 0 .. arenas' - 1, astate'[k] = "live"
        PROVE  StackOK(slots'[k], vstate'[k], vgen'[k], vfree'[k])
    <3>1. k \in ArenaIdx /\ (k = i \/ k \in 0 .. arenas - 1)
      <4>1. k \in ArenaIdx
        BY Indices, Zenon
      <4>2. k = i \/ k \in 0 .. arenas - 1
        BY <1>5, Zenon
      <4> QED
        BY <4>1, <4>2
    <3>2. CASE k = i
      BY <1>1, <2>1, <3>2
    <3>3. CASE k # i
      BY <1>1, <2>2, <3>1, <3>3, BothLevels DEF Levels
    <3> QED
      BY <3>2, <3>3
  <2> QED
    BY <2>2, BothLevels, Zenon DEF Levels
<1>10. Alive' = Alive
  <2>1. ASSUME NEW h \in GenRef
        PROVE  ArenaLive(h.arena) /\ SlotLive(h) <=> ArenaLive(h.arena)' /\ SlotLive(h)'
    <3>1. h.arena.slot \in ArenaIdx /\ h.arena.slot \in Nat /\ h.slot \in Nat
      BY <1>4, GenArenaAssumption DEF GenRef, ArenaId, SlotIdx
    <3>2. CASE h.arena.slot = i
      <4>1. ~ArenaLive(h.arena) /\ ~SlotLive(h)'
        BY <1>1, <3>1, <3>2 DEF ArenaLive, SlotLive
      <4> QED
        BY <4>1
    <3>3. CASE h.arena.slot # i
      <4>1. h.arena.slot < arenas <=> h.arena.slot < arenas'
        BY <1>5, <3>1, <3>3, SMTT(30)
      <4> QED
        BY <1>1, <3>1, <3>3, <4>1, ZenonT(30) DEF ArenaLive, SlotLive
    <3> QED
      BY <3>2, <3>3
  <2>2. ASSUME NEW h \in GenRef PROVE h \in Alive <=> h \in Alive'
    BY <1>2, <1>8, <2>1, AliveIs, AliveNext
  <2> QED
    BY <2>2 DEF Alive
<1> QED
  BY <1>1, <1>2, <1>7, <1>8, <1>9, <1>10

(* A value goes into slot j of the arena: its handle is new and resolves,  *)
(* and no other handle changes, as the slot was vacant or not there.       *)
LEMMA FillInv ==
  ASSUME Inv, NEW id \in created, ArenaLive(id), NEW i \in ArenaIdx, i = id.slot,
         NEW j \in SlotIdx, NEW g \in Generation, 0 < g, FillSlot(id, j, g),
         vfree' \in [ArenaIdx -> Seq(SlotIdx)], \A k \in ArenaIdx : k # i => vfree'[k] = vfree[k],
         \/ slots' = slots /\ j < slots[i] /\ vstate[i][j] = "vacant" /\ vgen[i][j] < g
         \/ j = slots[i] /\ slots' = [slots EXCEPT ![i] = j + 1],
         StackOK(slots'[i], vstate'[i], vgen'[i], vfree'[i])
  PROVE  Inv' /\ H!Insert
<1> USE DEF Inv
<1> DEFINE new == [arena |-> id, slot |-> j, generation |-> g]
<1>1. /\ id \in ArenaId /\ i \in Nat /\ i < arenas /\ id.generation = agen[i]
      /\ astate[i] = "live" /\ arenas \in Nat /\ g \in Nat /\ j \in Nat
      /\ slots[i] \in Nat /\ vgen[i][j] \in Nat
  <2>1. id \in ArenaId /\ i < arenas /\ id.generation = agen[i] /\ astate[i] = "live"
    BY DEF TypeOK, ArenaLive
  <2>2. i \in Nat /\ arenas \in Nat /\ g \in Nat /\ j \in Nat
    BY Indices DEF TypeOK
  <2>3. slots[i] \in 0 .. SlotCap /\ vgen[i][j] \in Generation
    BY DEF TypeOK
  <2> QED
    BY <2>1, <2>2, <2>3, Indices, Zenon
<1>2. /\ vgen' = [vgen EXCEPT ![i][j] = g] /\ vstate' = [vstate EXCEPT ![i][j] = "occupied"]
      /\ issued' = issued \union {new}
      /\ UNCHANGED <<arenas, agen, astate, afree, created>>
  BY Zenon DEF FillSlot, arenaVars
<1>3. new \in GenRef /\ new.arena = id /\ new.slot = j /\ new.generation = g
  BY <1>1, ZenonT(30) DEF GenRef
<1> HIDE DEF new
<1>4. /\ \A k \in ArenaIdx : k # i => vgen'[k] = vgen[k] /\ vstate'[k] = vstate[k] /\ slots'[k] = slots[k]
      /\ \A l \in SlotIdx : vgen'[i][l] = IF l = j THEN g ELSE vgen[i][l]
      /\ \A l \in SlotIdx : vstate'[i][l] = IF l = j THEN "occupied" ELSE vstate[i][l]
      /\ slots'[i] \in Nat /\ slots[i] \in Nat /\ slots[i] <= slots'[i] /\ j < slots'[i]
      /\ \A l \in Nat : l < slots'[i] => l = j \/ l < slots[i]
  <2>1. \/ slots'[i] = slots[i] /\ j < slots[i]
        \/ slots'[i] = j + 1 /\ j = slots[i]
    BY DEF TypeOK
  <2>2. \A k \in ArenaIdx : k # i => vgen'[k] = vgen[k] /\ vstate'[k] = vstate[k] /\ slots'[k] = slots[k]
    BY <1>2, Zenon DEF TypeOK
  <2>3. /\ \A l \in SlotIdx : vgen'[i][l] = IF l = j THEN g ELSE vgen[i][l]
        /\ \A l \in SlotIdx : vstate'[i][l] = IF l = j THEN "occupied" ELSE vstate[i][l]
    BY <1>2 DEF TypeOK
  <2> QED
    BY <1>1, <2>1, <2>2, <2>3, SMTT(60)
<1>5. TypeOK'
  <2>1. vgen' \in [ArenaIdx -> [SlotIdx -> Generation]] /\ vstate' \in [ArenaIdx -> [SlotIdx -> States]]
    BY <1>1, <1>2, Zenon DEF TypeOK, States
  <2>2. slots' \in [ArenaIdx -> 0 .. SlotCap]
    <3>1. j + 1 \in 0 .. SlotCap
      BY GenArenaAssumption, SMTT(30) DEF SlotIdx
    <3> QED
      BY <3>1, Zenon DEF TypeOK
  <2> QED
    BY <1>2, <1>3, <2>1, <2>2, Zenon DEF TypeOK
<1>6. \A h \in GenRef : h.arena.slot \in ArenaIdx /\ h.slot \in SlotIdx /\ h.slot \in Nat /\ h.generation \in Nat
                        /\ h.arena \in ArenaId
  BY Indices, Zenon DEF GenRef, ArenaId
<1>7. new \notin issued
  <2>1. new \in issued => j < slots[i] /\ g <= vgen[i][j]
    BY <1>1, <1>3, Zenon DEF Known
  <2> QED
    BY <1>1, <2>1, SMTT(60)
<1>8. Known'
  <2>1. ASSUME NEW h \in issued, h.arena.generation = agen[h.arena.slot]
        PROVE  h.slot < slots'[h.arena.slot] /\ h.generation <= vgen'[h.arena.slot][h.slot]
    <3>1. /\ h \in GenRef /\ h.slot < slots[h.arena.slot]
          /\ h.generation <= vgen[h.arena.slot][h.slot]
      BY <2>1, Zenon DEF Known, TypeOK
    <3>2. CASE h.arena.slot # i
      BY <1>4, <1>6, <3>1, <3>2, ZenonT(30)
    <3>3. CASE h.arena.slot = i /\ h.slot # j
      BY <1>4, <1>6, <3>1, <3>3, SMTT(30)
    <3>4. CASE h.arena.slot = i /\ h.slot = j
      <4>1. vgen[i][j] < g
        BY <1>1, <3>1, <3>4
      <4> QED
        BY <1>1, <1>4, <1>6, <3>1, <3>4, <4>1, SMTT(30)
    <3> QED
      BY <3>2, <3>3, <3>4, Zenon
  <2>2. id \in created /\ new.slot < slots'[i] /\ new.generation <= vgen'[i][new.slot] /\ id.slot = i
    BY <1>1, <1>3, <1>4
  <2>3. \A h \in issued' : h.arena \in created /\ 0 < h.generation
    BY <1>2, <1>3, Zenon DEF Known
  <2>4. \A h \in issued' : h.arena.generation = agen[h.arena.slot] =>
          h.slot < slots'[h.arena.slot] /\ h.generation <= vgen'[h.arena.slot][h.slot]
    BY <1>2, <1>3, <2>1, <2>2, Zenon
  <2> QED
    BY <1>2, <2>3, <2>4 DEF Known
<1>9. Used'
  <2>1. ASSUME NEW k \in 0 .. arenas - 1, NEW l \in 0 .. slots'[k] - 1 PROVE 0 < vgen'[k][l]
    <3>1. k \in ArenaIdx /\ slots'[k] \in 0 .. SlotCap
      BY <1>2, <1>5, Indices, Zenon DEF TypeOK
    <3>2. l \in SlotIdx /\ l \in Nat /\ l < slots'[k] /\ slots'[k] \in Nat
      BY <3>1, Indices, SMTT(60)
    <3>3. CASE k # i
      BY <1>4, <3>1, <3>3, Zenon DEF Used
    <3>4. CASE k = i
      BY <1>4, <3>2, <3>4, SMTT(60) DEF Used
    <3> QED
      BY <3>3, <3>4, Zenon
  <2> QED
    BY <1>2, <2>1, Zenon DEF Used
<1>10. NoSlotLost'
  <2>1. ASSUME NEW k \in 0 .. arenas - 1, astate[k] = "live"
        PROVE  StackOK(slots'[k], vstate'[k], vgen'[k], vfree'[k])
    <3>1. k \in ArenaIdx
      BY Indices, Zenon DEF TypeOK
    <3>2. CASE k = i
      BY <3>2
    <3>3. CASE k # i
      BY <1>4, <2>1, <3>1, <3>3, BothLevels, ZenonT(60) DEF Levels
    <3> QED
      BY <3>2, <3>3
  <2> QED
    BY <1>2, <2>1, BothLevels, Zenon DEF Levels
<1>11. Alive' = Alive \union {new}
  <2>1. ASSUME NEW h \in GenRef
        PROVE  ArenaLive(h.arena)' /\ SlotLive(h)' <=> (ArenaLive(h.arena) /\ SlotLive(h)) \/ h = new
    <3>1. ArenaLive(h.arena)' <=> ArenaLive(h.arena)
      BY <1>2, ZenonT(30) DEF ArenaLive
    <3>2. CASE h.arena.slot # i
      BY <1>3, <1>4, <1>6, <3>1, <3>2, SMTT(60) DEF SlotLive
    <3>3. CASE h.arena.slot = i /\ h.slot # j
      BY <1>3, <1>4, <1>6, <3>1, <3>3, SMTT(60) DEF SlotLive
    <3>4. CASE h.arena.slot = i /\ h.slot = j
      <4>1. ~SlotLive(h)
        BY <1>1, <1>4, <3>4, SMTT(60) DEF SlotLive
      <4>2. SlotLive(h)' <=> h.generation = g
        BY <1>1, <1>4, <3>4, SMTT(60) DEF SlotLive
      <4>3. ArenaLive(h.arena) <=> h.arena = id
        <5>1. h.arena \in ArenaId /\ (ArenaLive(h.arena) <=> h.arena.generation = agen[i])
          BY <1>1, <1>6, <3>4, Zenon DEF ArenaLive
        <5>2. \A a, b \in ArenaId : a.slot = b.slot /\ a.generation = b.generation => a = b
          BY DEF ArenaId
        <5> QED
          BY <1>1, <3>4, <5>1, <5>2, Zenon
      <4>4. h.arena = id /\ h.generation = g => h = new
        BY <3>4, Zenon DEF GenRef, new
      <4> QED
        BY <1>3, <3>1, <4>1, <4>2, <4>3, <4>4, Zenon
    <3> QED
      BY <3>2, <3>3, <3>4
  <2>2. ASSUME NEW h \in GenRef PROVE h \in Alive' <=> h \in Alive \/ h = new
    BY <1>5, <1>9, <2>1, AliveIs, AliveNext
  <2> QED
    BY <1>3, <2>2, Zenon DEF Alive
<1> QED
  BY <1>2, <1>3, <1>5, <1>7, <1>8, <1>9, <1>10, <1>11 DEF H!Insert

----------------------------------------------------------------------------
(* One lemma per operation *)

LEMMA ReuseArenaInv == Inv /\ ReuseArena => Inv' /\ UNCHANGED <<issued, Alive>>
<1> SUFFICES ASSUME Inv, ReuseArena PROVE Inv' /\ UNCHANGED <<issued, Alive>>
  BY Zenon
<1> DEFINE i == Top(afree)
           g == agen[i] + 1
<1>1. /\ arenas \in 0 .. ArenaCap /\ agen \in [ArenaIdx -> Generation]
      /\ astate \in [ArenaIdx -> States] /\ afree \in Seq(ArenaIdx) /\ afree # <<>>
      /\ afree' = Popped(afree) /\ arenas' = arenas
      /\ StackOK(arenas, astate, agen, afree)
  BY BothLevels DEF Inv, TypeOK, Levels, ReuseArena
<1>2. arenas \in Nat /\ 0 .. arenas - 1 \subseteq ArenaIdx /\ ArenaIdx \in SUBSET Nat
  BY <1>1, Indices
<1>3. "live" \in States \ {"vacant", "retired"} /\ 0 \in Generation
  BY GenArenaAssumption DEF States, Generation
<1>4. i \in 0 .. arenas - 1 /\ astate[i] = "vacant" /\ agen[i] < Limit /\ afree' \in Seq(ArenaIdx)
  BY <1>1, <1>2, <1>3, StackPop, Zenon
<1> HIDE DEF i
<1>5. i \in ArenaIdx /\ i \in Nat /\ i < arenas /\ agen[i] \in Nat /\ g \in Generation /\ 0 < g /\ agen[i] < g
  <2>1. i \in ArenaIdx /\ i \in Nat /\ i < arenas
    BY <1>2, <1>4
  <2>2. agen[i] \in Generation
    BY <1>1, <2>1
  <2> QED
    BY <1>4, <2>1, <2>2, GenArenaAssumption DEF Generation
<1>6. StartArena(i, g)
  BY <1>4 DEF ReuseArena, i
<1>7. agen' = [agen EXCEPT ![i] = g] /\ astate' = [astate EXCEPT ![i] = "live"]
  BY <1>6 DEF StartArena
<1> HIDE DEF g
<1>8. StackOK(arenas, [astate EXCEPT ![i] = "live"], [agen EXCEPT ![i] = g], Popped(afree))
  BY <1>1, <1>2, <1>3, <1>5, StackPop, Zenon DEF i
<1>9. StackOK(arenas', astate', agen', afree')
  BY <1>1, <1>7, <1>8
<1> QED
  BY <1>1, <1>4, <1>5, <1>6, <1>9, StartInv

LEMMA PushArenaInv ==
  ASSUME Inv, NEW memory \in BOOLEAN, PushArena(memory)
  PROVE  Inv' /\ UNCHANGED <<issued, Alive>>
<1>1. CASE UNCHANGED <<state, created, issued>>
  BY <1>1, GenArenaStutter
<1>2. CASE ~UNCHANGED <<state, created, issued>>
  <2>1. arenas # ArenaCap /\ arenas' = arenas + 1 /\ StartArena(arenas, 1) /\ afree' = afree /\ afree = <<>>
    BY <1>2 DEF PushArena, Fail
  <2>2. /\ arenas \in 0 .. ArenaCap /\ agen \in [ArenaIdx -> Generation]
        /\ astate \in [ArenaIdx -> States] /\ afree \in Seq(ArenaIdx)
        /\ StackOK(arenas, astate, agen, afree)
    BY BothLevels DEF Inv, TypeOK, Levels
  <2>3. /\ arenas \in Nat /\ arenas' \in 0 .. ArenaCap /\ arenas \in ArenaIdx
        /\ 0 .. arenas \subseteq ArenaIdx /\ 1 \in Generation
    BY <2>1, <2>2, GenArenaAssumption DEF ArenaIdx, Generation
  <2>4. "live" \in States \ {"vacant", "retired"}
    BY DEF States
  <2>5. StackOK(arenas + 1, [astate EXCEPT ![arenas] = "live"], [agen EXCEPT ![arenas] = 1], <<>>)
    BY <2>1, <2>2, <2>3, <2>4, StackGrow, Zenon
  <2>6. agen' = [agen EXCEPT ![arenas] = 1] /\ astate' = [astate EXCEPT ![arenas] = "live"]
    BY <2>1 DEF StartArena
  <2>7. StackOK(arenas', astate', agen', afree')
    BY <2>1, <2>5, <2>6
  <2>8. 0 < 1
    OBVIOUS
  <2> QED
    BY <2>1, <2>2, <2>3, <2>7, <2>8, StartInv
<1> QED
  BY <1>1, <1>2

(* The invalid arena does not resolve. *)
LEMMA LiveArena ==
  ASSUME Inv, NEW id \in KnownArenas, ArenaLive(id)
  PROVE  /\ id \in created /\ id \in ArenaId /\ id.slot \in ArenaIdx /\ id.slot \in 0 .. arenas - 1
         /\ id.generation = agen[id.slot] /\ astate[id.slot] = "live"
         /\ StackOK(slots[id.slot], vstate[id.slot], vgen[id.slot], vfree[id.slot])
<1>1. id \in created
  <2>1. id = InvalidArena => id.slot = 0 /\ id.generation = 0
    BY DEF InvalidArena
  <2>2. arenas \in Nat
    BY Indices DEF Inv, TypeOK
  <2> QED
    BY <2>1, <2>2 DEF KnownArenas, ArenaLive, Inv, Used
<1>2. id \in ArenaId /\ id.slot \in ArenaIdx /\ id.slot \in Nat /\ arenas \in Nat
  BY <1>1, Indices, Zenon DEF Inv, TypeOK, ArenaId
<1>3. id.slot \in 0 .. arenas - 1 /\ id.generation = agen[id.slot] /\ astate[id.slot] = "live"
  BY <1>2 DEF ArenaLive
<1> QED
  BY <1>1, <1>2, <1>3, BothLevels DEF Inv, Levels

LEMMA ArenaParts ==
  ASSUME Inv, NEW i \in ArenaIdx
  PROVE  /\ slots[i] \in 0 .. SlotCap /\ slots[i] \in Nat /\ 0 .. slots[i] - 1 \subseteq SlotIdx
         /\ SlotIdx \in SUBSET Nat
         /\ vstate[i] \in [SlotIdx -> States] /\ vgen[i] \in [SlotIdx -> Generation]
         /\ vfree[i] \in Seq(SlotIdx)
<1>1. slots[i] \in 0 .. SlotCap /\ vstate[i] \in [SlotIdx -> States] /\ vgen[i] \in [SlotIdx -> Generation]
      /\ vfree[i] \in Seq(SlotIdx)
  BY DEF Inv, TypeOK
<1> QED
  BY <1>1, Indices

LEMMA InsertReuseInv ==
  ASSUME Inv, NEW id \in KnownArenas, InsertReuse(id)
  PROVE  Inv' /\ H!Insert
<1> DEFINE i == id.slot
           j == Top(vfree[i])
           g == vgen[i][j] + 1
<1>1. ArenaLive(id) /\ vfree[i] # <<>> /\ vfree' = [vfree EXCEPT ![i] = Popped(vfree[i])] /\ slots' = slots
  BY ZenonT(30)  DEF InsertReuse
<1>2. /\ id \in created /\ i \in ArenaIdx
      /\ StackOK(slots[i], vstate[i], vgen[i], vfree[i])
  BY <1>1, LiveArena
<1> HIDE DEF i
<1>3. /\ slots[i] \in Nat /\ 0 .. slots[i] - 1 \subseteq SlotIdx /\ SlotIdx \in SUBSET Nat
      /\ vstate[i] \in [SlotIdx -> States] /\ vgen[i] \in [SlotIdx -> Generation]
      /\ vfree[i] \in Seq(SlotIdx)
  BY <1>2, ArenaParts
<1>4. "occupied" \in States \ {"vacant", "retired"} /\ 0 \in Generation
  BY GenArenaAssumption DEF States, Generation
<1>5. j \in 0 .. slots[i] - 1 /\ vstate[i][j] = "vacant" /\ vgen[i][j] < Limit /\ Popped(vfree[i]) \in Seq(SlotIdx)
  <2> DEFINE n == slots[i]
             st == vstate[i]
             gen == vgen[i]
             s == vfree[i]
  <2>1. /\ n \in Nat /\ 0 .. n - 1 \subseteq SlotIdx /\ SlotIdx \in SUBSET Nat
        /\ st \in [SlotIdx -> States] /\ gen \in [SlotIdx -> Generation]
        /\ s \in Seq(SlotIdx) /\ s # <<>> /\ StackOK(n, st, gen, s)
    BY <1>1, <1>2, <1>3
  <2> HIDE DEF n, st, gen, s
  <2>2. Top(s) \in 0 .. n - 1 /\ st[Top(s)] = "vacant" /\ gen[Top(s)] < Limit /\ Popped(s) \in Seq(SlotIdx)
    BY <1>4, <2>1, StackPop, ZenonT(30)
  <2> QED
    BY <2>2, ZenonT(30) DEF n, st, gen, s
<1>6. FillSlot(id, j, g)
  BY <1>5 DEF InsertReuse, i
<1> HIDE DEF j
<1>7. j \in SlotIdx /\ j < slots[i] /\ g \in Generation /\ 0 < g /\ vgen[i][j] < g
  <2>1. j \in SlotIdx /\ j < slots[i]
    BY <1>3, <1>5, SMTT(60)
  <2>2. vgen[i][j] \in Generation
    BY <1>3, <2>1
  <2> QED
    BY <1>5, <2>1, <2>2, GenArenaAssumption DEF Generation
<1> HIDE DEF g
<1>8. /\ vgen' = [vgen EXCEPT ![i][j] = g] /\ vstate' = [vstate EXCEPT ![i][j] = "occupied"]
  BY <1>6 DEF FillSlot, i
<1>9. /\ vgen'[i] = [vgen[i] EXCEPT ![j] = g] /\ vstate'[i] = [vstate[i] EXCEPT ![j] = "occupied"]
      /\ vfree'[i] = Popped(vfree[i]) /\ slots'[i] = slots[i]
      /\ vfree' \in [ArenaIdx -> Seq(SlotIdx)]
      /\ \A k \in ArenaIdx : k # i => vfree'[k] = vfree[k]
  <2>1. vgen'[i] = [vgen[i] EXCEPT ![j] = g] /\ vstate'[i] = [vstate[i] EXCEPT ![j] = "occupied"]
    BY <1>2, <1>8 DEF Inv, TypeOK
  <2>2. /\ vfree'[i] = Popped(vfree[i]) /\ slots'[i] = slots[i]
        /\ vfree' \in [ArenaIdx -> Seq(SlotIdx)]
        /\ \A k \in ArenaIdx : k # i => vfree'[k] = vfree[k]
    BY <1>1, <1>2, <1>5 DEF Inv, TypeOK
  <2> QED
    BY <2>1, <2>2
<1>10. StackOK(slots[i], [vstate[i] EXCEPT ![j] = "occupied"], [vgen[i] EXCEPT ![j] = g], Popped(vfree[i]))
  BY <1>1, <1>2, <1>3, <1>4, <1>7, StackPop, Zenon DEF j
<1>11. StackOK(slots'[i], vstate'[i], vgen'[i], vfree'[i])
  BY <1>9, <1>10
<1>12. i = id.slot
  BY DEF i
<1> QED
  BY <1>1, <1>2, <1>5, <1>6, <1>7, <1>9, <1>11, <1>12, FillInv

LEMMA InsertPushInv ==
  ASSUME Inv, NEW id \in KnownArenas, NEW memory \in BOOLEAN, InsertPush(id, memory)
  PROVE  Inv' /\ (H!Insert \/ UNCHANGED <<issued, Alive>>)
<1>1. CASE UNCHANGED <<state, created, issued>>
  BY <1>1, GenArenaStutter
<1>2. CASE ~UNCHANGED <<state, created, issued>>
  <2> DEFINE i == id.slot
             j == slots[i]
  <2>1. /\ ArenaLive(id) /\ vfree[i] = <<>> /\ j # SlotCap
        /\ slots' = [slots EXCEPT ![i] = j + 1] /\ FillSlot(id, j, 1) /\ vfree' = vfree
    BY <1>2, Zenon DEF InsertPush, Fail
  <2>2. id \in created /\ i \in ArenaIdx /\ StackOK(j, vstate[i], vgen[i], vfree[i])
    BY <2>1, LiveArena
  <2>3. /\ vgen' = [vgen EXCEPT ![i][j] = 1] /\ vstate' = [vstate EXCEPT ![i][j] = "occupied"]
    BY <2>1 DEF FillSlot
  <2>4. i = id.slot
    BY Zenon
  <2> HIDE DEF i
  <2>5. /\ j \in 0 .. SlotCap
        /\ vstate[i] \in [SlotIdx -> States] /\ vgen[i] \in [SlotIdx -> Generation]
    BY <2>2, ArenaParts, Zenon
  <2>6. j \in Nat /\ j \in SlotIdx /\ 0 .. j \subseteq SlotIdx /\ 1 \in Generation /\ 0 < 1
    BY <2>1, <2>5, GenArenaAssumption DEF SlotIdx, Generation
  <2>7. j = slots[i]
    OBVIOUS
  <2> HIDE DEF j
  <2>8. /\ vgen'[i] = [vgen[i] EXCEPT ![j] = 1] /\ vstate'[i] = [vstate[i] EXCEPT ![j] = "occupied"]
    BY <2>2, <2>3 DEF Inv, TypeOK
  <2>9. slots'[i] = j + 1
    BY <2>1, <2>2 DEF Inv, TypeOK
  <2>10. "occupied" \in States \ {"vacant", "retired"}
    BY DEF States
  <2>11. StackOK(j + 1, [vstate[i] EXCEPT ![j] = "occupied"], [vgen[i] EXCEPT ![j] = 1], <<>>)
    BY <2>1, <2>2, <2>5, <2>6, <2>10, StackGrow, Zenon
  <2>12. StackOK(slots'[i], vstate'[i], vgen'[i], vfree'[i])
    BY <2>1, <2>8, <2>9, <2>11
  <2>13. vfree' \in [ArenaIdx -> Seq(SlotIdx)] /\ \A k \in ArenaIdx : k # i => vfree'[k] = vfree[k]
    BY <2>1 DEF Inv, TypeOK
  <2> QED
    BY <2>1, <2>2, <2>4, <2>6, <2>7, <2>12, <2>13, FillInv, Zenon
<1> QED
  BY <1>1, <1>2

(* An emptied slot was the only one that its handle resolved to. *)
LEMMA RemoveInv ==
  ASSUME Inv, NEW id \in KnownArenas, NEW h \in KnownHandles, NEW memory \in BOOLEAN,
         Remove(id, h, memory)
  PROVE  Inv' /\ (H!Remove \/ UNCHANGED <<issued, Alive>>)
<1>1. CASE UNCHANGED <<state, created, issued>>
  BY <1>1, GenArenaStutter
<1>2. CASE ~UNCHANGED <<state, created, issued>>
  <2> DEFINE i == id.slot
             j == h.slot
             st == IF h.generation = Limit THEN "retired" ELSE "vacant"
             free == IF h.generation = Limit THEN vfree[i] ELSE Append(vfree[i], j)
  <2>1. /\ Lookup(id, h) = "ok"
        /\ vstate' = [vstate EXCEPT ![i][j] = st] /\ vfree' = [vfree EXCEPT ![i] = free]
        /\ UNCHANGED <<arenas, agen, astate, afree, slots, vgen, created, issued>>
    BY <1>2 DEF Remove, Fail, arenaVars
  <2>2. h # InvalidHandle /\ h.arena = id /\ ArenaLive(id) /\ SlotLive(h)
    BY <2>1 DEF Lookup
  <2>3. h \in issued /\ h \in GenRef /\ j \in SlotIdx /\ j \in Nat /\ h.generation \in Nat
    BY <2>2, Indices, Zenon DEF KnownHandles, Inv, TypeOK, GenRef
  <2>4. /\ id \in ArenaId /\ i \in ArenaIdx /\ i \in 0 .. arenas - 1 /\ id.generation = agen[i]
        /\ astate[i] = "live" /\ StackOK(slots[i], vstate[i], vgen[i], vfree[i])
    BY <2>2, LiveArena
  <2>5. j < slots[i] /\ vgen[i][j] = h.generation /\ vstate[i][j] = "occupied"
    BY <2>2, Zenon DEF SlotLive
  <2> HIDE DEF i, j
  <2>6. /\ slots[i] \in Nat /\ 0 .. slots[i] - 1 \subseteq SlotIdx
        /\ vstate[i] \in [SlotIdx -> States] /\ vgen[i] \in [SlotIdx -> Generation]
        /\ vfree[i] \in Seq(SlotIdx)
    BY <2>4, ArenaParts, Zenon
  <2>7. j \in 0 .. slots[i] - 1 /\ (h.generation # Limit => vgen[i][j] < Limit)
    <3>1. vgen[i][j] \in Generation
      BY <2>3, <2>6, Zenon
    <3> QED
      BY <2>3, <2>5, <2>6, <3>1, GenArenaAssumption DEF Generation
  <2>8. StackOK(slots[i], [vstate[i] EXCEPT ![j] = st], vgen[i], free) /\ free \in Seq(SlotIdx)
    <3>1. CASE h.generation = Limit
      BY <2>4, <2>5, <2>6, <2>7, <3>1, StackRetire, Zenon
    <3>2. CASE h.generation # Limit
      BY <2>4, <2>5, <2>6, <2>7, <3>2, StackPush, Zenon
    <3> QED
      BY <3>1, <3>2, Zenon
  <2>9. st \in States /\ st # "occupied"
    BY DEF States
  <2> HIDE DEF st, free
  <2>10. /\ vstate'[i] = [vstate[i] EXCEPT ![j] = st] /\ vfree'[i] = free
         /\ \A k \in ArenaIdx : k # i => vstate'[k] = vstate[k] /\ vfree'[k] = vfree[k]
    BY <2>1, <2>4 DEF Inv, TypeOK
  <2>11. TypeOK'
    <3>1. vfree' \in [ArenaIdx -> Seq(SlotIdx)]
      BY <2>1, <2>4, <2>8 DEF Inv, TypeOK
    <3>2. vstate' \in [ArenaIdx -> [SlotIdx -> States]]
      BY <2>1, <2>3, <2>4, <2>9, Zenon DEF Inv, TypeOK
    <3> QED
      BY <2>1, <3>1, <3>2 DEF Inv, TypeOK
  <2>12. Known' /\ Used'
    BY <2>1 DEF Inv, Known, Used
  <2>13. NoSlotLost'
    <3>1. ASSUME NEW k \in 0 .. arenas - 1, astate[k] = "live"
          PROVE  StackOK(slots'[k], vstate'[k], vgen'[k], vfree'[k])
      <4>1. k \in ArenaIdx
        BY Indices DEF Inv, TypeOK
      <4>2. CASE k = i
        BY <2>1, <2>8, <2>10, <4>2, Zenon
      <4>3. CASE k # i
        BY <2>1, <2>10, <3>1, <4>1, <4>3, BothLevels DEF Inv, Levels
      <4> QED
        BY <4>2, <4>3
    <3> QED
      BY <2>1, <3>1, BothLevels DEF Inv, Levels
  <2>14. h \in Alive
    BY <2>2, <2>3, AliveIs DEF Inv
  <2>15. Alive' = Alive \ {h}
    <3>1. ASSUME NEW r \in GenRef
          PROVE  ArenaLive(r.arena)' /\ SlotLive(r)' <=> ArenaLive(r.arena) /\ SlotLive(r) /\ r # h
      <4>1. /\ r.arena \in ArenaId /\ r.arena.slot \in ArenaIdx /\ r.slot \in SlotIdx
            /\ (ArenaLive(r.arena)' <=> ArenaLive(r.arena))
        BY <2>1, Zenon DEF GenRef, ArenaId, ArenaLive
      <4>2. CASE r.arena.slot # i
        BY <2>1, <2>2, <2>10, <4>1, <4>2 DEF SlotLive, i
      <4>3. CASE r.arena.slot = i /\ r.slot # j
        <5>1. vstate'[i][r.slot] = vstate[i][r.slot]
          BY <2>6, <2>10, <4>1, <4>3
        <5>2. r # h
          BY <4>3 DEF j
        <5> QED
          BY <2>1, <4>1, <4>3, <5>1, <5>2, Zenon DEF SlotLive
      <4>4. CASE r.arena.slot = i /\ r.slot = j
        <5>1. ~SlotLive(r)'
          BY <2>3, <2>6, <2>9, <2>10, <4>4, Zenon DEF SlotLive
        <5>2. ASSUME ArenaLive(r.arena), SlotLive(r) PROVE r = h
          <6>1. r.arena.generation = agen[i] /\ r.generation = vgen[i][j]
            BY <4>4, <5>2, Zenon DEF ArenaLive, SlotLive
          <6>2. r.arena = id
            BY <2>4, <4>1, <4>4, <6>1 DEF ArenaId, i
          <6> QED
            BY <2>2, <2>3, <2>5, <4>4, <6>1, <6>2 DEF GenRef, j
        <5> QED
          BY <5>1, <5>2
      <4> QED
        BY <4>2, <4>3, <4>4
    <3>2. ASSUME NEW r \in GenRef PROVE r \in Alive' <=> r \in Alive /\ r # h
      BY <2>11, <2>12, <3>1, AliveIs, AliveNext, Zenon DEF Inv
    <3> QED
      BY <3>2 DEF Alive
  <2> QED
    BY <2>1, <2>11, <2>12, <2>13, <2>14, <2>15, Zenon DEF Inv, H!Remove
<1> QED
  BY <1>1, <1>2

(* With its arena go all the handles that resolved in it. *)
LEMMA DestroyArenaInv ==
  ASSUME Inv, NEW id \in KnownArenas, NEW memory \in BOOLEAN, DestroyArena(id, memory)
  PROVE  Inv' /\ (H!DestroyArena \/ UNCHANGED <<issued, Alive>>)
<1>1. CASE UNCHANGED <<state, created, issued>>
  BY <1>1, GenArenaStutter
<1>2. CASE ~UNCHANGED <<state, created, issued>>
  <2> DEFINE i == id.slot
             st == IF id.generation = Limit THEN "retired" ELSE "vacant"
             free == IF id.generation = Limit THEN afree ELSE Append(afree, i)
  <2>1. /\ ArenaLive(id) /\ astate' = [astate EXCEPT ![i] = st] /\ afree' = free
        /\ UNCHANGED <<arenas, agen, slots, vgen, vstate, vfree, created, issued>>
    BY <1>2, Zenon DEF DestroyArena, Fail, slotVars
  <2>2. /\ id \in ArenaId /\ i \in ArenaIdx /\ i \in 0 .. arenas - 1 /\ id.generation = agen[i]
        /\ astate[i] = "live"
    BY <2>1, LiveArena, Zenon
  <2> HIDE DEF i
  <2>3. /\ arenas \in 0 .. ArenaCap /\ agen \in [ArenaIdx -> Generation]
        /\ astate \in [ArenaIdx -> States] /\ afree \in Seq(ArenaIdx)
        /\ StackOK(arenas, astate, agen, afree)
    BY BothLevels DEF Inv, TypeOK, Levels
  <2>4. arenas \in Nat /\ 0 .. arenas - 1 \subseteq ArenaIdx
    BY <2>3, Indices
  <2>5. id.generation # Limit => agen[i] < Limit
    <3>1. agen[i] \in Generation
      BY <2>2, <2>3
    <3> QED
      BY <2>2, <3>1, GenArenaAssumption DEF Generation
  <2>6. StackOK(arenas, [astate EXCEPT ![i] = st], agen, free) /\ free \in Seq(ArenaIdx)
    <3>1. CASE id.generation = Limit
      BY <2>2, <2>3, <2>4, <3>1, StackRetire, Zenon
    <3>2. CASE id.generation # Limit
      BY <2>2, <2>3, <2>4, <2>5, <3>2, StackPush, Zenon
    <3> QED
      BY <3>1, <3>2
  <2>7. st \in States /\ st # "live"
    BY DEF States
  <2> HIDE DEF st, free
  <2>8. /\ astate' \in [ArenaIdx -> States] /\ astate'[i] = st
        /\ \A k \in ArenaIdx : k # i => astate'[k] = astate[k]
    BY <2>1, <2>2, <2>3, <2>7
  <2>9. TypeOK'
    BY <2>1, <2>6, <2>8, Zenon DEF Inv, TypeOK
  <2>10. Known' /\ Used'
    BY <2>1, Zenon DEF Inv, Known, Used
  <2>11. NoSlotLost'
    <3>1. StackOK(arenas', astate', agen', afree')
      BY <2>1, <2>6, Zenon
    <3>2. ASSUME NEW k \in 0 .. arenas' - 1, astate'[k] = "live"
          PROVE  StackOK(slots'[k], vstate'[k], vgen'[k], vfree'[k])
      <4>1. k \in 0 .. arenas - 1 /\ k \in ArenaIdx /\ astate[k] = "live"
        BY <2>1, <2>4, <2>7, <2>8, <3>2
      <4> QED
        BY <2>1, <4>1, BothLevels, ZenonT(30) DEF Inv, Levels
    <3> QED
      BY <3>1, <3>2, BothLevels, Zenon DEF Levels
  <2>12. Alive' = {h \in Alive : ArenaOf(h) # id}
    <3>1. ASSUME NEW h \in GenRef
          PROVE  ArenaLive(h.arena)' /\ SlotLive(h)' <=> ArenaLive(h.arena) /\ SlotLive(h) /\ h.arena # id
      <4>1. /\ h.arena \in ArenaId /\ h.arena.slot \in ArenaIdx
            /\ (SlotLive(h)' <=> SlotLive(h))
        BY <2>1, Zenon DEF GenRef, ArenaId, SlotLive
      <4>2. CASE h.arena.slot # i
        BY <2>1, <2>8, <4>1, <4>2 DEF ArenaLive, i
      <4>3. CASE h.arena.slot = i
        <5>1. ~ArenaLive(h.arena)'
          BY <2>7, <2>8, <4>3 DEF ArenaLive
        <5>2. ArenaLive(h.arena) => h.arena.generation = id.generation
          BY <2>2, <4>3 DEF ArenaLive
        <5>3. \A a, b \in ArenaId : a.slot = b.slot /\ a.generation = b.generation => a = b
          BY SMTT(60) DEF ArenaId
        <5>4. ArenaLive(h.arena) => h.arena = id
          BY <2>2, <4>1, <4>3, <5>2, <5>3 DEF i
        <5> QED
          BY <5>1, <5>4
      <4> QED
        BY <4>2, <4>3
    <3>2. ASSUME NEW h \in GenRef PROVE h \in Alive' <=> h \in Alive /\ ArenaOf(h) # id
      BY <2>9, <2>10, <3>1, AliveIs, AliveNext DEF Inv, ArenaOf
    <3> QED
      BY <3>2 DEF Alive
  <2>13. id \in {ArenaOf(h) : h \in GenRef}
    <3> DEFINE h == [arena |-> id, slot |-> 0, generation |-> 0]
    <3>1. h \in GenRef /\ ArenaOf(h) = id
      BY <2>2, GenArenaAssumption DEF GenRef, SlotIdx, Generation, ArenaOf
    <3> QED
      BY <3>1, Zenon
  <2> QED
    BY <2>1, <2>9, <2>10, <2>11, <2>12, <2>13 DEF Inv, H!DestroyArena
<1> QED
  BY <1>1, <1>2

LEMMA GenArenaStep ==
  ASSUME Inv, [Next]_vars
  PROVE  Inv' /\ [H!Next]_<<issued, Alive>>
<1> USE DEF H!Next
<1>1. CASE ReuseArena
  BY <1>1, ReuseArenaInv
<1>2. ASSUME NEW memory \in BOOLEAN, PushArena(memory) PROVE Inv' /\ UNCHANGED <<issued, Alive>>
  BY <1>2, PushArenaInv
<1>3. ASSUME NEW id \in KnownArenas, InsertReuse(id) PROVE Inv' /\ H!Insert
  BY <1>3, InsertReuseInv
<1>4. ASSUME NEW id \in KnownArenas, InsertGone(id) PROVE Inv' /\ UNCHANGED <<issued, Alive>>
  BY <1>4, GenArenaStutter DEF InsertGone, Fail
<1>5. ASSUME NEW id \in KnownArenas, NEW memory \in BOOLEAN, InsertPush(id, memory)
      PROVE  Inv' /\ (H!Insert \/ UNCHANGED <<issued, Alive>>)
  BY <1>5, InsertPushInv
<1>6. ASSUME NEW id \in KnownArenas, NEW h \in KnownHandles, NEW memory \in BOOLEAN,
             Remove(id, h, memory)
      PROVE  Inv' /\ (H!Remove \/ UNCHANGED <<issued, Alive>>)
  BY <1>6, RemoveInv
<1>7. ASSUME NEW id \in KnownArenas, NEW memory \in BOOLEAN, DestroyArena(id, memory)
      PROVE  Inv' /\ (H!DestroyArena \/ UNCHANGED <<issued, Alive>>)
  BY <1>7, DestroyArenaInv
<1>8. CASE UNCHANGED vars
  BY <1>8, GenArenaStutter DEF vars
<1> QED
  BY <1>1, <1>2, <1>3, <1>4, <1>5, <1>6, <1>7, <1>8 DEF Next

----------------------------------------------------------------------------
(* Registry and Arena, through every sequence of create_arena, insert,      *)
(* remove and destroy_arena, with any of them failing for want of memory or *)
(* of a generation: no slot of either level is lost or offered twice.       *)
THEOREM SlotsKept == Spec => []NoSlotLost
<1>1. Init => Inv
  BY GenArenaInit
<1>2. Inv /\ [Next]_vars => Inv'
  BY GenArenaStep
<1>3. Inv => NoSlotLost
  BY DEF Inv
<1> QED
  BY <1>1, <1>2, <1>3, PTL DEF Spec

(* Registry::get, for every length of the two Vecs and every limit of the   *)
(* generations: a handle is issued once, resolves until its value is removed *)
(* or its arena destroyed, and never again.                                 *)
THEOREM HandlesNameOneValue == Spec => ImplementsHandleSet
<1>1. Init => Inv /\ H!Init
  <2> SUFFICES ASSUME Init PROVE Inv /\ H!Init
    OBVIOUS
  <2>1. Inv
    BY GenArenaInit
  <2>2. \A h \in GenRef : ~ArenaLive(h.arena)
    BY Indices DEF Init, ArenaLive, GenRef, ArenaId
  <2>3. \A h \in GenRef : h \notin Alive
    BY <2>1, <2>2, AliveIs DEF Inv
  <2>4. Alive = {}
    BY <2>3 DEF Alive
  <2> QED
    BY <2>1, <2>4 DEF Init, H!Init
<1>2. Inv /\ [Next]_vars => Inv' /\ [H!Next]_<<issued, Alive>>
  BY GenArenaStep
<1> QED
  BY <1>1, <1>2, PTL DEF Spec, ImplementsHandleSet, H!Spec
=============================================================================
