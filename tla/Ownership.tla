----------------------------- MODULE Ownership -----------------------------
(***************************************************************************)
(* What decides when a value of a compiled program dies (arandu_mir): the  *)
(* definite-initialization and move analyses of a function's control-flow  *)
(* graph, and the elaboration that inserts its destructor calls from what  *)
(* they found; then the elaborated function is run.                        *)
(*                                                                         *)
(* The analyses treat each local by itself, so a program has one.  Its     *)
(* type gives every path a kind: a "leaf" has a destructor, a "struct" has *)
(* storage and fields, a "tuple", also a payload of several fields, has    *)
(* only fields, an "enum" one variant out of several and a "unit" nothing. *)
(* A statement stores a new value into a path, moves one out of it, reads  *)
(* it, or ends the local's storage; a block ends in a branch on something  *)
(* unknown, a switch on the local's variant, or a return, when it has no   *)
(* successor.                                                              *)
(***************************************************************************)
EXTENDS Naturals, Sequences, FiniteSets, SequencesExt

CONSTANTS
  Programs,   \* the functions to compile: [type, blocks]
  None

VARIABLES
  program,   \* the function
  phase,     \* "check", "run", "rejected" or "returned"
  code,      \* its elaborated blocks
  at,        \* the block and the statement to run next
  tag,       \* the variant of each enum path
  owned,     \* the paths whose destructor, or storage, is still to run
  misused,   \* paths used, or destroyed, when they were not owned
  leaked     \* paths whose storage ended while they were owned

vars == <<program, phase, code, at, tag, owned, misused, leaked>>

Stmt(op, p) == [op |-> op, place |-> p]

(* The parts of the value at p: fields of a struct, payloads of an enum. *)
Parts(type, p) == {q \in DOMAIN type : Len(q) = Len(p) + 1 /\ IsPrefix(p, q)}
Below(p, q)    == IsPrefix(p, q) /\ p # q

----------------------------------------------------------------------------
(* MoveState: what has been moved out of the local, on every path to here  *)
(* or on some path to here.                                                *)

Available  == "available"
Moved      == "moved"
MaybeMoved == "maybe moved"

Fresh == [root |-> Available, moved |-> {}, maybe |-> {}]

(* Mutant: a place moved on one path counts as moved on all of them. *)
OneSideMoves(l, r) == IF l = r THEN l ELSE Moved

join_move_state(l, r) == IF l = r THEN l ELSE MaybeMoved

(* The state of s as told by the root and by those recorded paths that are *)
(* among the ones that hit.                                                *)
Seen(s, hit) ==
  IF s.root # Available THEN s.root
  ELSE IF s.moved \intersect hit # {} THEN Moved
  ELSE IF s.maybe \intersect hit # {} THEN MaybeMoved
  ELSE Available

Recorded(s) == s.moved \union s.maybe

(* Mutant: a fact about the place itself is not seen. *)
StrictAncestors(s, p) == Seen(s, {m \in Recorded(s) : Below(m, p)})

place_state(s, p)      == Seen(s, {m \in Recorded(s) : IsPrefix(m, p) \/ IsPrefix(p, m)})
field_fact_state(s, p) == Seen(s, {m \in Recorded(s) : IsPrefix(m, p)})
place_base_state(s, p) == Seen(s, {m \in Recorded(s) : Below(m, p)})

join(s, t) ==
  LET fields == Recorded(s) \union Recorded(t)
      now(p) == join_move_state(field_fact_state(s, p), field_fact_state(t, p))
  IN [root  |-> join_move_state(s.root, t.root),
      moved |-> {p \in fields : now(p) = Moved},
      maybe |-> {p \in fields : now(p) = MaybeMoved}]

move_place(s, p) ==
  IF p = <<>> THEN [Fresh EXCEPT !.root = Moved] ELSE [s EXCEPT !.moved = @ \union {p}]

restore_place(s, p) ==
  IF p = <<>> THEN Fresh
  ELSE [s EXCEPT !.moved = {m \in @ : ~IsPrefix(p, m)}, !.maybe = {m \in @ : ~IsPrefix(p, m)}]

(* apply_stmt, and whether it reports a use of a moved value. *)
apply_stmt(s, stmt) ==
  CASE stmt.op = "store"               -> restore_place(s, stmt.place)
    [] stmt.op \in {"move", "destroy"} -> move_place(s, stmt.place)
    [] OTHER                           -> s

(* A whole local may be stored whatever has become of its old value. *)
check_place_read(s, p) == place_state(s, p) = Available
check_store(s, p)      == p # <<>> => place_base_state(s, p) = Available

check_stmt(s, stmt) ==
  CASE stmt.op \in {"read", "move"} -> check_place_read(s, stmt.place)
    [] stmt.op = "store"            -> check_store(s, stmt.place)
    [] OTHER                        -> TRUE

(* transfer_init_stmt and check_stmt_loads, of the one local. *)
transfer_init(i, stmt) ==
  CASE stmt = Stmt("store", <<>>) -> TRUE
    [] stmt.op = "dead"           -> FALSE
    [] OTHER                      -> i

check_init(i, stmt) ==
  stmt.op \in {"read", "move"} \/ (stmt.op = "store" /\ stmt.place # <<>>) => i

----------------------------------------------------------------------------
(* The two forward analyses over the graph.                                *)

successors(b)          == Range(b.succs)
predecessors(blocks, b) == {c \in DOMAIN blocks : b \in successors(blocks[c])}

(* What each analysis knows after the statements of a block. *)
initialized_at_exit(i, stmts) == FoldLeft(transfer_init, i, stmts)
block_edge_states(s, stmts)   == FoldLeft(apply_stmt, s, stmts)

(* compute_init_in: every block starts in the work list, assumed to be     *)
(* initialized at its end.                                                 *)
RECURSIVE InitLoop(_, _, _, _)
InitLoop(blocks, work, ins, outs) ==
  IF work = <<>> THEN ins
  ELSE LET b       == Head(work)
           preds   == predecessors(blocks, b)
           new_in  == b # 1 /\ preds # {} /\ \A p \in preds : outs[p]
           new_out == initialized_at_exit(new_in, blocks[b].stmts)
           more    == IF new_out # outs[b] THEN blocks[b].succs ELSE <<>>
       IN InitLoop(blocks, Tail(work) \o more, [ins EXCEPT ![b] = new_in],
                   [outs EXCEPT ![b] = new_out])

compute_init_in(blocks) ==
  LET all == [b \in DOMAIN blocks |-> TRUE]
  IN InitLoop(blocks, [b \in DOMAIN blocks |-> b], all, all)

(* compute_move_in: only blocks without predecessors start in it, and a    *)
(* join takes the edges that have been computed.                           *)
RECURSIVE MoveLoop(_, _, _, _)
MoveLoop(blocks, work, ins, outs) ==
  IF work = <<>> THEN ins
  ELSE LET b      == Head(work)
           preds  == predecessors(blocks, b)
           known  == SelectSeq([p \in DOMAIN blocks |-> p],
                               LAMBDA p : p \in preds /\ outs[p] # None)
           new_in == IF known = <<>> THEN Fresh
                     ELSE FoldLeft(LAMBDA s, p : join(s, outs[p]), outs[Head(known)], Tail(known))
           new_out == block_edge_states(new_in, blocks[b].stmts)
       IN IF (preds # {} /\ known = <<>>) \/ (new_in = ins[b] /\ new_out = outs[b])
            THEN MoveLoop(blocks, Tail(work), ins, outs)
            ELSE MoveLoop(blocks, Tail(work) \o blocks[b].succs,
                          [ins EXCEPT ![b] = new_in], [outs EXCEPT ![b] = new_out])

compute_move_in(blocks) ==
  MoveLoop(blocks, SelectSeq([b \in DOMAIN blocks |-> b],
                             LAMBDA b : predecessors(blocks, b) = {}),
           [b \in DOMAIN blocks |-> Fresh], [b \in DOMAIN blocks |-> None])

(* The facts before each statement of a block, and one more for its end. *)
initialized_before(blocks) ==
  LET ins == compute_init_in(blocks)
  IN [b \in DOMAIN blocks |-> [i \in 1 .. Len(blocks[b].stmts) + 1 |->
         initialized_at_exit(ins[b], SubSeq(blocks[b].stmts, 1, i - 1))]]

moved_before(blocks) ==
  LET ins == compute_move_in(blocks)
  IN [b \in DOMAIN blocks |-> [i \in 1 .. Len(blocks[b].stmts) + 1 |->
         block_edge_states(ins[b], SubSeq(blocks[b].stmts, 1, i - 1))]]

(* check_definite_init and check_moves find nothing. *)
Accepted(blocks) ==
  LET init == initialized_before(blocks)
      moved == moved_before(blocks)
  IN \A b \in DOMAIN blocks : \A i \in DOMAIN blocks[b].stmts :
       /\ check_init(init[b][i], blocks[b].stmts[i])
       /\ check_stmt(moved[b][i], blocks[b].stmts[i])

----------------------------------------------------------------------------
(* Drop elaboration.                                                       *)

Destroys(p) == <<Stmt("destroy", p)>>

(* emit_recursive_drops: nothing for a place that is not surely there; a   *)
(* struct's fields and then its storage; of an enum a payload of which was *)
(* moved, and which thus has that variant, what is left of the payload     *)
(* (what is moved belongs to one variant: a match needs the whole enum);   *)
(* any other enum is left to expand_dynamic_enum_drops.                    *)
RECURSIVE emit_recursive_drops(_, _, _)
emit_recursive_drops(type, s, p) ==
  LET All(parts) == FlattenSeq(SetToSeq({emit_recursive_drops(type, s, q) : q \in parts}))
      selected   == {q \in Parts(type, p) : \E m \in s.moved : IsPrefix(q, m)}
  IN IF field_fact_state(s, p) # Available THEN <<>>
     ELSE CASE type[p] = "leaf"   -> Destroys(p)
            [] type[p] = "struct" -> All(Parts(type, p)) \o Destroys(p)
            [] type[p] = "tuple"  -> All(Parts(type, p))
            [] type[p] = "unit"   -> <<>>
            [] type[p] = "enum"   -> IF selected = {} THEN Destroys(p)
                                     ELSE All({CHOOSE q \in selected : TRUE})

(* A merge that begins with the end of the local's storage, reached by     *)
(* plain jumps only, leaves the cleanup to the blocks it is reached from.  *)
EdgeCleaned(blocks, moved, b, i) ==
  /\ \E m \in moved[b][i].maybe : TRUE
  /\ \A j \in 1 .. i - 1 : blocks[b].stmts[j].op \in {"live", "dead"}
  /\ predecessors(blocks, b) # {}
  /\ \A p \in predecessors(blocks, b) : blocks[p].succs = <<b>>

(* Mutant: no cleanup on the edges into such a merge. *)
NoEdgeDrops(type, blocks) ==
  LET init  == initialized_before(blocks)
      moved == moved_before(blocks)
      kept(b, i)  == blocks[b].stmts[i].op = "dead" /\ EdgeCleaned(blocks, moved, b, i)
      drops(b, i) ==
        IF i \in DOMAIN blocks[b].stmts
          THEN IF init[b][i] /\ blocks[b].stmts[i].op \in {"store", "dead"} /\ ~kept(b, i)
                 THEN emit_recursive_drops(type, moved[b][i], blocks[b].stmts[i].place) ELSE <<>>
          ELSE IF init[b][i] /\ blocks[b].succs = <<>>
                 THEN emit_recursive_drops(type, moved[b][i], <<>>) ELSE <<>>
  IN [b \in DOMAIN blocks |->
        [blocks[b] EXCEPT !.stmts =
           FlattenSeq([i \in DOMAIN blocks[b].stmts |-> drops(b, i) \o <<blocks[b].stmts[i]>>])
           \o drops(b, Len(blocks[b].stmts) + 1)]]

(* elaborate_drops: the old value before a store, the local before its     *)
(* storage ends, at the end of a block for a merge it jumps to, and before *)
(* a return.                                                               *)
elaborate_drops(type, blocks) ==
  LET init  == initialized_before(blocks)
      moved == moved_before(blocks)
      cleaned(b, i) == blocks[b].stmts[i].op = "dead" /\ EdgeCleaned(blocks, moved, b, i)
      last(b) == Len(blocks[b].stmts) + 1
      drops(b, i) ==
        LET stmt == blocks[b].stmts[i] IN
        IF init[b][i] /\ (stmt.op = "store" \/ (stmt.op = "dead" /\ ~cleaned(b, i)))
          THEN emit_recursive_drops(type, moved[b][i], stmt.place) ELSE <<>>
      at_end(b) ==
        IF \/ \E c \in successors(blocks[b]) : \E i \in DOMAIN blocks[c].stmts : cleaned(c, i)
           \/ blocks[b].succs = <<>> /\ init[b][last(b)]
          THEN emit_recursive_drops(type, moved[b][last(b)], <<>>) ELSE <<>>
  IN [b \in DOMAIN blocks |->
        [blocks[b] EXCEPT !.stmts =
           FlattenSeq([i \in DOMAIN blocks[b].stmts |-> drops(b, i) \o <<blocks[b].stmts[i]>>])
           \o at_end(b)]]

(* expand_dynamic_enum_drops: the destruction of an enum becomes a switch  *)
(* on its variant, with the drops of the payload in each arm.  The facts   *)
(* are those of the elaborated function at that point.                     *)
RECURSIVE Expanded(_, _, _)
Expanded(type, s, stmt) ==
  IF stmt.op # "destroy" \/ type[stmt.place] # "enum" THEN stmt
  ELSE [op |-> "switch drop", place |-> stmt.place,
        arms |-> [q \in Parts(type, stmt.place) |->
                    LET drops == emit_recursive_drops(type, s, q)
                    IN [i \in DOMAIN drops |-> Expanded(type, s, drops[i])]]]

expand_dynamic_enum_drops(type, blocks) ==
  LET moved == moved_before(blocks) IN
  [b \in DOMAIN blocks |->
     [blocks[b] EXCEPT !.stmts = [i \in DOMAIN @ |-> Expanded(type, moved[b][i], @[i])]]]

----------------------------------------------------------------------------
(* Compilation, and the run of what it made.                               *)

Init ==
  /\ program \in Programs
  /\ phase = "check" /\ code = <<>> /\ at = <<1, 1>>
  /\ tag = [p \in {q \in DOMAIN program.type : program.type[q] = "enum"} |-> None]
  /\ owned = {} /\ misused = {} /\ leaked = {}

Compile ==
  /\ phase = "check"
  /\ IF Accepted(program.blocks)
       THEN /\ phase' = "run"
            /\ code' = expand_dynamic_enum_drops(program.type,
                         elaborate_drops(program.type, program.blocks))
       ELSE phase' = "rejected" /\ UNCHANGED code
  /\ UNCHANGED <<program, at, tag, owned, misused, leaked>>

(* What the value at p has to destroy: leaves and the storage of structs,  *)
(* by the variants its enums have.                                         *)
Exists(q, tags) == \A e \in DOMAIN tags : Below(e, q) => IsPrefix(Append(e, tags[e]), q)
Whole(p, tags) ==
  {q \in DOMAIN program.type :
     IsPrefix(p, q) /\ program.type[q] \in {"leaf", "struct"} /\ Exists(q, tags)}

Statement == code[at[1]].stmts[at[2]]
Running(op) ==
  /\ phase = "run" /\ at[2] <= Len(code[at[1]].stmts) /\ Statement.op = op
  /\ at' = [at EXCEPT ![2] = @ + 1]

Store ==
  /\ Running("store")
  /\ LET p == Statement.place
         enums == {e \in DOMAIN tag : IsPrefix(p, e)}
     IN \E new \in [enums -> {Last(q) : q \in {r \in DOMAIN program.type : r # <<>>}}] :
          LET tags == [e \in DOMAIN tag |-> IF e \in enums THEN new[e] ELSE tag[e]] IN
          /\ \A e \in enums : Append(e, new[e]) \in DOMAIN program.type
          /\ tag' = tags
          /\ leaked' = leaked \union {q \in owned : IsPrefix(p, q)}
          /\ owned' = {q \in owned : ~IsPrefix(p, q)} \union Whole(p, tags)
  /\ UNCHANGED <<program, phase, code, misused>>

(* A use of a value needs all of it; a move takes all of it away. *)
Use(op) ==
  /\ Running(op)
  /\ misused' = misused \union (Whole(Statement.place, tag) \ owned)
  /\ owned' = IF op = "read" THEN owned ELSE owned \ Whole(Statement.place, tag)
  /\ UNCHANGED <<program, phase, code, tag, leaked>>

RECURSIVE Chosen(_)
Chosen(stmt) ==
  IF stmt.op # "switch drop" THEN {stmt.place}
  ELSE LET arm == stmt.arms[Append(stmt.place, tag[stmt.place])]
       IN UNION {Chosen(arm[i]) : i \in DOMAIN arm}

Destroy(op) ==
  /\ Running(op)
  /\ IF op = "switch drop" /\ tag[Statement.place] = None
       THEN misused' = misused \union {Statement.place} /\ UNCHANGED owned
       ELSE /\ misused' = misused \union (Chosen(Statement) \ owned)
            /\ owned' = owned \ Chosen(Statement)
  /\ UNCHANGED <<program, phase, code, tag, leaked>>

StorageDead ==
  /\ Running("dead")
  /\ leaked' = leaked \union owned
  /\ owned' = {}
  /\ UNCHANGED <<program, phase, code, tag, misused>>

(* A switch goes where the variant says, in the order of its successors. *)
Jump ==
  LET b == code[at[1]] IN
  /\ phase = "run" /\ at[2] > Len(b.stmts) /\ b.succs # <<>>
  /\ \E i \in DOMAIN b.succs :
       /\ b.switch # <<>> => b.switch[i] = tag[<<>>]
       /\ at' = <<b.succs[i], 1>>
  /\ UNCHANGED <<program, phase, code, tag, owned, misused, leaked>>

Return ==
  /\ phase = "run" /\ at[2] > Len(code[at[1]].stmts) /\ code[at[1]].succs = <<>>
  /\ phase' = "returned"
  /\ leaked' = leaked \union owned
  /\ UNCHANGED <<program, code, at, tag, owned, misused>>

Next ==
  \/ Compile \/ Store \/ Use("read") \/ Use("move") \/ Destroy("destroy")
  \/ Destroy("switch drop") \/ StorageDead \/ Jump \/ Return

Spec == Init /\ [][Next]_vars

----------------------------------------------------------------------------
(* The statement of the unelaborated function that runs next, the number   *)
(* of its last one and one more at the end of a block.                     *)
IsDrop(stmt) == stmt.op \in {"destroy", "switch drop"}
Origin ==
  <<at[1], 1 + Len(SelectSeq(SubSeq(code[at[1]].stmts, 1, at[2] - 1), LAMBDA x : ~IsDrop(x)))>>

Fact(p) == moved_before(program.blocks)[p[1]][p[2]]

(* It ends the local's storage, and the blocks before have cleaned up. *)
AtCleaned ==
  LET b == program.blocks[at[1]] IN
  /\ Origin[2] \in DOMAIN b.stmts /\ b.stmts[Origin[2]].op = "dead"
  /\ EdgeCleaned(program.blocks, moved_before(program.blocks), at[1], Origin[2])

(* No accepted function uses, moves or destroys a value that is not there, *)
(* so none is destroyed twice: neither on a path of the branches, loops    *)
(* and returns, nor in the variants an enum may have at run time.          *)
NoMisuse == misused = {}

(* In every run, what the analyses of an accepted function claim of a      *)
(* point is true there, before the drops inserted at it: the available     *)
(* parts of an initialized local are there, its moved parts are not.       *)
FactsSound ==
  (phase = "run" /\ (at[2] > 1 => ~IsDrop(code[at[1]].stmts[at[2] - 1])) /\ ~AtCleaned) =>
    LET s    == Fact(Origin)
        init == initialized_before(program.blocks)[Origin[1]][Origin[2]]
    IN \A q \in Whole(<<>>, tag) :
         /\ init /\ field_fact_state(s, q) = Available => q \in owned
         /\ field_fact_state(s, q) = Moved => q \notin owned

(* Nothing leaks that the analyses could tell to be there: what is never   *)
(* destroyed was moved on some paths to that point and not on others or,   *)
(* when the cleanup was left to the blocks before, to the end of one.      *)
LeakPoints ==
  IF AtCleaned
    THEN {<<p, Len(program.blocks[p].stmts) + 1>> : p \in predecessors(program.blocks, at[1])}
    ELSE {Origin}

LeakOnlyIfAmbiguous ==
  [][\A q \in leaked' \ leaked :
       \E p \in LeakPoints : field_fact_state(Fact(p), q) = MaybeMoved]_vars

=============================================================================
