--------------------------- MODULE MC_Ownership ---------------------------
(***************************************************************************)
(* Functions as the lowering shapes them: a local is stored where it is    *)
(* declared, and its storage ends with its scope, or with the function.    *)
(***************************************************************************)
EXTENDS Ownership, TLC

Leaf   == (<<>> :> "leaf")
Pair   == (<<>> :> "struct") @@ (<<"f">> :> "leaf") @@ (<<"g">> :> "leaf")
Result == (<<>> :> "enum") @@ (<<"ok">> :> "struct") @@ (<<"ok", "f">> :> "leaf")
          @@ (<<"ok", "g">> :> "leaf") @@ (<<"err">> :> "leaf")

Boxed  == (<<>> :> "struct") @@ (<<"f">> :> "enum") @@ (<<"f", "ok">> :> "leaf")
          @@ (<<"f", "err">> :> "leaf") @@ (<<"g">> :> "leaf")

Both   == (<<>> :> "tuple") @@ (<<"f">> :> "leaf") @@ (<<"g">> :> "leaf")

(* One variant has several payload fields, the other none. *)
Message == (<<>> :> "enum") @@ (<<"ok">> :> "tuple") @@ (<<"ok", "f">> :> "leaf")
           @@ (<<"ok", "g">> :> "leaf") @@ (<<"err">> :> "unit")

Declare == Stmt("store", <<>>)
Dead    == Stmt("dead", <<>>)

Block(stmts, succs) == [stmts |-> stmts, succs |-> succs, switch |-> <<>>]
Switch(stmts, succs) ==
  [stmts |-> Append(stmts, Stmt("read", <<>>)), succs |-> succs, switch |-> <<"ok", "err">>]

(* What may stand in one place of a template: nothing, or a statement. *)
Slot(places, stores) ==
  {<<>>} \union {<<Stmt(op, p)>> : op \in {"read", "move"}, p \in places}
         \union {<<Stmt("store", p)>> : p \in stores}

Ends(scoped) == IF scoped THEN <<Dead>> ELSE <<>>

(* if/else or, for an enum, match; the local lives in a block or longer. *)
Diamonds(type, enter(_, _), first, left, right, last) ==
  {[type |-> type,
    blocks |-> <<enter(<<Declare>> \o a, <<2, 3>>), Block(l, <<4>>), Block(r, <<4>>),
                 Block(z \o Ends(scoped), <<>>)>>] :
     a \in first, l \in left, r \in right, z \in last, scoped \in BOOLEAN}

(* A loop that uses a local declared before it. *)
Loops(type, slot) ==
  {[type |-> type,
    blocks |-> <<Block(<<Declare>> \o a, <<2>>), Block(<<>>, <<3, 4>>), Block(b \o c, <<2>>),
                 Block(z \o Ends(scoped), <<>>)>>] :
     a \in slot, b \in slot, c \in slot, z \in slot, scoped \in BOOLEAN}

(* A loop whose body declares the local and may break. *)
Bodies(type, slot) ==
  {[type |-> type,
    blocks |-> <<Block(<<>>, <<2>>), Block(<<>>, <<3, 5>>),
                 Block(<<Declare>> \o a, <<4, 6>>), Block(b \o <<Dead>>, <<2>>),
                 Block(<<>>, <<>>), Block(c \o <<Dead>>, <<5>>)>>] :
     a \in slot, b \in slot, c \in slot}

(* A loop whose body declares the local and matches on it. *)
Matches(type, left, right) ==
  {[type |-> type,
    blocks |-> <<Block(<<>>, <<2>>), Block(<<>>, <<3, 7>>), Switch(<<Declare>>, <<4, 5>>),
                 Block(l, <<6>>), Block(r, <<6>>), Block(<<Dead>>, <<2>>), Block(<<>>, <<>>)>>] :
     l \in left, r \in right}

(* Returns before the declaration and on one side of a branch. *)
Returns(type, slot) ==
  {[type |-> type,
    blocks |-> <<Block(<<>>, <<2, 3>>), Block(<<>>, <<>>), Block(<<Declare>> \o a, <<4, 5>>),
                 Block(b, <<>>), Block(c, <<>>)>>] :
     a \in slot, b \in slot, c \in slot}

LeafSlot == Slot({<<>>}, {<<>>})
PairSlot == Slot({<<>>, <<"f">>}, {<<>>, <<"f">>})
Few      == {<<>>, <<Stmt("move", <<>>)>>, <<Stmt("move", <<"f">>)>>}
Two(slot) == {a \o b : a, b \in slot}

(* A match binds payloads by move as it enters an arm. *)
Arm(p) == {m \o b : m \in {<<>>, <<Stmt("move", p)>>},
                    b \in {<<>>, <<Stmt("move", <<>>)>>, <<Declare>>}}
OkArm   == Arm(<<"ok">>) \union Arm(<<"ok", "f">>)
ErrArm  == Arm(<<"err">>)
SomeArm == Arm(<<"ok", "f">>) \union {<<Stmt("move", <<"ok", "g">>)>> \o a : a \in Arm(<<"ok", "f">>)}
NoneArm == {<<>>, <<Stmt("move", <<>>)>>, <<Declare>>}

MCPrograms ==
  UNION {Diamonds(Leaf, Block, LeafSlot, Two(LeafSlot), LeafSlot, LeafSlot),
         Diamonds(Pair, Block, {<<>>, <<Stmt("move", <<"f">>)>>}, Two(PairSlot), PairSlot, Few),
         Diamonds(Result, Switch, {<<>>}, OkArm, ErrArm, LeafSlot),
         Diamonds(Message, Switch, {<<>>}, SomeArm, NoneArm, LeafSlot),
         Loops(Leaf, LeafSlot), Loops(Pair, Few \union {<<Declare>>}),
         Loops(Both, Few \union {<<Declare>>}),
         Bodies(Leaf, LeafSlot), Bodies(Boxed, PairSlot),
         Matches(Result, OkArm, ErrArm), Matches(Message, SomeArm, NoneArm),
         Returns(Leaf, LeafSlot), Returns(Boxed, PairSlot)}
=============================================================================
