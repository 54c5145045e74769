----------------------------- MODULE HandleSet -----------------------------
(***************************************************************************)
(* What a generational arena promises: a handle names one insertion for    *)
(* ever.  It is issued once, resolves until its value is removed or its    *)
(* arena destroyed, and never again afterwards.                            *)
(***************************************************************************)
CONSTANTS Handle,       \* all handles
          ArenaOf(_)    \* the arena identity a handle carries

VARIABLES issued,       \* every handle ever returned by an insert
          alive         \* the handles that resolve

Init == issued = {} /\ alive = {}

Insert ==
  \E h \in Handle \ issued :
    /\ issued' = issued \union {h}
    /\ alive' = alive \union {h}

Remove ==
  \E h \in alive :
    /\ alive' = alive \ {h}
    /\ UNCHANGED issued

DestroyArena ==
  \E a \in {ArenaOf(h) : h \in Handle} :
    /\ alive' = {h \in alive : ArenaOf(h) # a}
    /\ UNCHANGED issued

Next == Insert \/ Remove \/ DestroyArena

Spec == Init /\ [][Next]_<<issued, alive>>
=============================================================================
