--------------------------- MODULE MCGripperStack ---------------------------
(* GripperStack for TLC. *)
EXTENDS GripperStack, TLC

CONSTANTS o1, s1

OneGoal == {[mode |-> 0, position |-> 1]}

MoveAndStop == (o1 :> {"move"}) @@ (s1 :> {"stop"})

\* One request, of either kind.
ActOrMove == (o1 :> {"activate", "move"})
=============================================================================
