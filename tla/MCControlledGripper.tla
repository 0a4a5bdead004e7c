------------------------ MODULE MCControlledGripper ------------------------
(* ControlledGripper for TLC: the requests made. *)
EXTENDS ControlledGripper, TLC

CONSTANTS o1, s1

HomeGoal == {[mode |-> 0, position |-> 0]}
PinchGoal == {[mode |-> MODE_PINCH, position |-> 1]}

\* One operation, and a stop or a deactivation at any moment.
OperationAndStop == (o1 :> {"activate", "gripper_command"}) @@ (s1 :> {"stop", "deactivate"})

\* One request of any kind.
AnyRequest == (o1 :> {"activate", "move"})
=============================================================================
