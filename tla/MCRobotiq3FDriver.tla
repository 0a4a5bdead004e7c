------------------------- MODULE MCRobotiq3FDriver -------------------------
(* DriverRefinement for TLC: the shapes of the commands received. *)
EXTENDS DriverRefinement

Activation == [BlankCommand EXCEPT !.activate = TRUE]

\* One shape that is accepted and one that is refused.
MCShapes == {Activation, [Activation EXCEPT !.mode = MODE_SCISSOR + 1]}

\* For the temporal runs: what a command says does not matter there.
MCOneShape == {Activation}
=============================================================================
