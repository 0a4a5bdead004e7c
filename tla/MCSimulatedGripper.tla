------------------------- MODULE MCSimulatedGripper -------------------------
\* Small curves and a handful of commands for SimulatedGripper.
EXTENDS SimulatedGripper, TLC

MCAnchors == (0 :> 1) @@ (1 :> 2)

\* Flat at first like the real ones, then of two slopes; the scissor's falls.
MCFingerCurve == [inputs |-> <<0, 1, 3>>, outputs |-> <<0, 0, 4>>]
MCPinchCurve == [inputs |-> <<0, 2, 3>>, outputs |-> <<0, 3, 3>>]
MCScissorCurve == [inputs |-> <<0, 2, 3>>, outputs |-> <<2, 0, -1>>]

Stop == [id |-> 0, mode |-> 0, activate |-> TRUE, goTo |-> FALSE, individualFinger |-> FALSE,
         individualScissor |-> FALSE, a |-> 0, b |-> 0, scissor |-> 0, speed |-> 0, speedB |-> 0]

\* A stop, a deactivation, motions in three modes, one of single fingers and one
\* of the scissor among them, and a mode there is none of.
MCShapes ==
    {Stop,
     [Stop EXCEPT !.activate = FALSE],
     [Stop EXCEPT !.goTo = TRUE, !.a = 3, !.speed = 1],
     [Stop EXCEPT !.goTo = TRUE, !.mode = 1, !.individualFinger = TRUE, !.a = 2, !.b = 1,
                  !.speed = 1, !.speedB = 3],
     [Stop EXCEPT !.goTo = TRUE, !.mode = 3, !.a = 3, !.speed = 2],
     [Stop EXCEPT !.goTo = TRUE, !.mode = 3, !.individualScissor = TRUE, !.a = 1, !.scissor = 0,
                  !.speed = 3, !.speedB = 1],
     [Stop EXCEPT !.goTo = TRUE, !.mode = 4, !.a = 1]}
=============================================================================
