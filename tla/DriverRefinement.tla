-------------------------- MODULE DriverRefinement --------------------------
(***************************************************************************)
(* Robotiq3FDriver implements GripperBackend.  The commands on their way   *)
(* are those the worker holds, in the slot, held by receive_command() and  *)
(* in the topic, in that order.                                            *)
(***************************************************************************)
EXTENDS Robotiq3FDriver

InTransit(entry) == IF IsEntry(entry) THEN <<entry.command>> ELSE <<>>

CommandsOnTheirWay ==
    InTransit(command) \o InTransit(pending) \o InTransit(handler) \o commandTopic

CommandsExecuted ==
    [i \in DOMAIN written |-> [command |-> written[i].command,
                              session |-> written[i].session,
                              wasActivated |-> written[i].wasActivated]]

Contract == INSTANCE GripperBackend WITH
    Commands     <- {[shape EXCEPT !.id = n] : shape \in Shapes, n \in 1..MaxCommands},
    commandTopic <- CommandsOnTheirWay,
    online       <- isOpen,
    reported     <- isOpen /\ statusSession = session,
    lastId       <- IF isOpen THEN lastId ELSE 0,
    executed     <- CommandsExecuted

\* The driver keeps the promises of a backend: whatever its two threads, the
\* network and the gripper do is a step GripperBackend allows.
ImplementsContract == Contract!Spec
=============================================================================
