---------------------------- MODULE GripperStack ----------------------------
(***************************************************************************)
(* The hardware launch: the controller and the driver as they are, joined  *)
(* by the topics backend/command and backend/status.                       *)
(***************************************************************************)
EXTENDS Robotiq3FController

CONSTANTS AllowAutomaticRelease, InitialDelay, MaxDelay, MaxFaults, MaxRestarts

VARIABLES handler, pending, command, ready, lastId, connectionId, isOpen, delay, configured,
          stopRequested, pc, gripper, link, faults, restarts, session, statusSession, written

driverOnly == <<handler, pending, command, ready, lastId, connectionId, isOpen, delay,
                configured, stopRequested, pc, gripper, link, faults, restarts, session,
                statusSession, written>>
vars == <<controllerVars, driverOnly>>

\* The driver; its commands come from the controller.
Driver == INSTANCE DriverRefinement WITH Shapes <- {}, MaxCommands <- 0, sent <- 0

Init == ControllerInit /\ Driver!Init

Next ==
    \/ ControllerNext /\ UNCHANGED driverOnly
    \/ Driver!DriverNext /\ UNCHANGED <<nodeVars, op>>

Spec == Init /\ [][Next]_vars

\* The same system, seen as the controller over the contract of its backend.
System == INSTANCE ControlledGripper WITH
    commandTopic <- Driver!CommandsOnTheirWay,
    online       <- isOpen,
    reported     <- isOpen /\ statusSession = session,
    lastId       <- IF isOpen THEN lastId ELSE 0,
    executed     <- Driver!CommandsExecuted,
    outages <- 0, MaxOutages <- 0

\* A request that wait_for_status() lets succeed had its own command written to the
\* gripper, an activation its reset before that: whatever the one-place slot
\* overwrites, the readiness test drops, a failed transaction leaves in doubt or a new
\* driver process forgets.  It is a property of one controller process (MaxLives <= 1).
SuccessIsExecuted == System!SuccessIsExecuted

\* No command is written to the gripper twice, and those of one controller process are
\* written in the order of their identifiers but for stops: the driver takes a command
\* out of its slot before the transaction, and replays nothing after a reconnection.
OnlyStopsOvertake == System!OnlyStopsOvertake

\* The motion of a move that was given up is never written after the stop sent for it:
\* the topic, receive_command(), the slot and the worker keep the order.
HaltIsLast == System!HaltIsLast

\* README, "Calling /robotiq_3f/stop alone stops the hardware": once the gripper
\* executed a stop, it executes no motion published for an earlier request.
StopIsNotOvertaken == System!StopIsNotOvertaken

\* The same sentence: a stop does not start the activation, which moves the
\* fingers, of a gripper that was not activated.
StopNeverActivates == System!StopNeverActivates
=============================================================================
