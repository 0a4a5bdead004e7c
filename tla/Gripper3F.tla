----------------------------- MODULE Gripper3F -----------------------------
(***************************************************************************)
(* The data the Robotiq 3F nodes exchange: backend commands, backend       *)
(* statuses, the bounded topics that carry them, and the gripper itself.   *)
(*                                                                         *)
(* Speed, force, current, object detection and the positions of the        *)
(* fingers B, C and scissor are left out: position_a stands for them all,  *)
(* since the code only copies them together with it.                       *)
(*                                                                         *)
(* The gripper is external to the repository.  It is modelled from what    *)
(* the code relies on: writing a command image latches it, the echoed bits *)
(* follow it, activation takes time and ends in READY, motion takes time   *)
(* and ends at the position, at an object or in a fault, and clearing the  *)
(* activate bit resets the gripper.                                        *)
(***************************************************************************)
EXTENDS Naturals, Sequences

CONSTANTS
    Modes,         \* the MODE_* values in use, MODE_BASIC = 0 among them
    Positions,     \* the position registers' values in use, 0 among them
    CommandDepth,  \* history depth of backend/command (10 in the code)
    StatusDepth    \* history depth of backend/status (10 in the code)

ASSUME DataAssumption ==
    /\ Modes \subseteq Nat /\ 0 \in Modes
    /\ Positions \subseteq Nat /\ 0 \in Positions
    /\ CommandDepth \in Nat \ {0} /\ StatusDepth \in Nat \ {0}

MODE_SCISSOR == 3

(***************************************************************************)
(* Robotiq3FCommand.  "life" is no field of the message: it names the      *)
(* controller process that sent the command, for the properties only, as   *)
(* command identifiers start again from 1 with every controller process.   *)
(***************************************************************************)
Command == [id : Nat, life : Nat, activate : BOOLEAN, mode : Modes, go_to : BOOLEAN,
            automatic_release : BOOLEAN, position : Positions]

\* What identifies a command for good.
KeyOf(c) == <<c.life, c.id>>

\* `Command{}`: every field zero.  publish_command() fills the identifier in.
BlankCommand == [id |-> 0, life |-> 0, activate |-> FALSE, mode |-> 0, go_to |-> FALSE,
                 automatic_release |-> FALSE, position |-> 0]

Initializations == {"reset", "activating", "mode_change", "ready"}
\* "stopped": MOTION_REACHED, or MOTION_PARTIAL_CONTACT, or MOTION_ALL_CONTACT.
Motions == {"moving", "stopped"}

Gripper == [activated : BOOLEAN, mode : Modes, go_to : BOOLEAN,
            initialization : Initializations, motion : Motions,
            fault : BOOLEAN, requested : Positions]

\* The gripper after power-up, and the echo of an all-zero register image.
PoweredUp == [activated |-> FALSE, mode |-> 0, go_to |-> FALSE, initialization |-> "reset",
              motion |-> "stopped", fault |-> FALSE, requested |-> 0]

\* What the nodes may find when they start: a gripper just powered up, or one
\* that earlier processes left activated.
InitialGrippers == {PoweredUp, [PoweredUp EXCEPT !.activated = TRUE, !.initialization = "ready"]}

\* The zero-initialised `Status status;` that is published while disconnected
\* (motion_status 0 is MOTION_MOVING).
BlankStatus == [PoweredUp EXCEPT !.motion = "moving"]

Status == [connected : BOOLEAN, connection_id : Nat, last_command_id : Nat,
           gripper : Gripper]

-----------------------------------------------------------------------------
\* The gripper g once command c has been written to its output registers.
Latch(g, c) ==
    [activated      |-> c.activate,
     mode           |-> c.mode,
     go_to          |-> c.go_to,
     requested      |-> c.position,
     initialization |-> CASE ~c.activate   -> "reset"
                          [] ~g.activated  -> "activating"
                          [] g.activated /\ c.activate /\ g.initialization = "ready"
                               /\ g.mode # c.mode -> "mode_change"
                          [] OTHER         -> g.initialization,
     motion         |-> IF c.activate /\ c.go_to THEN "moving" ELSE "stopped",
     fault          |-> c.activate /\ g.fault]

\* What the gripper may turn into by itself.
Evolutions(g) ==
    {next \in {[g EXCEPT !.initialization = "ready"]} :
        g.initialization \in {"activating", "mode_change"}}
    \union
    {next \in {[g EXCEPT !.motion = "stopped"], [g EXCEPT !.fault = TRUE]} :
        g.motion = "moving" /\ g.initialization = "ready" /\ next # g}

\* A reliable KEEP_LAST topic: publishing to a full one drops its oldest sample.
Push(topic, depth, sample) ==
    Append(IF Len(topic) < depth THEN topic ELSE Tail(topic), sample)
=============================================================================
