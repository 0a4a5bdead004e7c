------------------------ MODULE Robotiq3FController ------------------------
(***************************************************************************)
(* The backend-neutral controller of the Robotiq 3F: robotiq_3f_controller.*)
(*                                                                         *)
(* Requests run concurrently: the callbacks of a reentrant group on three  *)
(* executor threads, and one thread per accepted action goal.  They share  *)
(* the busy flag, the identifier counter, the last command and the last    *)
(* status.  A request is a small program; `op[o].pc` is its next step, and *)
(* a step ends where another thread can come in between.  publish_command()*)
(* is three such steps: take an identifier, remember the command, publish. *)
(*                                                                         *)
(* Time is abstract: any test of the age of the status may find it older   *)
(* than status_timeout_, and any test of a deadline may find it passed.    *)
(***************************************************************************)
EXTENDS Gripper3F

CONSTANTS
    Ops,            \* the requests made, each at most once
    KindsOf,        \* KindsOf[o]: what request o may be
    Goals,          \* the [mode, position] goals requested
    ActivationMode, \* activation_mode_
    MaxLives,       \* bound: controller processes, one after the other
    MayShutDown,    \* whether the process may be told to shut down
    NoStatus        \* no status received yet

Kinds == {"activate", "deactivate", "stop", "move", "gripper_command"}
ActionKinds == {"move", "gripper_command"}
MODE_PINCH == 1

Goal == [mode : Modes, position : Positions]

ASSUME ControllerAssumption ==
    /\ KindsOf \in [Ops -> SUBSET Kinds]
    /\ Goals \subseteq Goal
    /\ ActivationMode \in Modes
    /\ MaxLives \in Nat
    /\ MayShutDown \in BOOLEAN
    /\ NoStatus \notin Status

VARIABLES
    commandTopic,  \* backend/command
    statusTopic,   \* backend/status
    busy,          \* busy_
    nextId,        \* next_command_id_
    lastCommand,   \* last_command_; Init has have_command_ = FALSE
    haveCommand,   \* have_command_
    current,       \* current_status_, or NoStatus while have_status_ is FALSE
    op,            \* op[o]: the locals of request o
    stage,         \* "spinning", "stopped" (context shut down), "destroying"
    life           \* history: which controller process this is

nodeVars == <<busy, nextId, lastCommand, haveCommand, current, stage, life>>
controllerVars == <<commandTopic, statusTopic, nodeVars, op>>

Pcs == {"idle", "begin", "check", "copy", "assign", "remember", "publish", "wait", "finish",
        "release", "done", "dead"}

\* Which of its commands a request is publishing or waiting for.
Phases == {"none", "reset", "activate", "deactivate", "move", "halt", "stop"}
Results == {"none", "busy", "failed", "aborted", "canceled", "ok"}

Op == [kind : Kinds \union {"none"}, pc : Pcs, phase : Phases,
       goal : Goal,
       command : Command,            \* the local `command`
       sent : [Phases -> Nat],       \* history: the identifiers it took, 0 for none
       life : Nat,                   \* history: the process it ran in
       connection : Nat,             \* the local `connection_id`
       cancelling : BOOLEAN,         \* goal_handle->is_canceling()
       result : Results]

IdleOp == [kind |-> "none", pc |-> "idle", phase |-> "none",
           goal |-> [mode |-> 0, position |-> 0], command |-> BlankCommand,
           sent |-> [phase \in Phases |-> 0], life |-> 0, connection |-> 0,
           cancelling |-> FALSE, result |-> "none"]

TypeOK ==
    /\ commandTopic \in Seq(Command)
    /\ statusTopic \in Seq(Status)
    /\ busy \in BOOLEAN /\ haveCommand \in BOOLEAN
    /\ nextId \in Nat \ {0} /\ life \in Nat
    /\ lastCommand \in Command
    /\ current \in Status \union {NoStatus}
    /\ op \in [Ops -> Op]
    /\ stage \in {"spinning", "stopped", "destroying"}

\* Fault for ControllerInit: the identifiers start with the reserved one.
ControllerInitReserved ==
    /\ busy = FALSE /\ nextId = 0
    /\ lastCommand = BlankCommand /\ haveCommand = FALSE
    /\ current = NoStatus
    /\ op = [o \in Ops |-> IdleOp]
    /\ stage = "spinning" /\ life = 1

ControllerInit ==
    /\ busy = FALSE /\ nextId = 1
    /\ lastCommand = BlankCommand /\ haveCommand = FALSE
    /\ current = NoStatus
    /\ op = [o \in Ops |-> IdleOp]
    /\ stage = "spinning" /\ life = 1

\* Request o goes on at pc.
Goto(o, pc) == op' = [op EXCEPT ![o].pc = pc]

\* What is left of a request when its locals are gone.
Ended(r, pc, result) ==
    [IdleOp EXCEPT !.kind = r.kind, !.pc = pc, !.result = result, !.sent = r.sent,
                   !.life = r.life, !.connection = r.connection]

-----------------------------------------------------------------------------
(* receive_status() and current_status().                                  *)

Without(s, i) == [k \in 1..(Len(s) - 1) |-> IF k < i THEN s[k] ELSE s[k + 1]]

\* The callbacks of a reentrant group run on several threads: one that has taken a
\* status may store it after another has stored a later one.  A status counts as on
\* the topic until it is stored.
ReceiveStatus ==
    /\ stage = "spinning"
    /\ \E i \in DOMAIN statusTopic :
          /\ current' = statusTopic[i]
          /\ statusTopic' = Without(statusTopic, i)
    /\ UNCHANGED <<commandTopic, busy, nextId, lastCommand, haveCommand, op, stage, life>>

\* current_status() hands out a status, unless it is too old.
StatusUsable == current # NoStatus /\ current.connected

-----------------------------------------------------------------------------
(* Requests begin.                                                         *)

\* A callback starts: a service request, or a goal that passed validation.
\* gripper_command always selects Pinch mode.
Call(o) ==
    /\ stage = "spinning" /\ op[o].pc = "idle"
    /\ \E kind \in KindsOf[o], goal \in Goals :
        /\ kind = "gripper_command" => goal.mode = MODE_PINCH
        /\ op' = [op EXCEPT ![o].kind = kind,
                            ![o].life = life,
                            ![o].goal = IF kind \in ActionKinds THEN goal ELSE @,
                            ![o].pc = IF kind = "stop" THEN "check" ELSE "begin"]
    /\ UNCHANGED <<commandTopic, statusTopic, nodeVars>>

\* Fault for Begin: the BusyGuard is made before the test, so that a refused
\* request lowers the flag of the one that runs.
BeginGuardsFirst(o) ==
    /\ op[o].pc = "begin"
    /\ busy' = TRUE
    /\ op' = [op EXCEPT ![o].pc = IF busy THEN "release" ELSE "check",
                        ![o].result = IF busy THEN "busy" ELSE "none"]
    /\ UNCHANGED <<commandTopic, statusTopic, nextId, lastCommand, haveCommand, current,
                   stage, life>>

\* Fault for Begin: what the exchange returns is not looked at.
BeginUntested(o) ==
    /\ op[o].pc = "begin"
    /\ busy' = TRUE
    /\ Goto(o, "check")
    /\ UNCHANGED <<commandTopic, statusTopic, nextId, lastCommand, haveCommand, current,
                   stage, life>>

\* begin_operation(), and the exchange in the goal callbacks.
Begin(o) ==
    /\ op[o].pc = "begin"
    /\ busy' = TRUE
    /\ op' = [op EXCEPT ![o] = IF busy THEN Ended(@, "done", "busy")
                               ELSE [@ EXCEPT !.pc = "check"]]
    /\ UNCHANGED <<commandTopic, statusTopic, nextId, lastCommand, haveCommand, current,
                   stage, life>>

\* A cancel request for an accepted goal is always accepted.
Cancel(o) ==
    /\ stage = "spinning"
    /\ op[o].kind \in ActionKinds
    /\ op[o].pc \notin {"idle", "begin", "release", "done", "dead"}
    /\ ~op[o].cancelling
    /\ op' = [op EXCEPT ![o].cancelling = TRUE]
    /\ UNCHANGED <<commandTopic, statusTopic, nodeVars>>

\* The command a request publishes first.
FirstPhase(kind) ==
    CASE kind = "activate"   -> "reset"
      [] kind = "deactivate" -> "deactivate"
      [] kind = "stop"       -> "stop"
      [] OTHER               -> "move"

MoveCommand(goal) ==
    [BlankCommand EXCEPT !.activate = TRUE, !.go_to = TRUE,
                         !.mode = goal.mode, !.position = goal.position]

\* What stop() sends when no command was sent before.
KeepState(g) == [BlankCommand EXCEPT !.activate = g.activated, !.mode = g.mode]

\* current_status() hands out a status, and for a move the gripper is ready.
MayProceed(o) ==
    /\ StatusUsable
    /\ op[o].kind \in ActionKinds =>
          current.gripper.activated /\ current.gripper.initialization = "ready"

\* It does not, or the status is too old: the request ends early.  Only stop()
\* holds no BusyGuard.
CheckFails(o) ==
    /\ op[o].pc = "check"
    /\ op' = [op EXCEPT ![o] =
            IF @.kind = "stop" THEN Ended(@, "done", "failed")
            ELSE [@ EXCEPT !.pc = "release",
                           !.result = IF op[o].kind \in ActionKinds
                                      THEN "aborted" ELSE "failed"]]
    /\ UNCHANGED <<commandTopic, statusTopic, nodeVars>>

Check(o) ==
    /\ op[o].pc = "check" /\ MayProceed(o)
    /\ op' = [op EXCEPT
        ![o].connection = current.connection_id,
        ![o].phase = FirstPhase(op[o].kind),
        ![o].command = CASE op[o].kind \in ActionKinds -> MoveCommand(op[o].goal)
                         [] op[o].kind = "stop"         -> KeepState(current.gripper)
                         [] OTHER                       -> BlankCommand,
        ![o].pc = IF op[o].kind = "stop" THEN "copy" ELSE "assign"]
    /\ UNCHANGED <<commandTopic, statusTopic, nodeVars>>

\* stop() repeats the last command, if there is one, with go_to cleared.
CopyLast(o) ==
    /\ op[o].pc = "copy"
    /\ op' = [op EXCEPT
        ![o].command = [(IF haveCommand THEN lastCommand ELSE @)
                           EXCEPT !.go_to = FALSE, !.automatic_release = FALSE],
        ![o].pc = "assign"]
    /\ UNCHANGED <<commandTopic, statusTopic, nodeVars>>

-----------------------------------------------------------------------------
(* publish_command().                                                      *)

\* next_command_id_.fetch_add(1)
AssignId(o) ==
    /\ op[o].pc = "assign"
    /\ nextId' = nextId + 1
    /\ op' = [op EXCEPT
        ![o].command.id = nextId, ![o].command.life = life,
        ![o].sent[op[o].phase] = nextId,
        ![o].pc = "remember"]
    /\ UNCHANGED <<commandTopic, statusTopic, busy, lastCommand, haveCommand, current,
                   stage, life>>

\* last_command_ = command, under command_mutex_.
Remember(o) ==
    /\ op[o].pc = "remember"
    /\ lastCommand' = op[o].command /\ haveCommand' = TRUE
    /\ Goto(o, "publish")
    /\ UNCHANGED <<commandTopic, statusTopic, busy, nextId, current, stage, life>>

\* Fault for Publish: the topic does not keep the order.
PublishUnordered(o) ==
    /\ op[o].pc = "publish"
    /\ commandTopic' = IF stage = "spinning" THEN <<op[o].command>> \o commandTopic
                       ELSE commandTopic
    /\ op' = [op EXCEPT ![o] =
            CASE @.phase = "stop" -> Ended(@, "done", "ok")
              [] @.phase = "halt" -> [@ EXCEPT !.pc = "finish"]
              [] OTHER            -> [@ EXCEPT !.pc = "wait"]]
    /\ UNCHANGED <<statusTopic, nodeVars>>

\* Fault for Publish: once the context is shut down, it blocks.
PublishBlocks(o) ==
    /\ op[o].pc = "publish" /\ stage = "spinning"
    /\ commandTopic' = Push(commandTopic, CommandDepth, op[o].command)
    /\ op' = [op EXCEPT ![o] =
            CASE @.phase = "stop" -> Ended(@, "done", "ok")
              [] @.phase = "halt" -> [@ EXCEPT !.pc = "finish"]
              [] OTHER            -> [@ EXCEPT !.pc = "wait"]]
    /\ UNCHANGED <<statusTopic, nodeVars>>

\* backend_command_publisher_->publish(command), which does nothing once the
\* context is shut down.
Publish(o) ==
    /\ op[o].pc = "publish"
    /\ commandTopic' = IF stage = "spinning" THEN Push(commandTopic, CommandDepth, op[o].command)
                       ELSE commandTopic
    /\ op' = [op EXCEPT ![o] =
            CASE @.phase = "stop" -> Ended(@, "done", "ok")
              [] @.phase = "halt" -> [@ EXCEPT !.pc = "finish"]
              [] OTHER            -> [@ EXCEPT !.pc = "wait"]]
    /\ UNCHANGED <<statusTopic, nodeVars>>

-----------------------------------------------------------------------------
(* wait_for_status().  One iteration is one step: it holds status_mutex_.  *)

\* Fault for Satisfied: the identifier is not compared.
SatisfiedByAnyCommand(o) ==
    LET g == current.gripper
    IN  CASE op[o].phase = "reset"      -> ~g.activated /\ g.initialization = "reset"
          [] op[o].phase = "activate"   -> g.activated /\ g.initialization = "ready"
          [] op[o].phase = "deactivate" -> ~g.activated
          [] OTHER -> g.go_to /\ g.requested = op[o].goal.position /\ g.motion # "moving"

\* The predicate a request waits for.
Satisfied(o) ==
    LET g == current.gripper
    IN  /\ current.last_command_id = op[o].command.id
        /\ CASE op[o].phase = "reset" ->
                  ~g.activated /\ g.initialization = "reset"
             [] op[o].phase = "activate" ->
                  g.activated /\ g.initialization = "ready" /\ g.mode = ActivationMode
             [] op[o].phase = "deactivate" ->
                  ~g.activated
             [] OTHER ->
                  /\ g.mode = op[o].goal.mode /\ g.go_to
                  /\ g.initialization = "ready"
                  /\ g.requested = op[o].goal.position
                  /\ g.motion # "moving" \/ g.fault

\* Why an iteration gives up before it looks at the age of the status, in the
\* order of the code; "none" when it does not.
Obstacle(o) ==
    CASE stage = "destroying"                     -> "shutdown"
      [] op[o].cancelling                         -> "cancelled"
      [] ~current.connected                       -> "disconnected"
      [] current.connection_id # op[o].connection -> "reconnected"
      [] OTHER                                    -> "none"

(***************************************************************************)
(* The request gives up.  A move first sends a stop, if its final_status   *)
(* is connected and of the connection the move started on.  final_status   *)
(* starts as such a status, is assigned after the test for cancellation    *)
(* and before those for disconnection and reconnection, and the loop only  *)
(* goes on with such a one: so the stop is sent exactly when the reason is *)
(* neither of the latter two, on whatever connection the backend now is.   *)
(***************************************************************************)
Abandon(o, why) ==
    LET moves == op[o].kind \in ActionKinds
        halts == moves /\ why \notin {"disconnected", "reconnected"}
    IN  op' = [op EXCEPT
        ![o].command = IF halts THEN [@ EXCEPT !.go_to = FALSE] ELSE @,
        ![o].phase = IF halts THEN "halt" ELSE @,
        ![o].result = IF moves THEN @ ELSE "failed",
        ![o].pc = CASE halts -> "assign"
                    [] moves /\ ~halts -> "finish"
                    [] OTHER -> "release"]

WaitFails(o) ==
    /\ op[o].pc = "wait" /\ Obstacle(o) # "none"
    /\ Abandon(o, Obstacle(o))
    /\ UNCHANGED <<commandTopic, statusTopic, nodeVars>>

\* The predicate holds.  An activation goes on from its reset to the activation
\* proper; a move that stopped on a fault is aborted.
WaitSucceeds(o) ==
    /\ op[o].pc = "wait" /\ Obstacle(o) = "none" /\ Satisfied(o)
    /\ op' = IF op[o].phase = "reset"
             THEN [op EXCEPT ![o].phase = "activate",
                             ![o].command = [BlankCommand EXCEPT !.activate = TRUE,
                                                                 !.mode = ActivationMode],
                             ![o].pc = "assign"]
             ELSE [op EXCEPT ![o].pc = "release",
                             ![o].result = IF /\ op[o].kind \in ActionKinds
                                              /\ current.gripper.fault
                                           THEN "aborted" ELSE "ok"]
    /\ UNCHANGED <<commandTopic, statusTopic, nodeVars>>

\* Fault for WaitTimesOut: the deadline is tested only once the backend has
\* acknowledged the command.
WaitTimesOutAcknowledged(o) ==
    /\ op[o].pc = "wait" /\ Obstacle(o) = "none"
    /\ current.last_command_id = op[o].command.id
    /\ Abandon(o, "timeout")
    /\ UNCHANGED <<commandTopic, statusTopic, nodeVars>>

\* The status is too old, or it does not satisfy the predicate and the deadline
\* has passed.  (When it has not, the iteration changes nothing.)
WaitTimesOut(o) ==
    /\ op[o].pc = "wait" /\ Obstacle(o) = "none"
    /\ Abandon(o, "timeout")
    /\ UNCHANGED <<commandTopic, statusTopic, nodeVars>>

-----------------------------------------------------------------------------
(* Requests end.                                                           *)

\* The terminal state of an abandoned goal.
Finish(o) ==
    /\ op[o].pc = "finish"
    /\ op' = [op EXCEPT ![o].result = IF op[o].cancelling THEN "canceled" ELSE "aborted",
                        ![o].pc = "release"]
    /\ UNCHANGED <<commandTopic, statusTopic, nodeVars>>

\* ~BusyGuard: after a goal's result was sent, before a service's response is.
Release(o) ==
    /\ op[o].pc = "release"
    /\ busy' = FALSE
    /\ op' = [op EXCEPT ![o] = Ended(@, "done", @.result)]
    /\ UNCHANGED <<commandTopic, statusTopic, nextId, lastCommand, haveCommand, current,
                   stage, life>>

\* Every step a request cannot skip.
Ends(o) == WaitFails(o) \/ WaitSucceeds(o) \/ WaitTimesOut(o)

Advances(o) ==
    \/ Begin(o) \/ CheckFails(o) \/ Check(o) \/ CopyLast(o)
    \/ AssignId(o) \/ Remember(o) \/ Publish(o)
    \/ Finish(o) \/ Release(o)

-----------------------------------------------------------------------------
(* The process.                                                            *)

Underway(o) == op[o].pc \notin {"idle", "done", "dead"}

\* The context is shut down: spin() lets the callbacks that run return.
SpinEnds ==
    /\ MayShutDown
    /\ stage = "spinning" /\ stage' = "stopped"
    /\ UNCHANGED <<commandTopic, statusTopic, busy, nextId, lastCommand, haveCommand, current,
                   op, life>>

\* The destructor, once no executor thread runs a callback any more.
Destroy ==
    /\ stage = "stopped" /\ stage' = "destroying"
    /\ \A o \in Ops : Underway(o) => op[o].kind \in ActionKinds /\ op[o].pc # "begin"
    /\ UNCHANGED <<commandTopic, statusTopic, busy, nextId, lastCommand, haveCommand, current,
                   op, life>>

\* The process dies and a new one starts: its identifiers start from 1 again.
RestartController ==
    /\ life < MaxLives /\ life' = life + 1
    /\ busy' = FALSE /\ nextId' = 1
    /\ lastCommand' = BlankCommand /\ haveCommand' = FALSE
    /\ current' = NoStatus
    /\ op' = [o \in Ops |-> IF Underway(o) THEN Ended(op[o], "dead", "none") ELSE op[o]]
    /\ stage' = "spinning"
    /\ statusTopic' = <<>>
    /\ UNCHANGED commandTopic

ControllerNext ==
    \/ ReceiveStatus
    \/ \E o \in Ops : Call(o) \/ Cancel(o) \/ Advances(o) \/ Ends(o)
    \/ SpinEnds \/ Destroy \/ RestartController
=============================================================================
