-------------------------- MODULE SimulatedGripper --------------------------
(***************************************************************************)
(* The backend of the Gazebo simulation, robotiq_3f_sim_backend.py, and    *)
(* the joint state publisher, which reads the statuses of any backend as   *)
(* the controller passes them on.  Both turn raw positions into joint      *)
(* angles, each with its own code and with curves of the same values.  No  *)
(* launch file starts the two together; put side by side, they show        *)
(* whether the two mappings are one.                                       *)
(*                                                                         *)
(* The axes are finger A, finger B and the scissor; finger C is left out,  *)
(* as the code treats it like B, and one curve stands for the three joints *)
(* of a finger.  Positions are counted in grains, half raw units, since an *)
(* axis may be anywhere between two of them.  An angle is a fraction.      *)
(***************************************************************************)
EXTENDS Integers, Sequences, SequencesExt

CONSTANTS
    MaxRaw,            \* 255
    Rest,              \* the raw position of a resting finger, 6
    RestScissor,       \* that of the scissor, and its default in a mode without one, 137
    Anchors,           \* mode_scissor: raw scissor position per mode
    FingerCurve, PinchCurve, ScissorCurve,
    Shapes,            \* the commands that may be sent, but for their id
    PublishReference,  \* publish_reference_without_status
    RequireActivated,  \* require_activated_status
    MaxCommands, MaxRestarts,    \* bounds
    BackendDepth, StatusDepth    \* of the queues for "backend/status" and "status"

Grain == 2
Axes == {"a", "b", "scissor"}
MODE_BASIC == 0
MODE_PINCH == 1
MODE_SCISSOR == 3

Curve == [inputs : Seq(Int), outputs : Seq(Int)]

\* The constructor of PiecewiseLinearMap throws otherwise.
Accepted(curve) ==
    /\ Len(curve.inputs) >= 2 /\ Len(curve.inputs) = Len(curve.outputs)
    /\ \A i \in 2..Len(curve.inputs) : curve.inputs[i - 1] < curve.inputs[i]

\* Robotiq3FCommand, whose fields are of the width of the registers.
Shape == [id : Nat, mode : Nat, activate : BOOLEAN, goTo : BOOLEAN,
          individualFinger : BOOLEAN, individualScissor : BOOLEAN,
          a : 0..MaxRaw, b : 0..MaxRaw, scissor : 0..MaxRaw,
          speed : 0..MaxRaw, speedB : 0..MaxRaw]

\* The anchors are parameters, and configured as positions of the register.
ASSUME RegisterAssumption ==
    /\ MaxRaw \in Nat /\ Rest \in 0..MaxRaw /\ RestScissor \in 0..MaxRaw
    /\ \A mode \in DOMAIN Anchors : Anchors[mode] \in 0..MaxRaw
    /\ Shapes \subseteq Shape

ASSUME CurveAssumption ==
    \A curve \in {FingerCurve, PinchCurve, ScissorCurve} : curve \in Curve /\ Accepted(curve)

VARIABLES
    commandTopic,  \* the commands not received yet
    sent,          \* history: the commands sent
    status,        \* _status, but for the positions
    actual, target, speeds,
    joints,        \* the joint targets published last
    backendTopic,  \* the statuses published and not passed on
    statusTopic,   \* the statuses passed on and not received
    reported,      \* history: the status published last
    pose,          \* joint_state_.position
    haveValid,     \* have_valid_status_
    shown,         \* the joint state published last, or NoPose
    restarts

simVars == <<status, actual, target, speeds, joints, reported>>
publisherVars == <<pose, haveValid, shown>>
vars == <<commandTopic, sent, simVars, backendTopic, statusTopic, publisherVars, restarts>>

-----------------------------------------------------------------------------
(* The curves.                                                             *)

\* The point `at` of a curve between two of its breakpoints.
Between(curve, low, high, at) ==
    LET den == Grain * (curve.inputs[high] - curve.inputs[low])
    IN  <<curve.outputs[low] * den
          + (at - Grain * curve.inputs[low]) * (curve.outputs[high] - curve.outputs[low]), den>>

\* interpolate() looks for the first breakpoint that is not below.
Interpolate(curve, at) ==
    LET n == Len(curve.inputs) IN
    IF at <= Grain * curve.inputs[1] THEN <<curve.outputs[1], 1>>
    ELSE IF at >= Grain * curve.inputs[n] THEN <<curve.outputs[n], 1>>
    ELSE LET index == CHOOSE i \in 2..n :
                          Grain * curve.inputs[i - 1] < at /\ at <= Grain * curve.inputs[i]
         IN  Between(curve, index - 1, index, at)

\* Fault for Evaluate: the value of the breakpoint above is taken as it is.
EvaluateShifted(curve, at) ==
    LET n == Len(curve.inputs) IN
    IF at <= Grain * curve.inputs[1] THEN <<curve.outputs[1], 1>>
    ELSE IF at >= Grain * curve.inputs[n] THEN <<curve.outputs[n], 1>>
    ELSE LET upper == CHOOSE i \in 2..n :
                          Grain * curve.inputs[i - 1] <= at /\ at < Grain * curve.inputs[i]
         IN  <<curve.outputs[upper], 1>>

\* PiecewiseLinearMap::evaluate() takes std::upper_bound(), the first one above.
Evaluate(curve, at) ==
    LET n == Len(curve.inputs) IN
    IF at <= Grain * curve.inputs[1] THEN <<curve.outputs[1], 1>>
    ELSE IF at >= Grain * curve.inputs[n] THEN <<curve.outputs[n], 1>>
    ELSE LET upper == CHOOSE i \in 2..n :
                          Grain * curve.inputs[i - 1] <= at /\ at < Grain * curve.inputs[i]
         IN  Between(curve, upper - 1, upper, at)

\* GripperJointMapper::map(), of raw positions.
MapPose(mode, raw) ==
    LET finger == IF mode = MODE_PINCH THEN PinchCurve ELSE FingerCurve
    IN  [axis \in Axes |->
            Evaluate(IF axis = "scissor" THEN ScissorCurve ELSE finger, Grain * raw[axis])]

\* _publish_joint_targets(), of the positions between them too.
JointTargets(mode, positions) ==
    LET finger == IF mode = MODE_PINCH THEN PinchCurve ELSE FingerCurve
    IN  [axis \in Axes |->
            Interpolate(IF axis = "scissor" THEN ScissorCurve ELSE finger, positions[axis])]

SameAngle(p, q) == p[1] * q[2] = q[1] * p[2]
SameAngles(p, q) == \A axis \in Axes : SameAngle(p[axis], q[axis])

-----------------------------------------------------------------------------
(* Robotiq3FSimBackend.                                                    *)

\* round(), half to even, clamped.
Rounded(at) ==
    LET below == at \div Grain
        nearest == IF at % Grain = 0 \/ below % 2 = 0 THEN below ELSE below + 1
    IN  IF nearest > MaxRaw THEN MaxRaw ELSE nearest

\* self._mode_scissor.get(mode, 137)
ModeScissor(mode) == IF mode \in DOMAIN Anchors THEN Anchors[mode] ELSE RestScissor

AtRest == [axis \in Axes |-> Grain * (IF axis = "scissor" THEN RestScissor ELSE Rest)]

\* What a command asks for, in raw units.
Asked(c) ==
    IF c.mode = MODE_SCISSOR /\ ~c.individualScissor
    THEN [a |-> Rest, b |-> Rest, scissor |-> c.a]
    ELSE [a |-> c.a, b |-> IF c.individualFinger THEN c.b ELSE c.a,
          scissor |-> IF c.individualScissor THEN c.scissor ELSE ModeScissor(c.mode)]

\* The speed registers, as grains per tick, of the axes.
Speeds(c) ==
    [a |-> c.speed, b |-> IF c.individualFinger THEN c.speedB ELSE c.speed,
     scissor |-> IF c.individualScissor THEN c.speedB ELSE c.speed]

\* _publish_status(): the positions are the rounded ones.
PublishedStatus == [status' EXCEPT !.actual = [axis \in Axes |-> Rounded(actual'[axis])]]

NewStatus == [lastId |-> 0, mode |-> MODE_BASIC, activated |-> FALSE, goTo |-> FALSE,
              stopped |-> TRUE, actual |-> [axis \in Axes |-> 0]]

NoStatus == [NewStatus EXCEPT !.lastId = -1]
NoPose == <<>>
Reference == MapPose(MODE_BASIC, [axis \in Axes |->
                 IF axis = "scissor" THEN RestScissor ELSE Rest])

Init ==
    /\ commandTopic = <<>> /\ sent = <<>>
    /\ status = NewStatus /\ actual = AtRest /\ target = AtRest
    /\ speeds = [axis \in Axes |-> Grain * MaxRaw]
    /\ joints = JointTargets(MODE_BASIC, AtRest) /\ reported = NoStatus
    /\ backendTopic = <<>> /\ statusTopic = <<>>
    /\ pose = Reference /\ haveValid = FALSE /\ shown = NoPose
    /\ restarts = 0

\* A controller numbers its commands.
Send(shape) ==
    /\ Len(sent) < MaxCommands
    /\ LET command == [shape EXCEPT !.id = Len(sent) + 1]
       IN  sent' = Append(sent, command) /\ commandTopic' = Append(commandTopic, command)
    /\ UNCHANGED <<simVars, backendTopic, statusTopic, publisherVars, restarts>>

\* The test _receive_command() begins with.
Meaningless(command) == command.id = 0 \/ command.mode > MODE_SCISSOR

\* _receive_command() throws the command away.
Discard ==
    /\ commandTopic # <<>> /\ Meaningless(Head(commandTopic))
    /\ commandTopic' = Tail(commandTopic)
    /\ UNCHANGED <<sent, simVars, backendTopic, statusTopic, publisherVars, restarts>>

\* _receive_command() executes it at once.
ReceiveCommand ==
    /\ commandTopic # <<>> /\ ~Meaningless(Head(commandTopic))
    /\ commandTopic' = Tail(commandTopic)
    /\ LET c == Head(commandTopic) IN
          /\ status' = [status EXCEPT !.lastId = c.id, !.mode = c.mode, !.goTo = c.goTo,
                                      !.activated = c.activate, !.stopped = ~(c.activate /\ c.goTo)]
          /\ target' = IF ~c.activate THEN target
                       ELSE IF ~c.goTo THEN actual
                       ELSE [axis \in Axes |-> Grain * Asked(c)[axis]]
          /\ speeds' = IF c.activate /\ c.goTo THEN Speeds(c) ELSE speeds
    /\ UNCHANGED <<sent, actual, joints, backendTopic, statusTopic, reported, publisherVars, restarts>>

\* One axis after a tick.
Approach(from, to, step) ==
    IF to - from > step THEN from + step
    ELSE IF from - to > step THEN from - step
    ELSE to

\* A queue that keeps the last ones.
Queued(topic, message, depth) ==
    Append(IF Len(topic) < depth THEN topic ELSE Tail(topic), message)

\* Fault for Update: only the axis looked at last says whether there is motion.
UpdateLastAxis(ticks) ==
    /\ IF status.activated /\ status.goTo
       THEN /\ actual' = [axis \in Axes |->
                             Approach(actual[axis], target[axis], ticks * speeds[axis])]
            /\ status' = [status EXCEPT !.stopped = (actual'["scissor"] = target["scissor"])]
       ELSE UNCHANGED <<actual, status>>
    /\ joints' = JointTargets(status'.mode, actual')
    /\ reported' = PublishedStatus /\ backendTopic' = Queued(backendTopic, reported', BackendDepth)
    /\ UNCHANGED <<commandTopic, sent, target, speeds, statusTopic, publisherVars, restarts>>

\* _update(), `ticks` after the last one: none while the simulated clock stands.
Update(ticks) ==
    /\ IF status.activated /\ status.goTo
       THEN /\ actual' = [axis \in Axes |->
                             Approach(actual[axis], target[axis], ticks * speeds[axis])]
            /\ status' = [status EXCEPT !.stopped = (actual' = target)]
       ELSE UNCHANGED <<actual, status>>
    /\ joints' = JointTargets(status'.mode, actual')
    /\ reported' = PublishedStatus /\ backendTopic' = Queued(backendTopic, reported', BackendDepth)
    /\ UNCHANGED <<commandTopic, sent, target, speeds, statusTopic, publisherVars, restarts>>

\* The process ends, and another one starts, at rest whatever Gazebo's joints do.
SimRestarts ==
    /\ restarts < MaxRestarts /\ restarts' = restarts + 1
    /\ commandTopic' = <<>>
    /\ status' = NewStatus /\ actual' = AtRest /\ target' = AtRest
    /\ speeds' = [axis \in Axes |-> Grain * MaxRaw]
    /\ UNCHANGED <<sent, joints, backendTopic, statusTopic, reported, publisherVars>>

-----------------------------------------------------------------------------
(* The controller between them.                                            *)

\* receive_status() publishes any of the statuses that its concurrent callbacks hold,
\* and it gets through.
PassOn(i) ==
    /\ backendTopic' = RemoveAt(backendTopic, i)
    /\ statusTopic' = Queued(statusTopic, backendTopic[i], StatusDepth)
    /\ UNCHANGED <<commandTopic, sent, simVars, publisherVars, restarts>>

\* The publisher listens by best effort: a status may be lost on its way.
LosePassed(i) ==
    /\ backendTopic' = RemoveAt(backendTopic, i)
    /\ UNCHANGED <<commandTopic, sent, simVars, statusTopic, publisherVars, restarts>>

Relay == \E i \in DOMAIN backendTopic : PassOn(i) \/ LosePassed(i)

-----------------------------------------------------------------------------
(* JointStatePublisherNode.                                                *)

\* status_callback() keeps the pose it has when the status is not for it.
StatusCallback ==
    /\ statusTopic # <<>> /\ statusTopic' = Tail(statusTopic)
    /\ LET message == Head(statusTopic) IN
          IF RequireActivated /\ ~message.activated
          THEN UNCHANGED <<pose, haveValid>>
          ELSE pose' = MapPose(message.mode, message.actual) /\ haveValid' = TRUE
    /\ UNCHANGED <<commandTopic, sent, simVars, backendTopic, shown, restarts>>

\* publish(): the pose it has, with the present time.
Publish ==
    /\ haveValid \/ PublishReference
    /\ shown' = pose
    /\ UNCHANGED <<commandTopic, sent, simVars, backendTopic, statusTopic, pose, haveValid, restarts>>

Next ==
    \/ \E shape \in Shapes : Send(shape)
    \/ Discard \/ ReceiveCommand \/ SimRestarts
    \/ \E ticks \in {0, 1} : Update(ticks)
    \/ Relay \/ StatusCallback \/ Publish

Spec == Init /\ [][Next]_vars

\* The nodes spin, simulated time passes, and not every status is lost.
FairSpec ==
    /\ Spec
    /\ WF_vars(Discard \/ ReceiveCommand) /\ WF_vars(Update(1)) /\ WF_vars(Publish)
    /\ WF_vars(backendTopic # <<>> /\ (PassOn(1) \/ LosePassed(1)))
    /\ SF_vars(\E i \in DOMAIN backendTopic : PassOn(i)) /\ WF_vars(StatusCallback)

-----------------------------------------------------------------------------
(* Properties.                                                             *)

\* A status that reports an activated gripper at the end of a motion shows it
\* where the command it names asked it to go, although commands are executed, and
\* overwrite each other, between two statuses.
SettledIsAsked ==
    reported.activated /\ reported.goTo /\ reported.stopped =>
        reported.actual = Asked(sent[reported.lastId])

\* What the publisher makes of a status that reports an activated gripper at the end
\* of a motion are the joint targets the simulation was sent with it, although the
\* status carries rounded positions and each side looks its curve up in its own way.
SettledIsShown ==
    reported.activated /\ reported.goTo /\ reported.stopped =>
        SameAngles(MapPose(reported.mode, reported.actual), joints)

\* The joint state published last is where the simulation's joints were sent.
ShowsJoints == shown # NoPose /\ SameAngles(shown, joints)

\* Once a motion is commanded for good, the joint states that are published come
\* to be the joints of the simulation, whatever statuses were lost or stood for
\* another mode: the two mappings agree.
PoseSettles ==
    <>[](status.activated /\ status.goTo) =>
        <>[]ShowsJoints
=============================================================================
