# Formal models of the UR5 workcell's ROS 2 nodes

TLA+ models of the concurrent and distributed parts of this repository, checked
with TLC and, for the theorems listed below, proved with TLAPS. Paths are
relative to the repository; `W` stands for `src/ur5_ws/src/ur5_workcell` and `R`
for `src/ur5_ws/src/ros2_robotiq`.

## 1. The system

The workcell is a UR5 robot with grippers and force-torque sensors, driven from
ROS 2. Most of the tree is data (URDF, meshes, MoveIt configuration) and launch
files. The programs with state and concurrency of their own are these:

| Component | State | Operations | Hard behaviour |
|---|---|---|---|
| 3F controller, `W/robotiq_3f/robotiq_3f_controller/src/controller_node.cpp` | busy flag, identifier counter, last command, last status, the locals of each request | services activate, deactivate, stop; actions move and gripper_command; status subscription | requests run concurrently on three executor threads and one thread per goal; lost commands, stale statuses, timeouts, cancellation, shutdown |
| 3F driver, `W/robotiq_3f/robotiq_3f_driver/src/` | one-place slot, readiness flag, identifiers, TCP connection, back-off | receive_command() on the executor; connect, write, read, publish, mark_disconnected() on the worker | two threads; transactions that fail before or after they took effect; reconnection; process restart |
| 3F simulated backend, `W/simulation/ur5_workcell_sim/scripts/robotiq_3f_sim_backend.py` | status, targets, positions, speeds | command callback, timer | executes in the callback, reports from the timer: commands overwrite each other between two statuses |
| FT streamer, `W/robotiq_ft/robotiq_ft_streamer/robotiq_ft_streamer/` | collection, sums, offset, parser buffer, connection | TCP worker, zero service, shutdown | worker against service; reconnection in mid-collection; timeout against completion |
| 2F gripper hardware interface, `R/robotiq_driver/src/` | commands and state shared with a background thread | lifecycle, read, write, background task, retries | non-atomic handshake with the activation controller |
| 2F activation controller, `R/robotiq_controllers/src/` | command interfaces | reactivate service | polls without a deadline |
| Serial FT sensor, `R/robotiq_ft_sensor_hardware/` | static variables: state machine, descriptor, stream flags and timers, reading; the host's buffer | timer callback, zero service, lifecycle, read; connect, stop and start the stream, listen | the sensor is unplugged or falls silent in any state; watchdog and retries; old readings; waits inside a callback |
| 3F joint state publisher, `W/robotiq_3f/robotiq_3f_state_publisher/src/` | pose, whether a status was valid | status callback, timer | lost statuses; a second copy of the mapping of the simulated backend |
| 3F calibration tool, `W/robotiq_3f/robotiq_3f_calibration/` | samples, GUI | buttons | user interface |

How they interact: MoveIt or a user calls the 3F **controller** through services
and actions. The controller publishes commands on `backend/command` and waits
for statuses on `backend/status`; on the other side of the two topics is a
**backend**: the driver, which speaks Modbus TCP to the gripper, or the
simulated one. A command carries an identifier; a status carries the identifier
of the command executed last and the number of the connection. Nothing else
acknowledges a command, and the backend may drop any. The **FT streamer**
stands alone: it reads samples from the robot controller's TCP port, subtracts a
software offset and publishes wrenches; a service starts the collection of a new
offset. The **serial sensor** is another one, on a USB line, with a driver that is
a set of static variables and two hosts, a ros2_control component and a standalone
node. The **joint state publisher** listens to the statuses of whichever backend
runs, as the controller passes them on to `status`, and shows the fingers' angles. The launch files
start it with the driver; in simulation the joint states come from `joint_state_broadcaster`.

What makes them correct, component by component:

* driver: commands are written in order, at most once, only on a connection
  whose status was published, and not on a later connection than the one they
  were stored on; a status names the right command; it reconnects and shuts
  down;
* controller: one operation at a time; commands are executed once and, but for
  stops, in their order; a success means that the gripper executed this very request; a move that was given up is stopped after it, not
  before; every request ends;
* FT streamer: an offset is the mean of the right samples; a success means that
  it is applied, a failure leaves nothing behind; service and shutdown end;
* 2F gripper: one thread at a time uses the driver; positions reach an activated
  gripper only; a re-activation is carried out, however often it fails, and
  answered for the request that asked for it; a deactivation ends with the
  gripper off;
* serial sensor: a reading is handed out when it is decoded and once; a stream
  that died is noticed in a bounded number of callbacks; readings resume whatever
  was lost; a zero is in force from the next reading on; a deactivation ends;
* simulated backend and publisher: a status that reports the end of a motion shows
  what the command it names asked for; the two implementations of the joint
  mapping show the same pose.

`PROJECT.json` lists all components, also those left out, and the hazards: the
places in the code where these properties are at stake.

## 2. The modules

| Module | What it is |
|---|---|
| `Gripper3F` | the data of the 3F nodes, the bounded topics and the gripper itself (external) |
| `Robotiq3FDriver` | the driver: two threads, the network, the gripper |
| `Robotiq3FController` | the controller: one action per step of a request |
| `GripperBackend` | abstract: what a backend promises on the two topics |
| `DriverRefinement` | the refinement mapping from the driver to `GripperBackend` |
| `ControlledGripper` | the controller composed with `GripperBackend` |
| `GripperStack` | the controller composed with the driver, seen through the same mapping |
| `FTStreamer` | the force-torque streamer |
| `Robotiq2FDriver` | the 2F gripper's driver, its serial line and the gripper: exchanges, retries |
| `Robotiq2FGripper` | the 2F hardware interface and the activation controller, over that driver |
| `RobotiqFTSensor` | the serial sensor: its driver, both hosts, the sensor (external) |
| `SimulatedGripper` | the simulated backend and the joint state publisher, with the controller's `status` between them |
| `Robotiq3FDriverProofs`, `ControlledGripperProofs`, `ControlledGripperFlowProofs`, `GripperStackProofs`, `FTStreamerProofs`, `Robotiq2FGripperProofs`, `RobotiqFTSensorProofs`, `SimulatedGripperProofs` | theorems |
| `MCRobotiq3FDriver`, `MCControlledGripper`, `MCGripperStack`, `MCSimulatedGripper` | constants for TLC |

Each module keeps the names of the source where it can. Operators called
"Fault for X" are plausible wrong versions of X; no specification uses them, and
for each property checked, one of them, in the place of X, breaks it.

### Gripper3F
`Command`, `Status` and `Gripper` are records with the fields the code decides
on; `position` stands for all position, speed and force registers, which the
code only copies along with it. `Latch` is what a written register image does to
the gripper (`protocol.cpp`, `pack_command`, `unpack_status`), `Evolutions` what
the gripper does by itself. The gripper is external: it latches what is
written, echoes it, takes time to activate and move, may end in a fault, and may
lose power. `Push` is a reliable KEEP_LAST topic.

### Robotiq3FDriver
The executor thread is `ReceiveCommand` (up to the readiness test,
`driver_node.cpp:105-126`) and `StoreCommand` (line 128): the two are separate
steps because no lock covers both. The worker's `pc` walks through `run()`:
`Connect`/`ConnectFails`, `Swap`, `Write`/`WriteFails`, `Read`/`ReadFails`,
`Enable`; after a failure `NotReady` and `Clear` are the two halves of
`mark_disconnected()`. A failed write may have taken effect. `RequestStop`,
`Exit`, `Restart` are shutdown and a new process; `PowerCycle` and
`GripperEvolves` belong to the gripper. `acceptedIn`, `storedIn`, `session`,
`statusSession` and `written` are history, read by the properties only.

### Robotiq3FController
A request `o` is a small program: `begin` (the exchange on `busy_`), `check`
(`current_status()` and the tests on it), `copy` (stop only), `assign`,
`remember`, `publish` (the three steps of `publish_command()`), `wait`,
`finish`, `release`. `wait_for_status()` holds its mutex for an iteration, so an
iteration is one step: `WaitFails`, `WaitSucceeds`, `WaitTimesOut`, in the order
of the code's tests. Time is abstract: whenever the code compares a time, both
outcomes are possible. `sent` and `life` are history.

`ReceiveStatus` takes any of the statuses on the topic: the callbacks of the reentrant
`status_group_` run on several threads, so that one that has taken a status may store it after
another has stored a later one. A status counts as on the topic until it is stored.

### GripperBackend and the compositions
`GripperBackend` says which behaviour on the two topics a controller may count
on: any command may be lost; the others are executed in the order they were
published, only online and after a status of that connection; a status names the
command executed last. `DriverRefinement` maps the driver onto it (the commands
on their way are those the worker holds, in the slot, in the handler and in the
topic). `ControlledGripper` composes the controller with the contract instead of
the driver, which keeps the state space small and makes its results hold for any
backend that keeps the contract. `GripperStack` composes the real two; it
states the same properties and the mapping carries the controller's results over to it.

### FTStreamer
The methods of `ZeroingManager` each hold one lock, so each is one step:
`Request`, `ResetProgress`, `Collect`, `CancelActive`, and `CloseZeroing`. The
worker is `FTStreamClient.run()` with the callbacks it makes; the executor is
single-threaded (`rclpy.spin`), so one service call runs at a time. A sample is
the pair of the connections its frame began and ended on; a sum is the sequence
of what was added up, so the mean is about exactly those samples. `partial`
stands for the parser's buffer, and whether a wrench is due is
nondeterministic.

### Robotiq2FDriver and Robotiq2FGripper
Three threads. The **manager** makes the lifecycle transitions and calls `read()`
and `write()`, one at a time (the promise of ros2_control, external). The
**background** thread is `background_task()`. The **service** is
`reactivateGripper()` on the executor. `manager`, `background` and `service` are
their program counters; accesses to the plain `double`s and atomics they share
are steps of their own, so `read()` takes four and an iteration of the loop has `BackgroundGoesOn`
(line 312), `BackgroundSkips` or `BackgroundResets` (318), `BackgroundClears` (321),
`BackgroundResponds` (323) and `BackgroundSets` (327).

An operation of the driver is a record in `calls`, one per thread, since nothing
in the driver is locked: `step` is where its exchange is (`send()`), `phase`
which exchange it is in, `retries` the attempt. `SerialRead` and the operation's
reaction to the response, `Accept`, are one step. A response is a number of bytes:
`wire` are under way, `input` in the port's buffer, and the first `late` of
these answer an older request. `read()` consumes as many bytes as its response
has and looks neither at the checksum nor at what they say, so what it makes of
late bytes may be any status. `lag` is the number of late bytes that stood before the end of the
response read last: how far requests and responses are out of step. The status it reads is taken
over where it is judged, in `Accept`; the code's `gripper_status_` holds nothing beyond. A position is a number that was commanded or
indeterminate: `write_command_` before the first `write()`, or NaN converted to
`uint8_t`. `activated`, `lag`, `begunSince` and `doneSince` are history; the last two say whether a
re-activation began since the latest request, and whether the one answered last did, so requests
need no bound.

### RobotiqFTSensor
One thread at a time runs the driver: the one that activates the component (or
initialises the node), then the one that spins the executor. `pc` is where a call
of `rq_sensor_state()` stands and `state` the machine's state. In `RQ_STATE_INIT`
the call goes through `OpenPort`, the listens of `rq_com_tentative_connexion()`,
`Jam` and `StopListen` by turns, and the first Modbus request; `ReadInfo`,
`StartStream`, `AwaitStream` and `Run` are the other states. `Wait` is
`wait_for_other_connection()`, inside the call. `HandOver` is the rest of the
callback. The zero services come between two callbacks.

Every listen is one `Listen(what)`, where `what` is what the 5 ms window held:
nothing, bytes, or a whole message with a good CRC. The two timers of the code are
reset to their maximum when they expire and expire again at once; here they stay
expired. A reading is known by the plug-in of the sensor that sent it. The sensor
is external: it boots streaming or not, is unplugged, falls out of the streaming
mode, misses a jam signal, and answers a request or not. Answers are polled with
`O_NDELAY`, and the check of the answer to the start order counts the wrong number
of bytes (`rq_sensor_com.cpp:1006`), so whether an answer is accepted is left open.
`first`, `fresh` and `silent` are history.

### SimulatedGripper
`ReceiveCommand` and `Discard` are `_receive_command()`, `Update` is `_update()` with
both its publications, `StatusCallback` and `Publish` the publisher's callbacks. The
axes are finger A, finger B (for C as well) and the scissor; a position is counted
in half raw units, since an axis may be anywhere between two. `Interpolate` and
`Evaluate` translate the two implementations of the piecewise-linear curve, which look
for the first breakpoint not below and for the first one above; angles are
fractions, compared exactly. `Relay` is the controller between the two: `PassOn` is
`receive_status()`, whose concurrent callbacks may publish the statuses in another order, and
`LosePassed` a status lost on the best-effort subscription. The literals 6 and 137, which both
nodes have, are `Rest` and `RestScissor`, apart from the configured anchors. The
backend reports `connected` always, so the publisher's test of it is left out.

## 3. The runs

| Run | Shows | Bounds and why they suffice |
|---|---|---|
| `driver` | order, authorisation, session and identifiers of what is written (`WrittenInOrder`, `WrittenAuthorised`, `StoredStaysInSession`, `LastIdIsLastWrite`); the driver implements `GripperBackend` (`ImplementsContract`); `EventuallyServing`, `SlotDrains`, `ShutdownCompletes` | 2 commands, 2 faults, 1 restart: a command in the slot or the handler meets one that is written, and a command of one connection meets the next, twice |
| `driver_replay` (violated) | `NeverReplayed` | 1 command, 1 fault |
| `controller_safety` | `SuccessIsExecuted`, `OnlyStopsOvertake`, `HaltIsLast`, `OneOperation`: an activation or a gripper_command, cancelled or not, against a stop or a deactivation at any moment | one outage (a break, a power cycle or a new backend process); topics of depth 2 and 1, so samples are overwritten as well as delayed |
| `controller_liveness` | `EveryRequestEnds`, `ShutdownCompletes` | one request, two controller processes, one outage |
| `stop_activates` (violated) | `StopNeverActivates` | one move, one stop, one fault |
| `ft_streamer` | `OffsetIsOneCollection`, `SuccessIsApplied`, `NoOrphanCollection`, `OneStrayWrench`, `EveryZeroAnswered`, `ShutdownCompletes` | offsets of 2 samples, chunks of up to 2 frames, 2 connections, 3 collections: a collection is cut, restarted and superseded |
| `ft_failed_zero` (violated) | `FailedZeroKeepsOffset` | one request, one connection |
| `gripper_2f` | `DriverNotShared`, `NoMotionUnlessActivated`, `AnswerIsOwn`, `InactiveIsOff`, `LagIsBounded`, `EveryRequestAnswered`, `DeactivationEnds` | 2 attempts per exchange and 2 faults, so that an operation can fail altogether; responses of 1 and 2 bytes for 8 and 17, so that the longer one can be cut; 1 response that comes after its timeout; any number of requests and activations; 796 thousand states |
| `uncommanded_motion` (violated) | `OnlyCommandsAreSent` | no fault, no request |
| `serial_ft` | `SilenceIsBounded`, `LateOnlyFirst`, `ZeroInForce`, `ReadingResumes`, `DeactivationEnds` | the sensor is unplugged or falls silent once, and may be plugged in again: readings of two plug-ins meet; 2 retries and a watchdog of 1, so that both have to run out one after the other; either host, activated any number of times |
| `serial_ft_start` (violated) | `StreamStartsOrInit` | no fault |
| `simulated_gripper` | `SettledIsAsked`, `SettledIsShown`, `PoseSettles` | 2 commands out of 7 shapes (every mode, an unknown one, single fingers and scissor, a stop, a deactivation), 1 restart; curves with a flat part, two slopes and a falling one, over 4 raw positions; both status topics of depth 1 |

Deadlock is not checked: the nodes do stop, when they are shut down or when the
bounds are used up. All bounds are constants of the modules and named there.

**Fairness.** `driver`: the worker thread and the executor run, and a
blocking call returns (all have timeouts). Nobody has to publish, to stop the
driver or to start it again. `controller_liveness`: the threads of the controller run; an
iteration of `wait_for_status()` comes at least every 50 ms and its deadline
passes. Nothing is assumed of backend, gripper or topics. `ft_streamer`: the two
threads run; connect, recv and the pause have timeouts and `wait()` a deadline.
Nobody has to call the service and the stream may stay silent. `gripper_2f`: the
three threads run, the manager keeps calling `read()` and `write()`, bytes that
are not lost arrive, `read()` has a timeout, an activation of the gripper ends.
Nobody has to make a transition, configure included, or call the service.
`serial_ft`: the driver's thread goes on, and what it asks again and again of a sensor
that is there succeeds in the end: the port opens, a message is heard while the sensor
streams, a jam signal is taken, a register is answered, the order to stream is taken.
Nobody has to plug the sensor in, activate, deactivate or shut down. `simulated_gripper`:
the nodes spin, the controller among them, simulated time passes, and not every status is
lost; nobody has to send a command.

**Late responses on the 2F gripper's line.** Nothing empties the input buffer before a request is
repeated, so a response that comes after its timeout answers the next request and shifts every
later one. `gripper_2f` has one such response (`MaxDelays = 1`). What holds: the shift is never more
than the responses that came late, whatever else is lost, cut or repeated (`LagIsBounded`); the
driver is not shared, no position goes to a gripper that was not activated, and no answer is
another request's, late or not. What does not: once the two are out of step, `on_deactivate()` may
take another response for its own, and `activate()` may wait for a status that was not asked for.
So `InactiveIsOff` speaks of a response with `lag = 0`, and `EveryRequestAnswered` and
`DeactivationEnds` end with `lag > 0` as well; without this TLC refutes all three. No document of
the repository promises anything about late responses, so no run reports it.

**Statuses out of order.** `controller_safety` has a status topic of depth 1, where only the
overwriting of a status is seen. With depth 2 (`Modes = {0}`, `Positions = {0}`, an activation or a
move against a stop) all its invariants hold in 12.85 million states, which is more than a run here
takes. Likewise `simulated_gripper` with `BackendDepth = 2` and no restart, in 425 thousand.

### What the violated runs show
* `driver_replay`: the driver's README says that commands "are never replayed
  after reconnection". `receive_command()` tests `ready_for_commands_` and
  stores the command later without a common lock; when the connection breaks in
  between, `mark_disconnected()` empties the slot first and the command is
  written on the next connection. What does hold, and is proved: a command
  *stored* on an open connection never leaves it (`StoredStaysInSession`).
* `stop_activates`: a stop repeats the last command with `go_to` cleared. After
  a power cycle its `activate` bit starts the activation, in which the fingers
  move.
* `ft_failed_zero`: the zero service's `wait()` times out; before it calls
  `cancel()` the worker completes the collection. The offset changes and the
  service answers that the previous offset was retained.

* `uncommanded_motion`: `on_activate()` starts the communication thread, whose
  first iteration sends `write_command_`. Only `write()` gives it a value; the
  thread may come first. Another way to the same violation: when `read()` ran
  while the component was inactive, `on_activate()` leaves the position command
  NaN, which `write()` converts.
* `serial_ft_start`: `rq_sensor_state.cpp:189` says "If the stream doesn't start, return to
  state init." `rq_com_start_stream()` waits for the first byte in `while (retries < 5)` but
  nothing counts `retries` (`rq_sensor_com.cpp:527`), so without a byte it never returns. The
  counterexample ends in the loop's listens, which change nothing. `serial_ft` therefore
  states `ReadingResumes` and `DeactivationEnds` up to this wait.

Also known, without a run of their own:
* A move that took its identifier before a stop may publish after it, so the gripper
  executes the stop and then moves: `StopIsNotOvertaken` of `GripperStack`, in the place of
  the invariant of `StackActivates.cfg` and with `MaxFaults = 0`, shows it.
* `OnlyStopsOvertake`, `HaltIsLast` and `SuccessIsExecuted` of `GripperStack` are theorems (section 4).
  With `KindsOf <- ActOrMove`, `Ops = {o1}`, `MaxFaults = 1` and `MaxRestarts = 1` in
  `StackActivates.cfg` and these three for its invariant, TLC finds no violation in the 1.3 million
  states either: one activation, or one move and its stop, over a failing and restarting driver.
* The comment on the serial sensor's zero (`rq_sensor_com.cpp:1143-1147`) says that the next
  message decoded becomes the offset; the next listen takes the data decoded last (lines
  347-355), which may be old. What holds is `ZeroInForce`.
* `rq_sensor_com()` closes `fd_connexion` (line 162) that `rq_com_identify_device()` may have
  closed before (line 1193); the variant for a given port leaves the old descriptor open
  when it connects again (line 1178). Descriptors of other threads are not modelled.
* `executor_.cancel()` before the new thread reached `spin()` is lost, and `on_deactivate()`
  joins for ever; so it does while the callback is in `wait_for_other_connection()` and no sensor
  is plugged in. `DeactivationEnds` is stated from a cancel that was seen and for a sensor that is
  there, so it covers the jamming of a stream and not these two. The component's zero
  service never sets `success`.

`OneStrayWrench` is the exact form of the streamer README's "zeroing suppresses
wrench publication": one wrench, corrected before the request, may still come
out after it.

## 4. The theorems

The proofs hold for every value of the constants that satisfies the modules'
assumptions (`DataAssumption`, `ControllerAssumption`, `DriverAssumption`, `StreamerAssumption`, `SerialAssumption`,
`SensorAssumption`, `EnvironmentAssumption`, `RegisterAssumption`). The last one
takes the scissor's anchors to be positions of the register. The anchors are integer parameters of
the simulated backend, which it does not validate; with an anchor outside the register the
reported position would be the clamped one.

`Robotiq3FDriverProofs`: `TypeCorrect`; `WritesAreAuthorised`;
`StoredCommandsStay`; `LastIdIsRight`; `CommandsInOrder`. None of the
properties is inductive. The strengthenings are
* `Authorised`: whatever the handler and the slot hold passed the tests of
  `receive_command()`; while the readiness flag is up, and where the worker is
  about to raise it or to write, the last valid status is of this session;
* `Confined`: a command in the slot that was stored on an open connection belongs
  to the current session, which is open until `mark_disconnected()` has run;
  what the worker is about to write belongs to it too;
* `Ordered`: written, held by the worker, in the slot, in the handler and in the
  topic, the identifiers increase in this order.

Of the same module is `DriverKeepsContract`, the refinement: `GripperBackend`'s `Spec` under the
mapping of `DriverRefinement`. Its steps need `Authorised` (a command is executed only after a status of its connection) and
`Coherent`: at which steps of the worker a connection is open, that it holds a command exactly
when it is about to write one, and that a living link belongs to an open connection. Where the
driver drops a command, what is left of those on their way is a selection that keeps their
order (`Dropping`, `Remaining`).

`FTStreamerProofs`: `TypeCorrect` (with the counts, and the connection a reading
worker has); `OffsetsAreWhole` from `OneConnection` (every frame a linked worker
holds and every sample it has added up is of its connection);
`SuccessesAreApplied` and `NoOrphans` from `Ordered` (the generations are in
order: what is completed is older than what is active, and a wrench about to be
published carries the latest completed offset); `OneStray` from `StrayBefore`.

`Robotiq2FGripperProofs`: `TypeCorrect`; `DriverIsNotShared` from `Turns` (the
program counters say who may be inside the driver); `MotionsAreActivated` from
`Armed` (wherever a position is or may be sent next, `activated` holds; elsewhere
in a re-activation the request flag is still set, so the thread comes back to it
first); `AnswersAreOwn` from `OwnAnswer` (where a request is on its way from the
service to the thread, and which request an answer on its way back is for).
`LagStaysBounded` and `InactiveGripperIsOff` hold for every number of late responses and rest on
`Line` (between two exchanges only the bytes of late responses are on the line, in an exchange the
response to its own request besides; what is late is at most a response for each delay); the second
also on `Off` (after the thread was joined, more bytes than are late mean that the request of
`on_deactivate()` has reached the gripper, so only then does the transition succeed with `lag = 0`).

`RobotiqFTSensorProofs`: `TypeCorrect` (with `Located`: which state a step belongs to, and
that an inactive component runs nothing); `SilenceStaysBounded` from `Counted` (while the
stream is valid the silence is at most the watchdog's timer, afterwards its maximum and
the retries; a stream that is valid with the timer at zero has a message waiting);
`LateReadingsAreFirst` and `ZeroesAreInForce` from `Decoded` (a message that waits is of the
call in progress, unless nothing was handed out yet or the process shuts down, when only a
callback waiting for the sensor is left; the listen that decodes takes the request down).

`ControlledGripperProofs` and `ControlledGripperFlowProofs` prove their invariants of the steps of
a system that may do more than `ControlledGripper`, `OpenNext`: no outage is counted, and a
command that is published may find any of those before it lost, not only the oldest of a full
topic. Every step of `ControlledGripper` is one of these (`NextIsOpen`); those of `GripperStack`
are, too, and that is what the generality is for.

`ControlledGripperProofs`: `OneOperationRuns` from `AllShaped` (the kind of a request fits
its next step: what leads to a wait or to `~BusyGuard` is no stop request, which holds no
flag); `TypeCorrect` from `Typed`, which adds the backend's variables that statuses are made
of, with the lemma `RemaindersAre` on what losing commands leaves of a topic.

`ControlledGripperFlowProofs` starts with `Once` (every identifier in use was
taken from the counter of its process, and a command is in one place: at one request, on the
topic, or executed); `HaltExecutedLast` from `InOrder` (an identifier was taken for one phase
of one request, a move is numbered before its stop, and the two keep their order on the topic
and after it). Losses only drop commands and keep the order of the others
(`RemaindersAmong`, `RemaindersFollow`), so both last over any number of outages and restarts.
`OvertakenOnlyByStops` is from `InTurn`: of the commands executed and on their way, in this order,
those of one process have increasing identifiers unless one is a stop's, and what a request that is
no stop is about to publish is later than all of them. That takes `OneOperation`, since two such
requests between `fetch_add()` and `publish()` could cross.

`FirstProcessSucceeds` and `OwnCommandExecuted` say that a success is the request's own
command, executed. A request only sees statuses, so the invariant `Success` has to say what a status proves. `Truthful`: an identifier that the
backend holds, that a status on the topic carries or that the controller remembers is one of an
executed command, or 0. `AllFit`: what the locals of a request are at each of its steps. `Windows`,
about the commands executed followed by those on their way (`Way`): from the reset of an
activation under way on there is nothing but its own commands and those of stop requests, since
no other operation runs (`OneOperation`). Losses select from the way and a request joins it at its
end (`Onward`), so `Windows` lasts. `Succeeds` is the property, with the reset an activation has
behind it. The identifiers start again with every controller process, while topics and backend
remember: so the theorems are about the requests of the first process (whatever the later ones
do) and, for the property of the run, about `MaxLives <= 1`. With `MaxLives = 2` TLC refutes the
property: the second process takes the old process's command for its own.

`GripperStackProofs` carries the last three results over to the driver as it is: `StackOnlyStopsOvertake`,
`StackHaltIsLast` and, for `MaxLives <= 1`, `StackSuccess`. The invariant `StackInv` is the
driver's (`RefinementInv`) and, of the state seen through the mapping, the controller's
(`Success`). A step of the driver is one of the contract or changes nothing of it
(`DriverContract`, a lemma of `DriverKeepsContract`). A step of the controller leaves the driver
alone; where it publishes, a full topic loses its oldest command, which is not the oldest of those
on their way when the slot or the handler holds one: hence the losses in `OpenNext`
(`PublishedBehind`). Neither the number of faults nor that of driver restarts matters. The theorems assume
`StackAssumption`, which is `DriverAssumption` for the parameters the driver keeps here.
`OneOperation` and the types are the controller's own and are not stated again; that a stop is not
overtaken, or never activates, does not hold (section 3).

`SimulatedGripperProofs`: `EndsWhereAsked` from `Settles` (while a motion is followed, the target
is what the command named by the status asked for; an axis stops only at its target, and a position
of the register is reported unrounded: `RoundedExact`). `PoseIsSimulated` adds what the publisher
makes of such a status, with `CurvesAgree`: the breakpoint not below and the one above differ only
at a breakpoint, where the two segments meet (`SegmentsMeet`). That there is such a breakpoint,
and that the inputs of a curve increase over any distance, is an induction over its
breakpoints, done with the least element of a set of numbers (`LeastOf`).

Only model-checked: liveness under fairness, which is out of the prover's reach (`EventuallyServing`,
`SlotDrains`, `ShutdownCompletes`, `EveryRequestEnds`, `EveryZeroAnswered`, `EveryRequestAnswered`,
`DeactivationEnds`, `ReadingResumes`, `PoseSettles`). Every invariant and action property of a
passing run is proved.

## 5. Not modelled, and why

The components marked `not_modelled` in `PROJECT.json`: static data, launch
files, the calibration user interface, unit-testable checksums. Within the
modelled parts: the bytes of Modbus frames, message wording, action feedback,
goal validation (a rejected goal changes no state), the 2F gripper's speed and
force, the values of speeds, forces and wrenches, and real time, of which only
the order of events is kept. The streamer's rate limiter and the text its parser
handles are planned. Of the serial sensor, the search of `/dev` and the serial numbers,
the texts `read_info_high_lvl` stores, the fake mode (which hands out constants) and
CRC arithmetic are left out. A shared variable of the 3F nodes is an atomic or
is guarded by a mutex, so single accesses are the steps. The 2F interface also
shares plain doubles, `reactivate_gripper_cmd_` and `reactivate_gripper_response_`,
between `read()` and the service: a data race, whose outcomes in the build are
those of single loads and stores of an aligned double, with the polling loop's
load after each sleep; they too are steps of their own.

## 6. Plan

1. (done) driver, contract, refinement, controller, stack, FT streamer; theorems
   of driver and streamer.
2. (done) 2F gripper and activation controller; theorems.
3. (done) Serial FT sensor: its connection state machine and the hand-over of readings.
4. (done) Simulated backend: it differs from `GripperBackend` in that it executes a command
   before it has published any status and never goes offline.
5. FT rate limiter and parser: the limiter with a theorem that three wrenches
   span at least one period, the parser over tokens against a reference
   definition for every chunking.
6. (done) Joint mapping: the two implementations against each other, in `SimulatedGripper`.
7. Restart of the controller with commands of the old process still under way.
8. (done) Late responses on the 2F gripper's line: what survives them.
9. Proofs: (done) `RobotiqFTSensor`; `OneOperation`, `OnlyStopsOvertake`, `HaltIsLast` and
   `SuccessIsExecuted` of `ControlledGripper`; the refinement `DriverRefinement`;
   `SettledIsAsked` and `SettledIsShown`; the controller's invariants for `GripperStack`, through
   the refinement; (left) the limiter.
