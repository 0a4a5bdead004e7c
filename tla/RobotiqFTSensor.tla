--------------------------- MODULE RobotiqFTSensor ---------------------------
(***************************************************************************)
(* The serial force-torque sensor robotiq_ft_sensor_hardware: its driver   *)
(* (rq_sensor_com, rq_sensor_state), which is a set of static variables,   *)
(* and its two hosts, of which a process has one: the ros2_control         *)
(* component, with a thread that spins a private executor, and the         *)
(* standalone node.  One thread at a time runs the driver: the one that    *)
(* activates the component or initialises the node, then the executor's.   *)
(*                                                                         *)
(* Bytes are left out: a listen hears nothing, bytes, or a whole message   *)
(* with a good CRC.  A reading is known by the plug-in of the sensor that  *)
(* sent it, 0 being no reading: NaN, or the zeros of a static array.  What *)
(* read_info_high_lvl stores is left out, and so is use_fake_mode.         *)
(***************************************************************************)
EXTENDS Naturals

CONSTANTS
    MaxRetries,    \* max_retries
    BootListens,   \* the 5 of rq_com_tentative_connexion()
    DetectionMax,  \* RQ_COM_TIMER_FOR_STREAM_DETECTION_MAX_VALUE
    ValidMax,      \* RQ_COM_TIMER_FOR_VALID_STREAM_MAX_VALUE
    MaxFaults      \* bound: times the sensor is unplugged or stops streaming

ASSUME SensorAssumption ==
    /\ MaxRetries \in Nat \ {0} /\ BootListens \in Nat
    /\ DetectionMax \in Nat /\ ValidMax \in Nat /\ MaxFaults \in Nat

VARIABLES
    host,            \* whose process this is
    lifecycle,       \* of the component; the node's ends at "active"
    calls,           \* calls of the state machine on_activate() has yet to make
    thread,          \* node_thread_, or the node's main thread
    running,         \* rclcpp::ok()
    pc,              \* the next step of the call in progress
    listens,         \* retries of rq_com_tentative_connexion()
    state,           \* current_state
    retries,         \* retries of rq_state_run()
    fd,              \* fd_connexion: the plug-in it was opened on, 0 when closed
    streamDetected, validStream, newMessage, detectionTimer, validTimer,
    zeroFlag,        \* rq_com_zero_force_flag
    data,            \* rq_com_received_data
    buffer,          \* sensor_readings_, or the wrench published last
    plug, plugged,   \* the sensor's present or last plug-in; it is plugged in
    sensor,          \* what the sensor does
    faults,
    first,           \* history: nothing handed out since connected or activated
    fresh,           \* history: the message decoded last is of the call in progress
    silent           \* history: callbacks in RQ_STATE_RUN that handed out nothing

hostVars == <<host, lifecycle, calls, thread, running>>
comVars == <<streamDetected, validStream, newMessage, detectionTimer, validTimer, zeroFlag,
             data, fresh>>
sensorVars == <<plug, plugged, sensor, faults>>
outVars == <<buffer, first, silent>>
vars == <<hostVars, pc, listens, state, retries, fd, comVars, sensorVars, outVars>>

\* The silence the watchdog and the retries allow.
MaxSilence == ValidMax + MaxRetries

States == {"INIT", "READ_INFO", "START_STREAM", "RUN"}
Plugs == 0..(MaxFaults + 1)

TypeOK ==
    /\ host \in {"hardware", "node"} /\ running \in BOOLEAN
    /\ lifecycle \in {"inactive", "activating", "active", "deactivating"}
    /\ calls \in 0..3 /\ thread \in {"none", "started", "spinning", "cancelled"}
    /\ pc \in {"idle", "machine", "boot", "jam", "stop", "firmware", "await", "returned",
               "failed"}
    /\ listens \in 0..BootListens /\ state \in States /\ retries \in 0..(MaxRetries - 1)
    /\ streamDetected \in BOOLEAN /\ validStream \in BOOLEAN /\ newMessage \in BOOLEAN
    /\ detectionTimer \in 0..(DetectionMax + 1) /\ validTimer \in 0..(ValidMax + 1)
    /\ zeroFlag \in BOOLEAN
    /\ {fd, data, buffer, plug} \subseteq Plugs /\ plugged \in BOOLEAN
    /\ sensor \in {"command", "stream", "stopping"} /\ faults \in 0..MaxFaults
    /\ first \in BOOLEAN /\ fresh \in BOOLEAN
    /\ silent \in 0..(MaxSilence + 1)

Init ==
    /\ host \in {"hardware", "node"} /\ lifecycle = "inactive" /\ calls = 0
    /\ thread = "none" /\ running = TRUE
    /\ pc = "idle" /\ listens = 0 /\ state = "INIT" /\ retries = 0 /\ fd = 0
    /\ streamDetected = FALSE /\ validStream = FALSE /\ newMessage = FALSE
    /\ detectionTimer = 0 /\ validTimer = 0 /\ zeroFlag = FALSE /\ data = 0
    /\ plugged \in BOOLEAN /\ plug = (IF plugged THEN 1 ELSE 0)
    /\ sensor \in {"command"} \union (IF plugged THEN {"stream"} ELSE {}) /\ faults = 0
    /\ buffer = 0 /\ first = TRUE /\ fresh = FALSE /\ silent = 0

-----------------------------------------------------------------------------
(* The sensor and its line.                                                *)

\* The descriptor leads to the sensor: one opened before an unplugging does not.
Connected == plugged /\ fd = plug

\* It boots streaming, or is in the mode an earlier connection left it in.
PlugIn ==
    /\ ~plugged /\ plugged' = TRUE /\ plug' = plug + 1
    /\ sensor' \in {"command", "stream"}
    /\ UNCHANGED <<hostVars, pc, listens, state, retries, fd, comVars, faults, outVars>>

Unplug ==
    /\ plugged /\ faults < MaxFaults /\ faults' = faults + 1
    /\ plugged' = FALSE /\ sensor' = "command"
    /\ UNCHANGED <<hostVars, pc, listens, state, retries, fd, comVars, plug, outVars>>

\* It leaves the streaming mode by itself, after a loss of power.
SensorResets ==
    /\ sensor = "stream" /\ faults < MaxFaults /\ faults' = faults + 1
    /\ sensor' = "command"
    /\ UNCHANGED <<hostVars, pc, listens, state, retries, fd, comVars, plug, plugged, outVars>>

\* The last bytes are out after a jam signal.
SensorStops ==
    /\ sensor = "stopping" /\ sensor' = "command"
    /\ UNCHANGED <<hostVars, pc, listens, state, retries, fd, comVars, plug, plugged, faults,
                   outVars>>

\* A Modbus request can be answered.  Whether the answer is whole when it is
\* polled is left open.
CanAnswer == Connected /\ sensor = "command"

\* What a listen may hear.  A message takes longer than a listen.
Heard == {"nothing"} \union IF Connected /\ sensor # "command" THEN {"bytes", "message"} ELSE {}

\* `if (timer++ > max)`: a timer that has run out is set back to max and expires
\* again and again, as it does here, where it stays.
Tick(timer, max) == IF timer > max THEN timer ELSE timer + 1

\* Fault for Listen: any byte, not only a message, makes the stream valid.
ListenAnyByteValid(what) ==
    /\ what \in Heard
    /\ zeroFlag' = FALSE
    /\ streamDetected' = (what # "nothing" \/ (streamDetected /\ detectionTimer <= DetectionMax))
    /\ detectionTimer' = IF what # "nothing" THEN 0 ELSE Tick(detectionTimer, DetectionMax)
    /\ validStream' = (what # "nothing" \/ (validStream /\ validTimer <= ValidMax))
    /\ validTimer' = IF what # "nothing" THEN 0 ELSE Tick(validTimer, ValidMax)
    /\ newMessage' = (what = "message" \/ newMessage)
    /\ data' = IF what = "message" THEN fd ELSE data
    /\ fresh' = (what = "message" \/ fresh)

\* Fault for Listen: the offset is taken only while the stream is valid.
ListenZeroesInvalid(what) ==
    /\ what \in Heard
    /\ zeroFlag' = (zeroFlag /\ ~validStream)
    /\ streamDetected' = (what # "nothing" \/ (streamDetected /\ detectionTimer <= DetectionMax))
    /\ detectionTimer' = IF what # "nothing" THEN 0 ELSE Tick(detectionTimer, DetectionMax)
    /\ validStream' = (what = "message" \/ (validStream /\ validTimer <= ValidMax))
    /\ validTimer' = IF what = "message" THEN 0 ELSE Tick(validTimer, ValidMax)
    /\ newMessage' = (what = "message" \/ newMessage)
    /\ data' = IF what = "message" THEN fd ELSE data
    /\ fresh' = (what = "message" \/ fresh)

\* rq_com_listen_stream(): the offset is taken first, then the timers, then what
\* was heard.
Listen(what) ==
    /\ what \in Heard
    /\ zeroFlag' = FALSE
    /\ streamDetected' = (what # "nothing" \/ (streamDetected /\ detectionTimer <= DetectionMax))
    /\ detectionTimer' = IF what # "nothing" THEN 0 ELSE Tick(detectionTimer, DetectionMax)
    /\ validStream' = (what = "message" \/ (validStream /\ validTimer <= ValidMax))
    /\ validTimer' = IF what = "message" THEN 0 ELSE Tick(validTimer, ValidMax)
    /\ newMessage' = (what = "message" \/ newMessage)
    /\ data' = IF what = "message" THEN fd ELSE data
    /\ fresh' = (what = "message" \/ fresh)

-----------------------------------------------------------------------------
(* RQ_STATE_INIT: rq_sensor_com().                                         *)

In(s) == pc = "machine" /\ state = s

\* The port opens, and set_com_attribs() succeeds.  Of the ports that are tried the
\* sensor's alone is modelled.
OpenPort ==
    /\ In("INIT") /\ plugged
    /\ fd' = plug /\ pc' = "boot"
    /\ UNCHANGED <<hostVars, listens, state, retries, comVars, sensorVars, outVars>>

\* No port, no permission, or no attributes.  No descriptor stays open here.
OpenPortFails ==
    /\ In("INIT")
    /\ fd' = 0 /\ pc' = "failed"
    /\ UNCHANGED <<hostVars, listens, state, retries, comVars, sensorVars, outVars>>

\* rq_com_tentative_connexion(): while (retries < 5 && !stream_detected)
BootListen(what) ==
    /\ pc = "boot" /\ listens < BootListens /\ ~streamDetected
    /\ Listen(what)
    /\ listens' = listens + 1
    /\ UNCHANGED <<hostVars, pc, state, retries, fd, sensorVars, outVars>>

\* The listen after it.
BootLastListen(what) ==
    /\ pc = "boot" /\ (listens = BootListens \/ streamDetected)
    /\ Listen(what)
    /\ pc' = (IF streamDetected' THEN "jam" ELSE "firmware") /\ listens' = 0
    /\ UNCHANGED <<hostVars, state, retries, fd, sensorVars, outVars>>

\* Fault for Jam: the jam signal is not written.
JamUnwritten ==
    /\ pc = "jam" /\ pc' = "stop"
    /\ UNCHANGED <<hostVars, listens, state, retries, fd, comVars, sensorVars, outVars>>

\* rq_com_stop_stream_after_boot() jams and listens by turns, until the stream
\* has stopped.  A jam signal may be missed.
Jam ==
    /\ pc = "jam" /\ pc' = "stop"
    /\ sensor' \in {sensor} \union IF Connected /\ sensor = "stream" THEN {"stopping"} ELSE {}
    /\ UNCHANGED <<hostVars, listens, state, retries, fd, comVars, plug, plugged, faults, outVars>>

StopListen(what) ==
    /\ pc = "stop"
    /\ Listen(what)
    /\ pc' = IF streamDetected' THEN "jam" ELSE "firmware"
    /\ UNCHANGED <<hostVars, listens, state, retries, fd, sensorVars, outVars>>

\* rq_com_send_fc_03(REGISTER_FIRMWARE_VERSION): a sensor has answered.
FirmwareAnswered ==
    /\ pc = "firmware" /\ CanAnswer
    /\ state' = "READ_INFO" /\ pc' = "returned" /\ first' = TRUE
    /\ UNCHANGED <<hostVars, listens, retries, fd, comVars, sensorVars, buffer, silent>>

\* rq_com_identify_device() closes the port again.
FirmwareNotAnswered ==
    /\ pc = "firmware"
    /\ fd' = 0 /\ pc' = "failed"
    /\ UNCHANGED <<hostVars, listens, state, retries, comVars, sensorVars, outVars>>

-----------------------------------------------------------------------------
(* The other states of the machine.                                        *)

\* rq_state_read_info_high_lvl()
ReadInfo ==
    /\ In("READ_INFO")
    /\ state' = "START_STREAM" /\ pc' = "returned"
    /\ UNCHANGED <<hostVars, listens, retries, fd, comVars, sensorVars, outVars>>

\* rq_com_start_stream() sends the order.  Its answer is read with O_NDELAY: it
\* may be missed although the sensor streams.
StartStream ==
    /\ In("START_STREAM")
    /\ \E switched, answered \in BOOLEAN :
          /\ switched => CanAnswer
          /\ answered => switched
          /\ sensor' = IF switched THEN "stream" ELSE sensor
          /\ state' = IF answered THEN "RUN" ELSE state
          /\ pc' = IF answered THEN "returned" ELSE "await"
    /\ UNCHANGED <<hostVars, listens, retries, fd, comVars, plug, plugged, faults, outVars>>

\* while (retries < 5), where nothing counts the retries: without a byte there is
\* no way out, and no way back to RQ_STATE_INIT.
AwaitStream(what) ==
    /\ pc = "await"
    /\ Listen(what)
    /\ state' = IF streamDetected' THEN "RUN" ELSE state
    /\ pc' = IF streamDetected' THEN "returned" ELSE "await"
    /\ UNCHANGED <<hostVars, listens, retries, fd, sensorVars, outVars>>

\* Fault for Run: the retries are compared before they are counted.
RunRetriesOnceMore(what) ==
    /\ In("RUN")
    /\ Listen(what)
    /\ LET lost == ~validStream' /\ retries >= MaxRetries IN
          /\ state' = IF lost THEN "INIT" ELSE state
          /\ retries' = IF validStream' \/ lost THEN 0 ELSE retries + 1
    /\ pc' = "returned"
    /\ UNCHANGED <<hostVars, listens, fd, sensorVars, outVars>>

\* Fault for Run: an invalid stream does not lead back to RQ_STATE_INIT.
RunNeverLeaves(what) ==
    /\ In("RUN")
    /\ Listen(what)
    /\ retries' = 0 /\ pc' = "returned"
    /\ UNCHANGED <<hostVars, listens, state, fd, sensorVars, outVars>>

\* rq_state_run()
Run(what) ==
    /\ In("RUN")
    /\ Listen(what)
    /\ LET lost == ~validStream' /\ retries + 1 >= MaxRetries IN
          /\ state' = IF lost THEN "INIT" ELSE state
          /\ retries' = IF validStream' \/ lost THEN 0 ELSE retries + 1
    /\ pc' = "returned"
    /\ UNCHANGED <<hostVars, listens, fd, sensorVars, outVars>>

\* A call that failed, in wait_for_other_connection(): the next one a second
\* later, for as long as rclcpp::ok().
Wait ==
    /\ pc = "failed"
    /\ pc' = IF running THEN "machine" ELSE "returned"
    /\ UNCHANGED <<hostVars, listens, state, retries, fd, comVars, sensorVars, outVars>>

-----------------------------------------------------------------------------
(* The hosts.                                                              *)

\* on_activate() and initialize(): three calls, to connect, to read the
\* information and to start the stream.  A component activated again is in any
\* state of the machine, which nothing resets.
Activate ==
    /\ lifecycle = "inactive" /\ running
    /\ lifecycle' = "activating" /\ calls' = 3 /\ pc' = "machine"
    /\ first' = TRUE /\ silent' = 0
    /\ UNCHANGED <<host, thread, running, listens, state, retries, fd, comVars, sensorVars,
                   buffer>>

\* The next of them.
NextCall ==
    /\ lifecycle = "activating" /\ pc = "returned" /\ calls > 1
    /\ calls' = calls - 1 /\ pc' = "machine" /\ fresh' = FALSE
    /\ UNCHANGED <<host, lifecycle, thread, running, listens, state, retries, fd,
                   streamDetected, validStream, newMessage, detectionTimer, validTimer,
                   zeroFlag, data, sensorVars, outVars>>

\* on_activate() returns: the buffer is cleared, the thread is started.
Activated ==
    /\ host = "hardware" /\ lifecycle = "activating" /\ pc = "returned" /\ calls = 1
    /\ lifecycle' = "active" /\ calls' = 0 /\ pc' = "idle" /\ fresh' = FALSE
    /\ buffer' = 0 /\ thread' = "started"
    /\ UNCHANGED <<host, running, listens, state, retries, fd, streamDetected, validStream,
                   newMessage, detectionTimer, validTimer, zeroFlag, data, sensorVars, first,
                   silent>>

\* initialize() returns, and main() spins.
Initialized ==
    /\ host = "node" /\ lifecycle = "activating" /\ pc = "returned" /\ calls = 1
    /\ lifecycle' = "active" /\ calls' = 0 /\ pc' = "idle" /\ fresh' = FALSE
    /\ thread' = "spinning"
    /\ UNCHANGED <<host, running, listens, state, retries, fd, streamDetected, validStream,
                   newMessage, detectionTimer, validTimer, zeroFlag, data, sensorVars, outVars>>

\* executor_.spin(), in the new thread.
SpinBegins ==
    /\ thread = "started" /\ thread' = "spinning"
    /\ UNCHANGED <<host, lifecycle, calls, running, pc, listens, state, retries, fd, comVars,
                   sensorVars, outVars>>

\* The timer: read_background() or update().
Callback ==
    /\ thread = "spinning" /\ running /\ pc = "idle"
    /\ pc' = "machine"
    /\ UNCHANGED <<hostVars, listens, state, retries, fd, comVars, sensorVars, outVars>>

\* Fault for GotNewMessage: the message is not taken.
NewMessageStays == newMessage /\ UNCHANGED newMessage

\* rq_com_got_new_message() takes the message.
GotNewMessage == newMessage /\ newMessage' = FALSE

\* The rest of the callback.  update() reads the data before it asks for a new
\* message, to the same effect.
HandOver ==
    /\ lifecycle # "activating" /\ pc = "returned" /\ pc' = "idle" /\ fresh' = FALSE
    /\ \/ /\ state = "RUN" /\ GotNewMessage
          /\ buffer' = data /\ first' = FALSE /\ silent' = 0
       \/ /\ ~(state = "RUN" /\ newMessage)
          /\ silent' = IF state # "RUN" THEN 0
                       ELSE IF silent > MaxSilence THEN silent ELSE silent + 1
          /\ UNCHANGED <<newMessage, buffer, first>>
    /\ UNCHANGED <<hostVars, listens, state, retries, fd, streamDetected, validStream,
                   detectionTimer, validTimer, zeroFlag, data, sensorVars>>

\* rq_state_get_command(): one of its commands asks for a zero, the others only read.
GetCommand == zeroFlag' \in {TRUE, zeroFlag}

\* The services.  Both come between two callbacks of the timer: the component's
\* executor has one thread, the node one mutually exclusive group.
SetZero ==
    /\ host = "hardware" /\ thread = "spinning" /\ running /\ pc = "idle"
    /\ zeroFlag' = TRUE
    /\ UNCHANGED <<hostVars, pc, listens, state, retries, fd, streamDetected, validStream,
                   newMessage, detectionTimer, validTimer, data, fresh, sensorVars, outVars>>

ReceiverCallback ==
    /\ host = "node" /\ thread = "spinning" /\ running /\ pc = "idle"
    /\ GetCommand
    /\ UNCHANGED <<hostVars, pc, listens, state, retries, fd, streamDetected, validStream,
                   newMessage, detectionTimer, validTimer, data, fresh, sensorVars, outVars>>

\* on_deactivate(): cancel(), which has no effect before spin(), then join().
Deactivate ==
    /\ host = "hardware" /\ lifecycle = "active" /\ lifecycle' = "deactivating"
    /\ thread' = IF thread = "spinning" THEN "cancelled" ELSE thread
    /\ UNCHANGED <<host, calls, running, pc, listens, state, retries, fd, comVars, sensorVars,
                   outVars>>

\* spin() returns between two callbacks.
Join ==
    /\ lifecycle = "deactivating" /\ pc = "idle"
    /\ thread = "cancelled" \/ (thread = "spinning" /\ ~running)
    /\ lifecycle' = "inactive" /\ thread' = "none"
    /\ UNCHANGED <<host, calls, running, pc, listens, state, retries, fd, comVars, sensorVars,
                   outVars>>

\* rclcpp::shutdown(), by a signal, at the points where it is seen.
Shutdown ==
    /\ running /\ pc \in {"idle", "failed"} /\ running' = FALSE
    /\ UNCHANGED <<host, lifecycle, calls, thread, pc, listens, state, retries, fd, comVars,
                   sensorVars, outVars>>

Next ==
    \/ PlugIn \/ Unplug \/ SensorResets \/ SensorStops
    \/ \E what \in Heard :
          \/ BootListen(what) \/ BootLastListen(what) \/ StopListen(what)
          \/ AwaitStream(what) \/ Run(what)
    \/ OpenPort \/ OpenPortFails \/ Jam \/ FirmwareAnswered \/ FirmwareNotAnswered
    \/ ReadInfo \/ StartStream \/ Wait
    \/ Activate \/ NextCall \/ Activated \/ Initialized \/ SpinBegins \/ Callback \/ HandOver
    \/ SetZero \/ ReceiverCallback \/ Deactivate \/ Join \/ Shutdown

Spec == Init /\ [][Next]_vars

-----------------------------------------------------------------------------
(* Fairness: the driver's thread goes on, and of what it asks again and again  *)
(* of a sensor that is there, each succeeds in the end.                        *)

Work ==
    \/ \E what \in Heard :
          \/ BootListen(what) \/ BootLastListen(what) \/ StopListen(what)
          \/ AwaitStream(what) \/ Run(what)
    \/ OpenPort \/ OpenPortFails \/ Jam \/ FirmwareAnswered \/ FirmwareNotAnswered
    \/ ReadInfo \/ StartStream \/ Wait \/ NextCall \/ Activated \/ Initialized \/ HandOver

Fairness ==
    /\ WF_vars(Work) /\ WF_vars(SpinBegins) /\ WF_vars(Callback) /\ WF_vars(Join)
    /\ WF_vars(SensorStops)
    /\ SF_vars(OpenPort) /\ SF_vars(BootLastListen("message"))
    /\ SF_vars(Jam /\ sensor' = "stopping") /\ SF_vars(FirmwareAnswered)
    /\ SF_vars(StartStream /\ sensor' = "stream")
    /\ SF_vars(AwaitStream("message")) /\ SF_vars(Run("message"))

FairSpec == Spec /\ Fairness

-----------------------------------------------------------------------------
(* Properties.                                                             *)

\* The step in which a callback hands out a reading.
HandsOut ==
    /\ lifecycle # "activating" /\ pc = "returned" /\ pc' = "idle"
    /\ state = "RUN" /\ silent' = 0

\* A reading that a callback hands out was decoded in that very callback, except
\* for the first one after a connection or an activation, whose decoding may lie
\* behind: a message is never handed out twice nor kept for later.
LateOnlyFirst == [][HandsOut => fresh \/ first]_vars

\* The driver does not stay in RQ_STATE_RUN on a dead stream: the callbacks that
\* hand out nothing are fewer than the watchdog and the retries allow.
SilenceIsBounded == silent <= MaxSilence

\* A reading decoded after a zero was asked for is handed out with the new
\* offset: no request is still pending then.
ZeroInForce == [][HandsOut /\ fresh => ~zeroFlag]_vars

\* With the sensor there to stay and the host active for good, its readings come
\* through again, whatever was lost before, unless the start of the stream
\* waits for ever.
ReadingResumes ==
    <>[](plugged /\ lifecycle = "active" /\ running) =>
        []<><<HandsOut /\ fresh /\ buffer' = plug>>_vars \/ <>[](pc = "await")

\* on_deactivate() returns, unless cancel() came before spin(), the callback waits
\* for a sensor that is not there, or for the start of the stream.
DeactivationEnds ==
    (lifecycle = "deactivating" /\ thread = "cancelled") ~>
        (lifecycle = "inactive" \/ pc = "await" \/ ~plugged)

\* rq_sensor_state.cpp:189: "If the stream doesn't start, return to state init."
StreamStartsOrInit == (pc = "await") ~> (pc # "await")
=============================================================================
