-------------------------- MODULE Robotiq2FGripper --------------------------
(***************************************************************************)
(* The 2F gripper's hardware interface and its activation controller.      *)
(* Three threads: the controller manager, which makes the transitions and  *)
(* calls read() and write() in turn, one at a time; background_task(),     *)
(* which alone uses the driver while the component is active; and the      *)
(* executor of the activation controller, whose service asks for a         *)
(* re-activation and polls for the answer.                                 *)
(***************************************************************************)
EXTENDS Robotiq2FDriver

VARIABLES
    lifecycle,      \* the component's lifecycle state
    manager,        \* the manager's next step
    hasPosition,    \* gripper_position_ is a number
    command,        \* gripper_position_command_: a number or NaN
    writeCommand,   \* write_command_
    running,        \* communication_thread_is_running_
    background,     \* the background thread's next step
    reactivateCmd,  \* reactivate_gripper_cmd_ is a number
    asyncCmd,       \* reactivate_gripper_async_cmd_
    asyncResponse,  \* reactivate_gripper_async_response_ has a value, which is true
    response,       \* reactivate_gripper_response_
    service,        \* the service's next step
    begunSince,     \* history: a re-activation has begun since the latest request
    doneSince       \* history: the one answered last is of those

positionVars == <<hasPosition, command, writeCommand>>
handshakeVars == <<reactivateCmd, asyncCmd, asyncResponse, response>>
historyVars == <<begunSince, doneSince>>
vars == <<driverVars, lifecycle, manager, positionVars, running, background,
          handshakeVars, service, historyVars>>

TypeOK ==
    /\ DriverTypeOK
    /\ lifecycle \in {"unconfigured", "inactive", "active", "finalized"}
    /\ manager \in {"idle", "reset", "activate", "clearCmd", "answer", "clearResponse",
                    "update", "write", "join", "deactivate"}
    /\ hasPosition \in BOOLEAN
    /\ command \in {"number", "NaN"} /\ writeCommand \in Targets
    /\ running \in BOOLEAN
    /\ background \in {"none", "top", "check", "deactivate", "activate", "respond", "move",
                       "set", "get", "ended", "joined"}
    /\ reactivateCmd \in BOOLEAN /\ asyncCmd \in BOOLEAN /\ asyncResponse \in BOOLEAN
    /\ response \in {"none", "waiting", "true"}
    /\ service \in {"idle", "ask", "poll"}
    /\ begunSince \in BOOLEAN /\ doneSince \in BOOLEAN

\* write_command_ is not initialized.
Init ==
    /\ DriverInit
    /\ lifecycle = "unconfigured" /\ manager = "idle"
    /\ hasPosition = FALSE /\ command = "NaN" /\ writeCommand = "indeterminate"
    /\ running = FALSE /\ background = "none"
    /\ reactivateCmd = FALSE /\ asyncCmd = FALSE /\ asyncResponse = FALSE
    /\ response = "none"
    /\ service = "idle" /\ begunSince = FALSE /\ doneSince = FALSE

-----------------------------------------------------------------------------
(* Transitions.  A transition that fails ends in the error state, from     *)
(* which the component is finalized.                                       *)

\* on_configure() opens the port.
Configure ==
    /\ lifecycle = "unconfigured" /\ manager = "idle"
    /\ lifecycle' \in {"inactive", "finalized"}
    /\ UNCHANGED <<driverVars, manager, positionVars, running, background, handshakeVars,
                   service, historyVars>>

\* on_activate(): the defaults, and driver_->deactivate().
Activate ==
    /\ lifecycle = "inactive" /\ manager = "idle"
    /\ manager' = "reset"
    /\ hasPosition' = TRUE
    /\ command' = IF hasPosition THEN command ELSE "number"
    /\ BeginPlain("manager", "deactivate")
    /\ UNCHANGED <<lifecycle, writeCommand, running, background, handshakeVars,
                   service, historyVars>>

ActivateAfterReset ==
    /\ manager = "reset" /\ Returned("manager")
    /\ manager' = "activate"
    /\ BeginPlain("manager", "activate")
    /\ UNCHANGED <<lifecycle, positionVars, running, background, handshakeVars, service,
                   historyVars>>

\* The communication thread is started last.
StartThread ==
    /\ manager = "activate" /\ Returned("manager")
    /\ manager' = "idle" /\ lifecycle' = "active"
    /\ running' = TRUE /\ background' = "top"
    /\ UNCHANGED <<driverVars, positionVars, handshakeVars, service, historyVars>>

\* on_deactivate() tells the thread to end.
Deactivate ==
    /\ lifecycle = "active" /\ manager = "idle"
    /\ running' = FALSE /\ manager' = "join"
    /\ UNCHANGED <<driverVars, lifecycle, positionVars, background, handshakeVars, service,
                   historyVars>>

\* Fault for Join: the thread is not waited for.
JoinDetaches ==
    /\ manager = "join"
    /\ manager' = "deactivate"
    /\ BeginPlain("manager", "deactivate")
    /\ UNCHANGED <<lifecycle, positionVars, running, background, handshakeVars, service,
                   historyVars>>

Join ==
    /\ manager = "join" /\ background = "ended"
    /\ background' = "joined" /\ manager' = "deactivate"
    /\ BeginPlain("manager", "deactivate")
    /\ UNCHANGED <<lifecycle, positionVars, running, handshakeVars, service, historyVars>>

Deactivated ==
    /\ manager = "deactivate" /\ Returned("manager")
    /\ manager' = "idle" /\ lifecycle' = "inactive"
    /\ UNCHANGED <<driverVars, positionVars, running, background, handshakeVars, service,
                   historyVars>>

TransitionFails ==
    /\ manager \in {"reset", "activate", "deactivate"} /\ Threw("manager")
    /\ manager' = "idle" /\ lifecycle' = "finalized"
    /\ UNCHANGED <<driverVars, positionVars, running, background, handshakeVars, service,
                   historyVars>>

-----------------------------------------------------------------------------
(* read() and write(), called while the component is inactive or active.   *)

\* The first half of read(): the position, and the request if there is one.
ReadRequest ==
    /\ manager = "idle" /\ lifecycle \in {"inactive", "active"}
    /\ hasPosition' = TRUE
    /\ asyncCmd' = (asyncCmd \/ reactivateCmd)
    /\ manager' = IF reactivateCmd THEN "clearCmd" ELSE "answer"
    /\ UNCHANGED <<driverVars, lifecycle, command, writeCommand, running,
                   background, reactivateCmd, asyncResponse, response, service, historyVars>>

ReadClearCmd ==
    /\ manager = "clearCmd"
    /\ reactivateCmd' = FALSE
    /\ manager' = "answer"
    /\ UNCHANGED <<driverVars, lifecycle, positionVars, running, background, asyncCmd,
                   asyncResponse, response, service, historyVars>>

\* Fault for ReadAnswer: the response is copied whether it has a value or not.
ReadAnswerUntested ==
    /\ manager = "answer"
    /\ response' = IF asyncResponse THEN "true" ELSE "false"
    /\ manager' = "clearResponse"
    /\ UNCHANGED <<driverVars, lifecycle, positionVars, running, background, reactivateCmd,
                   asyncCmd, asyncResponse, service, historyVars>>

ReadAnswer ==
    /\ manager = "answer"
    /\ response' = IF asyncResponse THEN "true" ELSE response
    /\ manager' = IF asyncResponse THEN "clearResponse" ELSE "update"
    /\ UNCHANGED <<driverVars, lifecycle, positionVars, running, background, reactivateCmd,
                   asyncCmd, asyncResponse, service, historyVars>>

\* Fault for ReadClearResponse: the answer is left for the next request.
ReadClearResponseForgets ==
    /\ manager = "clearResponse"
    /\ manager' = "update"
    /\ UNCHANGED <<driverVars, lifecycle, positionVars, running, background, handshakeVars,
                   service, historyVars>>

ReadClearResponse ==
    /\ manager = "clearResponse"
    /\ asyncResponse' = FALSE
    /\ manager' = "update"
    /\ UNCHANGED <<driverVars, lifecycle, positionVars, running, background, reactivateCmd,
                   asyncCmd, response, service, historyVars>>

\* The controllers' update(): external.
Update ==
    /\ manager = "update"
    /\ manager' = "write"
    /\ command' \in {"number", command}
    /\ UNCHANGED <<driverVars, lifecycle, hasPosition, writeCommand, running,
                   background, handshakeVars, service, historyVars>>

\* The conversion of NaN to uint8_t is undefined.
Write ==
    /\ manager = "write"
    /\ manager' = "idle"
    /\ writeCommand' = IF command = "NaN" THEN "indeterminate" ELSE "number"
    /\ UNCHANGED <<driverVars, lifecycle, hasPosition, command, running,
                   background, handshakeVars, service, historyVars>>

-----------------------------------------------------------------------------
(* background_task().                                                      *)

BackgroundEnds ==
    /\ background = "top" /\ ~running
    /\ background' = "ended"
    /\ UNCHANGED <<driverVars, lifecycle, manager, positionVars, running, handshakeVars,
                   service, historyVars>>

BackgroundGoesOn ==
    /\ background = "top" /\ running
    /\ background' = "check"
    /\ UNCHANGED <<driverVars, lifecycle, manager, positionVars, running, handshakeVars,
                   service, historyVars>>

BackgroundSkips ==
    /\ background = "check" /\ ~asyncCmd
    /\ background' = "move"
    /\ UNCHANGED <<driverVars, lifecycle, manager, positionVars, running, handshakeVars,
                   service, historyVars>>

\* Fault for BackgroundResets: the request is cleared before it is carried out.
BackgroundResetsClearsFirst ==
    /\ background = "check" /\ asyncCmd
    /\ background' = "deactivate"
    /\ begunSince' = TRUE /\ asyncCmd' = FALSE
    /\ BeginPlain("background", "deactivate")
    /\ UNCHANGED <<lifecycle, manager, positionVars, running, reactivateCmd, asyncResponse,
                   response, service, doneSince>>

BackgroundResets ==
    /\ background = "check" /\ asyncCmd
    /\ background' = "deactivate"
    /\ begunSince' = TRUE
    /\ BeginPlain("background", "deactivate")
    /\ UNCHANGED <<lifecycle, manager, positionVars, running, handshakeVars, service, doneSince>>

BackgroundActivates ==
    /\ background = "deactivate" /\ Returned("background")
    /\ background' = "activate"
    /\ BeginPlain("background", "activate")
    /\ UNCHANGED <<lifecycle, manager, positionVars, running, handshakeVars, service,
                   historyVars>>

BackgroundClears ==
    /\ background = "activate" /\ Returned("background")
    /\ background' = "respond"
    /\ asyncCmd' = FALSE
    /\ UNCHANGED <<driverVars, lifecycle, manager, positionVars, running, reactivateCmd,
                   asyncResponse, response, service, historyVars>>

BackgroundResponds ==
    /\ background = "respond"
    /\ background' = "move"
    /\ asyncResponse' = TRUE /\ doneSince' = begunSince
    /\ UNCHANGED <<driverVars, lifecycle, manager, positionVars, running, reactivateCmd,
                   asyncCmd, response, service, begunSince>>

\* set_gripper_position(write_command_).
BackgroundSets ==
    /\ background = "move"
    /\ background' = "set"
    /\ Begin("background", "set", writeCommand)
    /\ UNCHANGED <<lifecycle, manager, positionVars, running, handshakeVars, service,
                   historyVars>>

\* set_speed() and set_force() reach the gripper with the next position.
BackgroundGets ==
    /\ background = "set" /\ Returned("background")
    /\ background' = "get"
    /\ BeginPlain("background", "get")
    /\ UNCHANGED <<lifecycle, manager, positionVars, running, handshakeVars, service,
                   historyVars>>

BackgroundStores ==
    /\ background = "get" /\ Returned("background")
    /\ background' = "top"
    /\ UNCHANGED <<driverVars, lifecycle, manager, positionVars, running, handshakeVars,
                   service, historyVars>>

\* Fault for BackgroundCatches: the request is given up.
BackgroundCatchesGivesUp ==
    /\ background \in {"deactivate", "activate", "set", "get"} /\ Threw("background")
    /\ background' = "top"
    /\ asyncCmd' = FALSE
    /\ UNCHANGED <<driverVars, lifecycle, manager, positionVars, running, reactivateCmd,
                   asyncResponse, response, service, historyVars>>

\* The iteration is over; asyncCmd is still set if it was.
BackgroundCatches ==
    /\ background \in {"deactivate", "activate", "set", "get"} /\ Threw("background")
    /\ background' = "top"
    /\ UNCHANGED <<driverVars, lifecycle, manager, positionVars, running, handshakeVars,
                   service, historyVars>>

Background ==
    \/ BackgroundEnds \/ BackgroundGoesOn \/ BackgroundSkips \/ BackgroundResets
    \/ BackgroundActivates \/ BackgroundClears \/ BackgroundResponds \/ BackgroundSets
    \/ BackgroundGets \/ BackgroundStores \/ BackgroundCatches

-----------------------------------------------------------------------------
(* reactivateGripper().                                                    *)

ServiceWaits ==
    /\ service = "idle"
    /\ lifecycle # "unconfigured"
    /\ begunSince' = FALSE /\ doneSince' = FALSE
    /\ response' = "waiting"
    /\ service' = "ask"
    /\ UNCHANGED <<driverVars, lifecycle, manager, positionVars, running, background,
                   reactivateCmd, asyncCmd, asyncResponse>>

ServiceAsks ==
    /\ service = "ask"
    /\ reactivateCmd' = TRUE
    /\ service' = "poll"
    /\ UNCHANGED <<driverVars, lifecycle, manager, positionVars, running, background,
                   asyncCmd, asyncResponse, response, historyVars>>

ServiceAnswers ==
    /\ service = "poll" /\ response # "waiting"
    /\ service' = "idle"
    /\ UNCHANGED <<driverVars, lifecycle, manager, positionVars, running, background,
                   handshakeVars, historyVars>>

-----------------------------------------------------------------------------
interfaceVars == <<lifecycle, manager, positionVars, running, background, handshakeVars,
                   service, historyVars>>

ManagerSteps ==
    \/ ActivateAfterReset \/ StartThread \/ Join \/ Deactivated \/ TransitionFails
    \/ ReadRequest \/ ReadClearCmd \/ ReadAnswer \/ ReadClearResponse \/ Update \/ Write

DriverSteps == (\E u \in Users : Exchange(u)) /\ UNCHANGED interfaceVars

Next ==
    \/ Configure \/ Activate \/ Deactivate \/ ManagerSteps
    \/ Background
    \/ ServiceWaits \/ ServiceAsks \/ ServiceAnswers
    \/ DriverSteps
    \/ Environment /\ UNCHANGED interfaceVars

Spec == Init /\ [][Next]_vars

\* The threads run and the manager's loop keeps calling read() and write();
\* bytes that are not lost arrive and read() has a timeout; an activation
\* of the gripper ends.
Fairness ==
    /\ WF_vars(ManagerSteps) /\ WF_vars(Background)
    /\ WF_vars(ServiceAsks) /\ WF_vars(ServiceAnswers)
    /\ \A u \in Users : WF_vars(Exchange(u) /\ UNCHANGED interfaceVars)
    /\ WF_vars(Arrive /\ UNCHANGED interfaceVars)
    /\ WF_vars(Activates /\ UNCHANGED interfaceVars)

FairSpec == Spec /\ Fairness

-----------------------------------------------------------------------------
(* Properties.                                                             *)

\* The driver, which has no lock, is never used by two threads: a transition
\* uses it before the thread is started or after it is joined.
DriverNotShared == ~(Busy("manager") /\ Busy("background"))

\* A position, which would by itself activate the gripper, is sent only after
\* activate() has returned since the last deactivate(): a re-activation that
\* fails half-way is repeated before the loop goes on.
NoMotionUnlessActivated ==
    \A u \in Users : Busy(u) /\ calls[u].op = "set" => activated

\* The service answers a request only after a re-activation that began when
\* the request had been made, not after an earlier one.
AnswerIsOwn == service = "poll" /\ response # "waiting" => doneSince

\* After on_deactivate() the gripper is not active, unless what it took for
\* the response was late: nothing that the thread still had to send comes
\* after the request of on_deactivate(), and a lost request is noticed.
InactiveIsOff ==
    lag = 0 /\ lifecycle = "inactive" /\ manager \notin {"reset", "activate"}
            /\ background = "joined"
      => ~gripper.active

\* A position that is sent is one that write() was given.
OnlyCommandsAreSent ==
    \A u \in Users : Busy(u) /\ calls[u].op = "set" => calls[u].target = "number"

LargestResponse == IF WriteResponseSize < ReadResponseSize THEN ReadResponseSize
                   ELSE WriteResponseSize

\* Nothing empties the input buffer, so that a response which comes after its
\* timeout is taken for the next one and shifts all that follow.  Each shifts
\* them by one response at most; whatever else is lost, cut or repeated
\* shifts nothing.
LagIsBounded == lag <= delays * LargestResponse

\* A request is answered, also when the re-activation fails at first, unless
\* the component is not active, or a response has come late.
EveryRequestAnswered ==
    service = "poll" ~> (service = "idle" \/ lifecycle # "active" \/ lag > 0)

\* on_deactivate() ends: the thread notices, wherever it is.
DeactivationEnds == manager = "join" ~> (manager = "idle" \/ lag > 0)
=============================================================================
