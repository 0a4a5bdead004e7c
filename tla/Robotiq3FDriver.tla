-------------------------- MODULE Robotiq3FDriver --------------------------
(***************************************************************************)
(* The hardware backend of the Robotiq 3F: robotiq_3f_driver.              *)
(*                                                                         *)
(* Two threads share `ready`, `pending` and the identifiers.  The executor *)
(* runs receive_command(): it tests the readiness flag, and stores the     *)
(* command in the one-place slot in a later step.  The worker runs run():  *)
(* it connects, swaps the slot out, writes it, reads a status, publishes   *)
(* it, and only then raises the readiness flag; any failed Modbus          *)
(* transaction closes the connection and runs mark_disconnected().         *)
(*                                                                         *)
(* A step of the worker ends where the other thread, the network or the    *)
(* gripper can come in between.  Reading a status and publishing it is one *)
(* step: nothing it publishes changes between the two, and the topic       *)
(* delays the sample arbitrarily anyway.                                   *)
(***************************************************************************)
EXTENDS Gripper3F

CONSTANTS
    Shapes,       \* commands (without identifier) the environment may publish
    AllowAutomaticRelease,
    InitialDelay, \* reconnect_initial_, in units of its own
    MaxDelay,     \* reconnect_max_
    MaxCommands,  \* bound: commands published
    MaxFaults,    \* bound: failed transactions, failed connects and power cycles
    MaxRestarts   \* bound: driver processes started after the first

ASSUME DriverAssumption ==
    /\ Shapes \subseteq Command
    /\ AllowAutomaticRelease \in BOOLEAN
    /\ InitialDelay \in Nat \ {0} /\ MaxDelay \in Nat /\ InitialDelay <= MaxDelay
    /\ MaxCommands \in Nat /\ MaxFaults \in Nat /\ MaxRestarts \in Nat

VARIABLES
    commandTopic,   \* samples of backend/command the driver has not taken yet
    statusTopic,    \* samples of backend/status nobody has taken yet
    handler,        \* the command receive_command() is about to store
    pending,        \* pending_command_
    command,        \* the local `command` of the worker's cycle
    ready,          \* ready_for_commands_
    lastId,         \* last_command_id_
    connectionId,   \* connection_id_
    isOpen,         \* client.is_open()
    delay,          \* reconnect_delay
    configured,     \* gripper_ip is set
    stopRequested,  \* stop_requested_
    pc,             \* where the worker is
    gripper,        \* the device
    link,           \* the device's end of the TCP connection is alive
    sent,           \* number of commands published: the last identifier
    faults,         \* faults so far
    restarts,       \* restarts so far
    session,        \* history: TCP connections over all driver processes
    statusSession,  \* history: the session the last valid status came from
    written         \* history: the commands written to the gripper, in order

topics == <<commandTopic, statusTopic>>
slots == <<handler, pending, command>>
client == <<connectionId, isOpen, delay>>
device == <<gripper, link>>
process == <<configured, stopRequested, restarts>>
history == <<session, statusSession, written>>
vars == <<topics, slots, ready, lastId, client, process, pc, device, sent, faults, history>>

(***************************************************************************)
(* A command on its way through the driver remembers the session in which  *)
(* receive_command() found the driver ready, and the session (0: none was  *)
(* open) in which it was stored.  The properties read these two, no action *)
(* does.                                                                   *)
(***************************************************************************)
Entry == [command : Command, acceptedIn : Nat, storedIn : Nat]
NoEntry == [command |-> BlankCommand, acceptedIn |-> 0, storedIn |-> 0]
IsEntry(e) == e # NoEntry

Written == [command : Command, acceptedIn : Nat, storedIn : Nat, session : Nat,
            statusSession : Nat, wasActivated : BOOLEAN]

Pcs == {"unconfigured", "top", "write", "read", "enable", "not_ready", "clear", "exited"}

TypeOK ==
    /\ commandTopic \in Seq(Command)
    /\ statusTopic \in Seq(Status)
    /\ handler \in Entry /\ pending \in Entry /\ command \in Entry
    /\ ready \in BOOLEAN /\ isOpen \in BOOLEAN /\ configured \in BOOLEAN
    /\ stopRequested \in BOOLEAN /\ link \in BOOLEAN
    /\ lastId \in Nat /\ connectionId \in Nat
    /\ delay \in InitialDelay..MaxDelay
    /\ pc \in Pcs
    /\ gripper \in Gripper
    /\ sent \in Nat /\ faults \in Nat /\ restarts \in Nat
    /\ session \in Nat /\ statusSession \in Nat
    /\ written \in Seq(Written)

\* The member initialisers, and run() before its loop.
ProcessStarts(isConfigured) ==
    /\ handler' = NoEntry /\ pending' = NoEntry /\ command' = NoEntry
    /\ ready' = FALSE /\ lastId' = 0 /\ connectionId' = 0 /\ isOpen' = FALSE
    /\ delay' = InitialDelay
    /\ stopRequested' = FALSE
    /\ pc' = IF isConfigured THEN "top" ELSE "not_ready"

Init ==
    /\ commandTopic = <<>> /\ statusTopic = <<>>
    /\ handler = NoEntry /\ pending = NoEntry /\ command = NoEntry
    /\ ready = FALSE /\ lastId = 0 /\ connectionId = 0 /\ isOpen = FALSE
    /\ delay = InitialDelay
    /\ configured \in BOOLEAN
    /\ stopRequested = FALSE
    /\ pc = IF configured THEN "top" ELSE "not_ready"
    /\ gripper \in InitialGrippers /\ link = FALSE
    /\ sent = 0 /\ faults = 0 /\ restarts = 0
    /\ session = 0 /\ statusSession = 0 /\ written = <<>>

-----------------------------------------------------------------------------
(* The executor thread: receive_command().                                 *)

Acceptable(c) ==
    /\ c.mode <= MODE_SCISSOR
    /\ c.id # 0
    /\ c.automatic_release => AllowAutomaticRelease

\* receive_command() up to the readiness test.  The command is dropped when
\* a test fails.
ReceiveCommand ==
    /\ ~stopRequested
    /\ commandTopic # <<>> /\ ~IsEntry(handler)
    /\ commandTopic' = Tail(commandTopic)
    /\ handler' = IF Acceptable(Head(commandTopic)) /\ ready
                  THEN [command |-> Head(commandTopic), acceptedIn |-> session,
                        storedIn |-> 0]
                  ELSE NoEntry
    /\ UNCHANGED <<statusTopic, pending, command, ready, lastId, client, process, pc,
                   device, sent, faults, history>>

\* `pending_command_ = command` under command_mutex_: the last one wins.
StoreCommand ==
    /\ IsEntry(handler)
    /\ pending' = [handler EXCEPT !.storedIn = IF isOpen THEN session ELSE 0]
    /\ handler' = NoEntry
    /\ UNCHANGED <<topics, command, ready, lastId, client, process, pc, device, sent,
                   faults, history>>

-----------------------------------------------------------------------------
(* The worker thread: run().                                               *)

Report(isConnected, id, image) ==
    statusTopic' = Push(statusTopic, StatusDepth, [connected |-> isConnected, connection_id |-> connectionId,
                                      last_command_id |-> id, gripper |-> image])

Connect ==
    /\ pc = "top" /\ ~stopRequested /\ ~isOpen
    /\ isOpen' = TRUE /\ link' = TRUE
    /\ connectionId' = connectionId + 1 /\ session' = session + 1
    /\ ready' = FALSE /\ lastId' = 0
    /\ delay' = InitialDelay
    /\ UNCHANGED <<topics, slots, process, pc, gripper, sent, faults, statusSession, written>>

\* Fault for ConnectFails: std::min with reconnect_max_ is forgotten.
ConnectFailsUncapped ==
    /\ pc = "top" /\ ~stopRequested /\ ~isOpen
    /\ faults < MaxFaults /\ faults' = faults + 1
    /\ delay' = 2 * delay
    /\ pc' = "not_ready"
    /\ UNCHANGED <<topics, slots, ready, lastId, connectionId, isOpen, process, device, sent,
                   history>>

\* client.connect() throws.  The back-off doubles up to its maximum.
ConnectFails ==
    /\ pc = "top" /\ ~stopRequested /\ ~isOpen
    /\ faults < MaxFaults /\ faults' = faults + 1
    /\ delay' = IF 2 * delay < MaxDelay THEN 2 * delay ELSE MaxDelay
    /\ pc' = "not_ready"
    /\ UNCHANGED <<topics, slots, ready, lastId, connectionId, isOpen, process, device, sent,
                   history>>

\* Fault for Swap: the slot is copied, not swapped out.
SwapCopies ==
    /\ pc = "top" /\ ~stopRequested /\ isOpen
    /\ command' = IF ready THEN pending ELSE NoEntry
    /\ pc' = IF ready /\ IsEntry(pending) THEN "write" ELSE "read"
    /\ UNCHANGED <<topics, handler, pending, ready, lastId, client, process, device, sent,
                   faults, history>>

\* Fault for Swap: the readiness test is forgotten.
SwapUntested ==
    /\ pc = "top" /\ ~stopRequested /\ isOpen
    /\ command' = pending /\ pending' = NoEntry
    /\ pc' = IF IsEntry(pending) THEN "write" ELSE "read"
    /\ UNCHANGED <<topics, handler, ready, lastId, client, process, device, sent, faults,
                   history>>

\* Fault for Swap: the readiness test is inverted.
SwapInverted ==
    /\ pc = "top" /\ ~stopRequested /\ isOpen
    /\ command' = IF ready THEN NoEntry ELSE pending
    /\ pending' = IF ready THEN pending ELSE NoEntry
    /\ pc' = IF ~ready /\ IsEntry(pending) THEN "write" ELSE "read"
    /\ UNCHANGED <<topics, handler, ready, lastId, client, process, device, sent, faults,
                   history>>

\* `command.swap(pending_command_)`, only when ready.
Swap ==
    /\ pc = "top" /\ ~stopRequested /\ isOpen
    /\ command' = IF ready THEN pending ELSE NoEntry
    /\ pending' = IF ready THEN NoEntry ELSE pending
    /\ pc' = IF ready /\ IsEntry(pending) THEN "write" ELSE "read"
    /\ UNCHANGED <<topics, handler, ready, lastId, client, process, device, sent, faults,
                   history>>

\* The gripper latches the command the worker holds.
Latches ==
    /\ link
    /\ gripper' = Latch(gripper, command.command)
    /\ written' = Append(written,
                    [command |-> command.command, acceptedIn |-> command.acceptedIn,
                     storedIn |-> command.storedIn, session |-> session,
                     statusSession |-> statusSession, wasActivated |-> gripper.activated])

\* Fault for Write: last_command_id_ is not stored.
WriteForgetsId ==
    /\ pc = "write"
    /\ Latches
    /\ command' = NoEntry
    /\ pc' = "read"
    /\ UNCHANGED <<topics, handler, pending, ready, lastId, client, process, link, sent, faults,
                   session, statusSession>>

Write ==
    /\ pc = "write"
    /\ Latches
    /\ lastId' = command.command.id
    /\ command' = NoEntry
    /\ pc' = "read"
    /\ UNCHANGED <<topics, handler, pending, ready, client, process, link, sent, faults,
                   session, statusSession>>

\* The catch block of a cycle: client.close(), then mark_disconnected().  A
\* transaction on a dead link must fail, so it does not count as a fault.
Closes ==
    /\ link => faults < MaxFaults
    /\ faults' = IF link THEN faults + 1 ELSE faults
    /\ isOpen' = FALSE /\ link' = FALSE
    /\ pc' = "not_ready"

\* write_command() throws: the request was lost, or its response was.
WriteFails ==
    /\ pc = "write"
    /\ \/ UNCHANGED <<gripper, written>>
       \/ Latches
    /\ Closes
    /\ command' = NoEntry
    /\ UNCHANGED <<topics, handler, pending, ready, lastId, connectionId, delay, process,
                   sent, session, statusSession>>

\* read_status(), then publish_status(status, true, ...).
Read ==
    /\ pc = "read" /\ link
    /\ Report(TRUE, lastId, gripper)
    /\ statusSession' = session
    /\ pc' = "enable"
    /\ UNCHANGED <<commandTopic, slots, ready, lastId, client, process, device, sent, faults,
                   session, written>>

\* Fault for ReadFails: the catch block does not close the client.
ReadFailsStaysOpen ==
    /\ pc = "read"
    /\ link => faults < MaxFaults
    /\ faults' = IF link THEN faults + 1 ELSE faults
    /\ link' = FALSE
    /\ pc' = "not_ready"
    /\ UNCHANGED <<topics, slots, ready, lastId, client, process, gripper, sent, history>>

ReadFails ==
    /\ pc = "read"
    /\ Closes
    /\ UNCHANGED <<topics, slots, ready, lastId, connectionId, delay, process, gripper, sent,
                   history>>

\* ready_for_commands_.store(true), after the status went out.
Enable ==
    /\ pc = "enable"
    /\ ready' = TRUE
    /\ pc' = "top"
    /\ UNCHANGED <<topics, slots, lastId, client, process, device, sent, faults, history>>

\* mark_disconnected(): the two atomics first ...
NotReady ==
    /\ pc = "not_ready"
    /\ ready' = FALSE /\ lastId' = 0
    /\ pc' = "clear"
    /\ UNCHANGED <<topics, slots, client, process, device, sent, faults, history>>

\* Fault for Clear: mark_disconnected() does not reset the slot.
ClearKeepsSlot ==
    /\ pc = "clear"
    /\ Report(FALSE, lastId, BlankStatus)
    /\ pc' = IF configured THEN "top" ELSE "unconfigured"
    /\ UNCHANGED <<commandTopic, slots, ready, lastId, client, process, device, sent, faults,
                   history>>

\* ... then the slot, then the status.
Clear ==
    /\ pc = "clear"
    /\ pending' = NoEntry
    /\ Report(FALSE, lastId, BlankStatus)
    /\ pc' = IF configured THEN "top" ELSE "unconfigured"
    /\ UNCHANGED <<commandTopic, handler, command, ready, lastId, client, process, device,
                   sent, faults, history>>

\* Without an address the worker only repeats mark_disconnected().
Unconfigured ==
    /\ pc = "unconfigured" /\ ~stopRequested
    /\ pc' = "not_ready"
    /\ UNCHANGED <<topics, slots, ready, lastId, client, process, device, sent, faults,
                   history>>

\* Fault for Exit: the loop without an address does not test stop_requested_.
ExitConfiguredOnly ==
    /\ pc = "top" /\ stopRequested
    /\ isOpen' = FALSE /\ link' = FALSE
    /\ ready' = FALSE
    /\ pc' = "exited"
    /\ UNCHANGED <<topics, slots, lastId, connectionId, delay, process, gripper, sent, faults,
                   history>>

\* The end of run().
Exit ==
    /\ pc \in {"top", "unconfigured"} /\ stopRequested
    /\ isOpen' = FALSE /\ link' = FALSE
    /\ ready' = FALSE
    /\ pc' = "exited"
    /\ UNCHANGED <<topics, slots, lastId, connectionId, delay, process, gripper, sent, faults,
                   history>>

Executor == ReceiveCommand \/ StoreCommand

Worker ==
    \/ Connect \/ ConnectFails \/ Swap
    \/ Write \/ WriteFails
    \/ Read \/ ReadFails
    \/ Enable \/ NotReady \/ Clear
    \/ Unconfigured \/ Exit

-----------------------------------------------------------------------------
(* The process: the destructor, which runs after the executor stopped      *)
(* spinning, and a crash (or a launch after the exit) at any moment.       *)

RequestStop ==
    /\ ~stopRequested /\ ~IsEntry(handler)
    /\ stopRequested' = TRUE
    /\ UNCHANGED <<topics, slots, ready, lastId, client, configured, restarts, pc, device,
                   sent, faults, history>>

\* A new process: a new subscription sees none of the old samples.
Restart ==
    /\ restarts < MaxRestarts /\ restarts' = restarts + 1
    /\ ProcessStarts(configured)
    /\ commandTopic' = <<>>
    /\ link' = FALSE
    /\ UNCHANGED <<statusTopic, configured, gripper, sent, faults, history>>

-----------------------------------------------------------------------------
(* The gripper and the nodes at the other end of the topics.               *)

GripperEvolves ==
    /\ gripper' \in Evolutions(gripper)
    /\ UNCHANGED <<topics, slots, ready, lastId, client, process, pc, link, sent, faults,
                   history>>

PowerCycle ==
    /\ faults < MaxFaults /\ faults' = faults + 1
    /\ gripper' = PoweredUp /\ link' = FALSE
    /\ UNCHANGED <<topics, slots, ready, lastId, client, process, pc, sent, history>>

PublishCommand(shape) ==
    /\ sent < MaxCommands /\ sent' = sent + 1
    /\ commandTopic' = Push(commandTopic, CommandDepth, [shape EXCEPT !.id = sent'])
    /\ UNCHANGED <<statusTopic, slots, ready, lastId, client, process, pc, device, faults,
                   history>>

TakeStatus ==
    /\ statusTopic # <<>> /\ statusTopic' = Tail(statusTopic)
    /\ UNCHANGED <<commandTopic, slots, ready, lastId, client, process, pc, device, sent,
                   faults, history>>

DriverNext == Executor \/ Worker \/ RequestStop \/ Restart \/ GripperEvolves \/ PowerCycle

Next ==
    \/ DriverNext
    \/ \E shape \in Shapes : PublishCommand(shape)
    \/ TakeStatus

Spec == Init /\ [][Next]_vars

(***************************************************************************)
(* The scheduler runs both threads: the worker is blocked by nothing but   *)
(* its own time-outs, and rclcpp::spin keeps delivering samples.           *)
(***************************************************************************)
FairSpec == Spec /\ WF_vars(Worker) /\ WF_vars(Executor)

-----------------------------------------------------------------------------
(* Properties.                                                             *)

\* Commands reach the gripper in the order the controller published them and
\* none twice, whatever fails, reconnects or is restarted in between
\* (receive_command() and run(), "never replayed").
WrittenInOrder ==
    \A i, j \in DOMAIN written :
        i < j => written[i].command.id < written[j].command.id

\* Every command written passed the tests of receive_command(), and a valid
\* status had been published on the very connection it was written to.
WrittenAuthorised ==
    \A i \in DOMAIN written :
        /\ Acceptable(written[i].command)
        /\ written[i].statusSession = written[i].session

\* A command stored while a connection was open is written on that connection
\* or never: mark_disconnected() clears the slot before the next one opens.
StoredStaysInSession ==
    \A i \in DOMAIN written :
        written[i].storedIn # 0 => written[i].storedIn = written[i].session

\* While connected, last_command_id_ names the last command written on this
\* connection, and is 0 when there is none (Robotiq3FStatus.msg).
LastIdIsLastWrite ==
    isOpen => lastId = IF written # <<>> /\ written[Len(written)].session = session
                       THEN written[Len(written)].command.id ELSE 0

\* The README of the driver: a command is never replayed after reconnection.
\* receive_command() tests the readiness flag and stores the command in two
\* steps, so this does not hold: the slot may be filled after it was cleared.
NeverReplayed ==
    \A i \in DOMAIN written : written[i].acceptedIn = written[i].session

\* Once faults stop, a configured driver ends up serving commands for good,
\* unless it is told to stop: run() reconnects from every failure.
EventuallyServing == configured => <>[](ready \/ stopRequested)

\* A command in the slot does not stay there: it is written, superseded or
\* cleared, unless the driver is told to stop.
SlotDrains == IsEntry(pending) ~> (~IsEntry(pending) \/ stopRequested)

\* The destructor's join() returns: run() ends from wherever it is when the
\* stop is requested (or the process is killed and started again).
ShutdownCompletes == stopRequested ~> (pc = "exited" \/ ~stopRequested)
=============================================================================
