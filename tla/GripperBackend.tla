--------------------------- MODULE GripperBackend ---------------------------
(***************************************************************************)
(* What a backend of the Robotiq 3F controller promises on the topics      *)
(* backend/command and backend/status: the abstract specification that     *)
(* Robotiq3FDriver implements, and the environment of the controller.      *)
(*                                                                         *)
(* A backend may lose any command.  It executes the others in the order    *)
(* they were published, only online, and only after it reported a status   *)
(* of the connection it executes them on.  A status names the command      *)
(* executed last on its connection.  Nothing ties a command to the         *)
(* connection its sender had in mind.                                      *)
(***************************************************************************)
EXTENDS Gripper3F

CONSTANT Commands    \* the commands that may be published

VARIABLES
    commandTopic,  \* commands published, neither executed nor lost
    statusTopic,   \* statuses published and not received
    online,        \* a connection to the gripper is open
    reported,      \* a status of this connection has been published
    connectionId,  \* number of this connection, within this backend process
    lastId,        \* identifier of the last command executed on it, or 0
    gripper,       \* the device
    link,          \* the device's end of the connection is alive
    session,       \* history: connections over all backend processes
    executed       \* history: the commands executed, in order

connectionVars == <<online, reported, connectionId, lastId, session>>
backendVars == <<commandTopic, statusTopic, connectionVars, gripper, link, executed>>

\* "wasActivated" is the state of the gripper when the command reached it.
Execution == [command : Command, session : Nat, wasActivated : BOOLEAN]

BackendInit ==
    /\ commandTopic = <<>> /\ statusTopic = <<>>
    /\ online = FALSE /\ reported = FALSE
    /\ connectionId = 0 /\ lastId = 0
    /\ gripper \in InitialGrippers /\ link = FALSE
    /\ session = 0 /\ executed = <<>>

\* Where n of the elements of a sequence of length m may stand.
Choices(n, m) ==
    {at \in [1..n -> 1..m] : \A i, j \in 1..n : i < j => at[i] < at[j]}

\* The sequences left of s when some of its elements are lost.
Remainders(s) ==
    UNION {{[i \in 1..n |-> s[at[i]]] : at \in Choices(n, Len(s))} : n \in 0..Len(s)}

\* Any of the commands on their way may get lost.
SomeLost(commands) == commandTopic' \in Remainders(commands)

Submit(c) ==
    /\ \E kept \in Remainders(commandTopic) : commandTopic' = Append(kept, c)
    /\ UNCHANGED <<statusTopic, connectionVars, gripper, link, executed>>

Lose ==
    /\ SomeLost(commandTopic)
    /\ UNCHANGED <<statusTopic, connectionVars, gripper, link, executed>>

GoOnline ==
    /\ ~online /\ online' = TRUE /\ link' = TRUE
    /\ reported' = FALSE /\ lastId' = 0
    /\ connectionId' = connectionId + 1 /\ session' = session + 1
    /\ UNCHANGED <<commandTopic, statusTopic, gripper, executed>>

Disconnects ==
    /\ online /\ online' = FALSE /\ link' = FALSE
    /\ reported' = FALSE /\ lastId' = 0
    /\ UNCHANGED <<connectionId, session>>

GoOffline ==
    /\ Disconnects
    /\ SomeLost(commandTopic)
    /\ UNCHANGED <<statusTopic, gripper, executed>>

\* The oldest command takes effect.
TakesEffect ==
    /\ online /\ reported /\ link
    /\ commandTopic # <<>>
    /\ gripper' = Latch(gripper, Head(commandTopic))
    /\ executed' = Append(executed, [command |-> Head(commandTopic), session |-> session,
                                     wasActivated |-> gripper.activated])

Execute ==
    /\ TakesEffect
    /\ commandTopic' = Tail(commandTopic)
    /\ lastId' = Head(commandTopic).id
    /\ UNCHANGED <<statusTopic, online, reported, connectionId, link, session>>

\* It takes effect, but the connection breaks before the backend knows.
ExecuteUnacknowledged ==
    /\ TakesEffect
    /\ Disconnects
    /\ SomeLost(Tail(commandTopic))
    /\ UNCHANGED statusTopic

Report ==
    /\ online /\ link
    /\ statusTopic' = Push(statusTopic, StatusDepth, [connected |-> TRUE, connection_id |-> connectionId,
                                         last_command_id |-> lastId, gripper |-> gripper])
    /\ reported' = TRUE
    /\ UNCHANGED <<commandTopic, online, connectionId, lastId, gripper, link, session, executed>>

ReportOffline ==
    /\ ~online
    /\ statusTopic' = Push(statusTopic, StatusDepth, [connected |-> FALSE, connection_id |-> connectionId,
                                         last_command_id |-> 0, gripper |-> BlankStatus])
    /\ SomeLost(commandTopic)
    /\ UNCHANGED <<connectionVars, gripper, link, executed>>

\* A new backend process counts its connections from 1 again.
Reboot ==
    /\ online' = FALSE /\ link' = FALSE /\ reported' = FALSE
    /\ lastId' = 0 /\ connectionId' = 0
    /\ commandTopic' = <<>>
    /\ UNCHANGED <<statusTopic, gripper, session, executed>>

Deliver ==
    /\ statusTopic # <<>> /\ statusTopic' = Tail(statusTopic)
    /\ UNCHANGED <<commandTopic, connectionVars, gripper, link, executed>>

GripperMoves ==
    /\ gripper' \in Evolutions(gripper)
    /\ UNCHANGED <<commandTopic, statusTopic, connectionVars, link, executed>>

GripperPowerCycles ==
    /\ gripper' = PoweredUp /\ link' = FALSE
    /\ UNCHANGED <<commandTopic, statusTopic, connectionVars, executed>>

BackendNext ==
    \/ Lose \/ GoOnline \/ GoOffline \/ Execute \/ ExecuteUnacknowledged
    \/ Report \/ ReportOffline \/ Reboot \/ GripperMoves \/ GripperPowerCycles

Next == BackendNext \/ Deliver \/ \E c \in Commands : Submit(c)

Spec == BackendInit /\ [][Next]_backendVars
=============================================================================
