-------------------------- MODULE ControlledGripper --------------------------
(***************************************************************************)
(* The controller over any backend that keeps the contract: the requests   *)
(* of Robotiq3FController interleave with the steps of GripperBackend, and *)
(* the two meet only in the topics.                                        *)
(***************************************************************************)
EXTENDS Robotiq3FController

\* Bound: connections that break, power cycles, and new backend processes.
CONSTANT MaxOutages

ASSUME EnvironmentAssumption == MaxOutages \in Nat

VARIABLES online, reported, connectionId, lastId, gripper, link, session, executed,
          outages

Backend == INSTANCE GripperBackend WITH Commands <- Command

backendOnly == <<online, reported, connectionId, lastId, gripper, link, session, executed>>
vars == <<controllerVars, backendOnly, outages>>

Init ==
    /\ ControllerInit
    /\ Backend!BackendInit
    /\ outages = 0

ControllerStep == ControllerNext /\ UNCHANGED <<backendOnly, outages>>

\* The breaking of a connection the gripper itself dropped is no further outage.
Outage ==
    /\ \/ Backend!GoOffline
       \/ Backend!ExecuteUnacknowledged
       \/ Backend!GripperPowerCycles
    /\ link => outages < MaxOutages
    /\ outages' = IF link THEN outages + 1 ELSE outages
    /\ UNCHANGED <<nodeVars, op>>

Reboot ==
    /\ outages < MaxOutages /\ outages' = outages + 1
    /\ Backend!Reboot
    /\ UNCHANGED <<nodeVars, op>>

BackendStep ==
    /\ \/ Backend!Lose
       \/ Backend!GoOnline
       \/ Backend!Execute
       \/ Backend!Report
       \/ Backend!ReportOffline
       \/ Backend!GripperMoves
    /\ UNCHANGED <<nodeVars, op, outages>>

Next == ControllerStep \/ Outage \/ Reboot \/ BackendStep

Spec == Init /\ [][Next]_vars

(***************************************************************************)
(* The threads of the controller run.  Nothing is assumed of the backend,  *)
(* the gripper or the topics: an iteration of wait_for_status() comes at   *)
(* least every 50 ms, and its deadline passes.                             *)
(***************************************************************************)
FairSpec ==
    /\ Spec
    /\ \A o \in Ops : WF_vars((Advances(o) \/ Ends(o)) /\ UNCHANGED <<backendOnly, outages>>)
    /\ WF_vars(Destroy /\ UNCHANGED <<backendOnly, outages>>)

-----------------------------------------------------------------------------
(* Properties.                                                             *)

\* Where a request holds the busy flag: from the exchange to ~BusyGuard.
Holds(o) ==
    /\ op[o].kind \notin {"none", "stop"}
    /\ op[o].pc \in {"check", "assign", "remember", "publish", "wait", "finish", "release"}

\* Single-operation arbitration: at most one activation, deactivation or goal
\* runs, and the flag is raised exactly while one does.  A flag that stayed up
\* would refuse every later request; one lowered early would mix two of them.
OneOperation ==
    /\ \A o, p \in Ops : Holds(o) /\ Holds(p) => o = p
    /\ busy <=> \E o \in Ops : Holds(o)

\* Where the command that request o sent in a phase was executed: nowhere, or
\* at one position of `executed`.
At(o, phase) ==
    {i \in DOMAIN executed : /\ op[o].sent[phase] # 0
                             /\ KeyOf(executed[i].command) = <<op[o].life, op[o].sent[phase]>>}

\* The command a request's success is about.
MainPhase(kind) == IF kind = "activate" THEN "activate" ELSE FirstPhase(kind)

\* A request that reports success had its own command executed by the gripper;
\* an activation, its reset before that, with nothing between the two but what
\* concurrent stop requests sent.  No lost, late or foreign command and no
\* status of another connection can stand in for it.
SuccessIsExecuted ==
    \A o \in Ops : op[o].result = "ok" /\ op[o].kind # "stop" =>
        /\ At(o, MainPhase(op[o].kind)) # {}
        /\ op[o].kind = "activate" =>
              \E i \in At(o, "reset"), j \in At(o, "activate") :
                 /\ i < j
                 /\ \A k \in (i + 1)..(j - 1) : \E s \in Ops : k \in At(s, "stop")

\* What is executed at i was sent by a stop request.
SentByStop(i) == \E s \in Ops : i \in At(s, "stop")

\* No command is executed twice, and the commands of one process are executed in the
\* order of their identifiers, whichever request sent them.  The exception are stops,
\* which hold no busy flag: publish_command() takes the identifier, remembers the
\* command and publishes it in three steps, between which a stop can overtake another
\* command or be overtaken.
OnlyStopsOvertake ==
    \A i, j \in DOMAIN executed :
        i < j /\ executed[i].command.life = executed[j].command.life =>
            \/ executed[i].command.id < executed[j].command.id
            \/ /\ executed[i].command.id # executed[j].command.id
               /\ SentByStop(i) \/ SentByStop(j)

\* The motion of a move that was given up is never executed after the stop
\* that the same request sent for it.
HaltIsLast ==
    \A o \in Ops : \A i \in At(o, "move"), j \in At(o, "halt") : i < j

\* Every request that starts ends, and lowers the busy flag if it raised it,
\* whatever the backend does: wait_for_status() has a deadline.
EveryRequestEnds == \A o \in Ops : Underway(o) ~> ~Underway(o)

\* Shutting down completes: once spin() returns, the destructor is reached and
\* the goal thread it joins ends.
ShutdownCompletes ==
    (stage = "stopped") ~> (stage # "stopped" /\ \A o \in Ops : ~Underway(o))

\* README: stop stops the hardware.  Its command may still be overtaken: a
\* motion numbered before it may be published, and executed, after it.
StopIsNotOvertaken ==
    \A s \in Ops : \A i \in At(s, "stop"), j \in DOMAIN executed :
        op[s].result = "ok" /\ i < j /\ executed[j].command.go_to
        => executed[j].command.id > executed[i].command.id

\* README: stop stops the hardware.  It repeats the activate bit of the last
\* command, so a stop executed on the very connection it looked at may start
\* the activation of a gripper that lost it.  (A connection has the number of
\* its session while no backend process is started anew.)
StopNeverActivates ==
    \A s \in Ops : \A i \in At(s, "stop") :
        /\ executed[i].session = op[s].connection
        /\ executed[i].command.activate
        => executed[i].wasActivated
=============================================================================
