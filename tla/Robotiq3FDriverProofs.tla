----------------------- MODULE Robotiq3FDriverProofs -----------------------
(***************************************************************************)
(* Theorems about Robotiq3FDriver, for every value of its constants; the   *)
(* last is that it implements GripperBackend: its initial states are       *)
(* initial states of the contract, and every step of it is a step of the   *)
(* contract or leaves the contract's variables alone.                      *)
(***************************************************************************)
EXTENDS DriverRefinement, SequenceTheorems, TLAPS

-----------------------------------------------------------------------------
(* What the operators of Gripper3F return.                                 *)

\* Publishing to a topic keeps it a sequence of samples.
LEMMA PushType ==
    ASSUME NEW S, NEW topic \in Seq(S), NEW depth \in Nat \ {0}, NEW sample \in S
    PROVE  Push(topic, depth, sample) \in Seq(S)
<1>1. CASE Len(topic) < depth
  BY <1>1 DEF Push
<1>2. CASE ~(Len(topic) < depth)
  <2>1. topic # <<>>
    BY <1>2
  <2>2. Tail(topic) \in Seq(S)
    BY <2>1
  <2> QED
    BY <1>2, <2>2 DEF Push
<1> QED
  BY <1>1, <1>2

\* The constant values of the data are of their types.
LEMMA DataTypes ==
    /\ BlankCommand \in Command
    /\ PoweredUp \in Gripper
    /\ BlankStatus \in Gripper
    /\ InitialGrippers \subseteq Gripper
    /\ NoEntry \in Entry
<1>1. BlankCommand \in Command
  BY DataAssumption DEF BlankCommand, Command
<1>2. PoweredUp \in Gripper
  BY DataAssumption DEF PoweredUp, Gripper, Initializations, Motions
<1>3. BlankStatus \in Gripper
  BY <1>2 DEF BlankStatus, Gripper, Motions
<1>4. [PoweredUp EXCEPT !.activated = TRUE, !.initialization = "ready"] \in Gripper
  BY <1>2 DEF Gripper, Initializations
<1>5. NoEntry \in Entry
  BY <1>1 DEF NoEntry, Entry
<1> QED
  BY <1>1, <1>2, <1>3, <1>4, <1>5 DEF InitialGrippers

\* A gripper that latched a command is a gripper.
LEMMA LatchType ==
    ASSUME NEW g \in Gripper, NEW c \in Command
    PROVE  Latch(g, c) \in Gripper
BY DEF Latch, Gripper, Command, Initializations, Motions

\* So is one that evolved.
LEMMA EvolutionsType ==
    ASSUME NEW g \in Gripper
    PROVE  Evolutions(g) \subseteq Gripper
<1> SUFFICES ASSUME NEW h \in Evolutions(g) PROVE h \in Gripper
  OBVIOUS
<1>1. h \in {[g EXCEPT !.initialization = "ready"], [g EXCEPT !.motion = "stopped"],
            [g EXCEPT !.fault = TRUE]}
  BY DEF Evolutions
<1> QED
  BY <1>1 DEF Gripper, Initializations, Motions

-----------------------------------------------------------------------------
(* Type correctness.                                                       *)

LEMMA InitTypeOK == Init => TypeOK
<1> SUFFICES ASSUME Init PROVE TypeOK
  OBVIOUS
<1>1. commandTopic \in Seq(Command) /\ statusTopic \in Seq(Status) /\ written \in Seq(Written)
  BY DEF Init
<1>2. handler \in Entry /\ pending \in Entry /\ command \in Entry
  BY DataTypes DEF Init
<1>3. gripper \in Gripper
  BY DataTypes DEF Init
<1>4. delay \in InitialDelay..MaxDelay
  BY DriverAssumption DEF Init
<1>5. pc \in Pcs
  BY DEF Init, Pcs
<1> QED
  BY <1>1, <1>2, <1>3, <1>4, <1>5 DEF Init, TypeOK

\* Publishing a status keeps the topic well-typed.
LEMMA ReportType ==
    ASSUME TypeOK, NEW isConnected \in BOOLEAN, NEW id \in Nat, NEW image \in Gripper,
           Report(isConnected, id, image)
    PROVE  statusTopic' \in Seq(Status)
<1> DEFINE sample == [connected |-> isConnected, connection_id |-> connectionId,
                      last_command_id |-> id, gripper |-> image]
<1>1. sample \in Status
  BY DEF TypeOK, Status
<1> QED
  BY <1>1, PushType, DataAssumption DEF Report, TypeOK

\* So does the latching of a command, of the gripper and of what was written.
LEMMA LatchesType ==
    ASSUME TypeOK, Latches
    PROVE  gripper' \in Gripper /\ written' \in Seq(Written)
<1>1. command.command \in Command /\ command.acceptedIn \in Nat /\ command.storedIn \in Nat
  BY DEF TypeOK, Entry
<1>2. gripper' \in Gripper
  BY <1>1, LatchType DEF TypeOK, Latches
<1>3. gripper.activated \in BOOLEAN
  BY DEF TypeOK, Gripper
<1>4. [command |-> command.command, acceptedIn |-> command.acceptedIn,
       storedIn |-> command.storedIn, session |-> session,
       statusSession |-> statusSession, wasActivated |-> gripper.activated] \in Written
  BY <1>1, <1>3 DEF TypeOK, Written
<1> QED
  BY <1>2, <1>4 DEF TypeOK, Latches

LEMMA NextTypeOK == TypeOK /\ [Next]_vars => TypeOK'
<1> SUFFICES ASSUME TypeOK, [Next]_vars PROVE TypeOK'
  OBVIOUS
<1> USE DEF topics, slots, client, device, process, history
<1>1. CASE ReceiveCommand
  <2>1. commandTopic' \in Seq(Command) /\ Head(commandTopic) \in Command
    BY <1>1 DEF ReceiveCommand, TypeOK
  <2>2. handler' \in Entry
    BY <1>1, <2>1, DataTypes DEF ReceiveCommand, TypeOK, Entry
  <2> QED
    BY <1>1, <2>1, <2>2 DEF ReceiveCommand, TypeOK
<1>2. CASE StoreCommand
  <2>1. pending' \in Entry
    BY <1>2 DEF StoreCommand, TypeOK, Entry
  <2> QED
    BY <1>2, <2>1, DataTypes DEF StoreCommand, TypeOK
<1>3. CASE Connect
  <2>1. delay' \in InitialDelay..MaxDelay
    BY <1>3, DriverAssumption DEF Connect
  <2>2. connectionId' \in Nat /\ session' \in Nat /\ lastId' \in Nat
    BY <1>3 DEF Connect, TypeOK
  <2>3. isOpen' \in BOOLEAN /\ link' \in BOOLEAN /\ ready' \in BOOLEAN
    BY <1>3 DEF Connect
  <2>4. UNCHANGED <<topics, slots, process, pc, gripper, sent, faults, statusSession, written>>
    BY <1>3 DEF Connect
  <2> QED
    BY <2>1, <2>2, <2>3, <2>4 DEF TypeOK
<1>4. CASE ConnectFails
  <2>1. delay' \in InitialDelay..MaxDelay
    BY <1>4, DriverAssumption DEF ConnectFails, TypeOK
  <2> QED
    BY <1>4, <2>1 DEF ConnectFails, TypeOK, Pcs
<1>5. CASE Swap
  <2>1. command' \in Entry /\ pending' \in Entry
    BY <1>5, DataTypes DEF Swap, TypeOK
  <2>2. pc' \in Pcs
    BY <1>5 DEF Swap, Pcs
  <2> QED
    BY <1>5, <2>1, <2>2 DEF Swap, TypeOK
<1>6. CASE Write
  <2>1. gripper' \in Gripper /\ written' \in Seq(Written)
    BY <1>6, LatchesType DEF Write
  <2>2. command.command.id \in Nat
    BY DEF TypeOK, Entry, Command
  <2> QED
    BY <1>6, <2>1, <2>2, DataTypes DEF Write, TypeOK, Pcs
<1>7. CASE WriteFails
  <2>1. gripper' \in Gripper /\ written' \in Seq(Written)
    BY <1>7, LatchesType DEF WriteFails, TypeOK
  <2>2. command' \in Entry
    BY <1>7, DataTypes DEF WriteFails
  <2>3. faults' \in Nat /\ pc' \in Pcs
    BY <1>7 DEF WriteFails, Closes, TypeOK, Pcs
  <2> QED
    BY <1>7, <2>1, <2>2, <2>3 DEF WriteFails, Closes, TypeOK
<1>8. CASE Read
  <2>1. statusTopic' \in Seq(Status)
    BY <1>8, ReportType DEF Read, TypeOK
  <2> QED
    BY <1>8, <2>1 DEF Read, TypeOK, Pcs
<1>9. CASE ReadFails
  <2>1. faults' \in Nat
    BY <1>9 DEF ReadFails, Closes, TypeOK
  <2> QED
    BY <1>9, <2>1 DEF ReadFails, Closes, TypeOK, Pcs
<1>10. CASE Enable
  BY <1>10 DEF Enable, TypeOK, Pcs
<1>11. CASE NotReady
  BY <1>11 DEF NotReady, TypeOK, Pcs
<1>12. CASE Clear
  <2>1. statusTopic' \in Seq(Status)
    BY <1>12, ReportType, DataTypes DEF Clear, TypeOK
  <2>2. pc' \in Pcs
    BY <1>12 DEF Clear, Pcs
  <2> QED
    BY <1>12, <2>1, <2>2, DataTypes DEF Clear, TypeOK
<1>13. CASE Unconfigured
  BY <1>13 DEF Unconfigured, TypeOK, Pcs
<1>14. CASE Exit
  BY <1>14 DEF Exit, TypeOK, Pcs
<1>15. CASE RequestStop
  BY <1>15 DEF RequestStop, TypeOK
<1>16. CASE Restart
  <2>1. pc' \in Pcs
    BY <1>16 DEF Restart, ProcessStarts, Pcs
  <2>2. delay' \in InitialDelay..MaxDelay
    BY <1>16, DriverAssumption DEF Restart, ProcessStarts
  <2>3. handler' \in Entry /\ pending' \in Entry /\ command' \in Entry
    BY <1>16, DataTypes DEF Restart, ProcessStarts
  <2>4. restarts' \in Nat /\ lastId' \in Nat /\ connectionId' \in Nat
    BY <1>16 DEF Restart, ProcessStarts, TypeOK
  <2>5. commandTopic' \in Seq(Command)
    BY <1>16 DEF Restart
  <2>6. ready' \in BOOLEAN /\ isOpen' \in BOOLEAN /\ stopRequested' \in BOOLEAN
        /\ link' \in BOOLEAN
    BY <1>16 DEF Restart, ProcessStarts
  <2>7. UNCHANGED <<statusTopic, configured, gripper, sent, faults, history>>
    BY <1>16 DEF Restart
  <2> QED
    BY <2>1, <2>2, <2>3, <2>4, <2>5, <2>6, <2>7 DEF TypeOK
<1>17. CASE GripperEvolves
  <2>1. gripper' \in Gripper
    BY <1>17, EvolutionsType DEF GripperEvolves, TypeOK
  <2> QED
    BY <1>17, <2>1 DEF GripperEvolves, TypeOK
<1>18. CASE PowerCycle
  <2>1. gripper' \in Gripper
    BY <1>18, DataTypes DEF PowerCycle
  <2>2. faults' \in Nat
    BY <1>18 DEF PowerCycle, TypeOK
  <2>3. link' \in BOOLEAN
    BY <1>18 DEF PowerCycle
  <2>4. UNCHANGED <<topics, slots, ready, lastId, client, process, pc, sent, history>>
    BY <1>18 DEF PowerCycle
  <2> QED
    BY <2>1, <2>2, <2>3, <2>4 DEF TypeOK
<1>19. ASSUME NEW shape \in Shapes, PublishCommand(shape) PROVE TypeOK'
  <2>1. shape \in Command /\ sent' \in Nat
    <3>1. sent \in Nat /\ sent' = sent + 1
      BY <1>19 DEF PublishCommand, TypeOK
    <3>2. shape \in Command
      BY DriverAssumption
    <3> QED
      BY <3>1, <3>2
  <2>2. [shape EXCEPT !.id = sent'] \in Command
    BY <2>1 DEF Command
  <2>3. commandTopic' \in Seq(Command)
    BY <1>19, <2>2, PushType, DataAssumption DEF PublishCommand, TypeOK
  <2>4. UNCHANGED <<statusTopic, slots, ready, lastId, client, process, pc, device, faults,
                    history>>
    BY <1>19 DEF PublishCommand
  <2> QED
    BY <2>1, <2>3, <2>4 DEF TypeOK
<1>20. CASE TakeStatus
  BY <1>20 DEF TakeStatus, TypeOK
<1>21. CASE UNCHANGED vars
  BY <1>21 DEF vars, TypeOK
<1> QED
  BY <1>1, <1>2, <1>3, <1>4, <1>5, <1>6, <1>7, <1>8, <1>9, <1>10, <1>11, <1>12, <1>13, <1>14,
     <1>15, <1>16, <1>17, <1>18, <1>19, <1>20, <1>21 DEF Next, DriverNext, Executor, Worker

\* Every variable of the driver is of its type, whatever the interleaving of its
\* threads, the failures and the restarts; the back-off never exceeds its maximum.
THEOREM TypeCorrect == Spec => []TypeOK
BY InitTypeOK, NextTypeOK, PTL DEF Spec

-----------------------------------------------------------------------------
(* A command is written only when the driver may write it.                 *)

(***************************************************************************)
(* WrittenAuthorised is not inductive: that the last valid status came     *)
(* from the session of the write follows from the readiness flag, which    *)
(* only Enable raises and Connect lowers, and that the command passed the  *)
(* tests of receive_command() from what the handler and the slot hold.     *)
(***************************************************************************)
Vetted(entry) == IsEntry(entry) => Acceptable(entry.command)

Authorised ==
    /\ Vetted(handler) /\ Vetted(pending)
    /\ ready => statusSession = session
    /\ pc = "enable" => statusSession = session
    /\ pc = "write" => /\ Acceptable(command.command)
                      /\ statusSession = session
    /\ WrittenAuthorised

LEMMA InitAuthorised == Init => Authorised
BY DEF Init, Authorised, Vetted, IsEntry, WrittenAuthorised

\* Latching a command that may be written keeps what was written authorised.
LEMMA LatchesAuthorised ==
    ASSUME TypeOK, Authorised, pc = "write", Latches
    PROVE  WrittenAuthorised'
<1>1. written \in Seq(Written)
  BY DEF TypeOK
<1>2. DOMAIN written' = 1..(Len(written) + 1)
  BY <1>1 DEF Latches
<1> SUFFICES ASSUME NEW i \in 1..(Len(written) + 1)
             PROVE  /\ Acceptable(written'[i].command)
                    /\ written'[i].statusSession = written'[i].session
  BY <1>2 DEF WrittenAuthorised, Acceptable
<1>3. CASE i \in 1..Len(written)
  <2>1. written'[i] = written[i] /\ i \in DOMAIN written
    BY <1>1, <1>3 DEF Latches
  <2> QED
    BY <2>1 DEF Authorised, WrittenAuthorised
<1>4. CASE i = Len(written) + 1
  <2>1. /\ written'[i].command = command.command
        /\ written'[i].session = session
        /\ written'[i].statusSession = statusSession
    BY <1>1, <1>4 DEF Latches
  <2> QED
    BY <2>1 DEF Authorised
<1> QED
  BY <1>1, <1>3, <1>4

LEMMA NextAuthorised == TypeOK /\ Authorised /\ [Next]_vars => Authorised'
<1> SUFFICES ASSUME TypeOK, Authorised, [Next]_vars PROVE Authorised'
  OBVIOUS
<1> USE DEF topics, slots, client, device, process, history
<1>1. CASE ReceiveCommand
  <2>1. Vetted(handler)'
    BY <1>1 DEF ReceiveCommand, Vetted, IsEntry
  <2> QED
    BY <1>1, <2>1 DEF ReceiveCommand, Authorised, Vetted, WrittenAuthorised
<1>2. CASE StoreCommand
  <2>1. Vetted(pending)'
    BY <1>2 DEF StoreCommand, Authorised, Vetted, IsEntry, TypeOK, Entry, Acceptable
  <2>2. Vetted(handler)'
    BY <1>2 DEF StoreCommand, Vetted, IsEntry
  <2> QED
    BY <1>2, <2>1, <2>2 DEF StoreCommand, Authorised, WrittenAuthorised
<1>3. CASE Connect
  BY <1>3 DEF Connect, Authorised, Vetted, WrittenAuthorised
<1>4. CASE ConnectFails
  BY <1>4 DEF ConnectFails, Authorised, Vetted, WrittenAuthorised
<1>5. CASE Swap
  BY <1>5 DEF Swap, Authorised, Vetted, IsEntry, WrittenAuthorised
<1>6. CASE Write
  <2>1. pc = "write" /\ Latches
    BY <1>6 DEF Write
  <2>2. WrittenAuthorised'
    BY <2>1, LatchesAuthorised
  <2> QED
    BY <1>6, <2>2 DEF Write, Authorised, Vetted
<1>7. CASE WriteFails
  <2>1. pc = "write" /\ (UNCHANGED written \/ Latches)
    BY <1>7 DEF WriteFails
  <2>2. WrittenAuthorised'
    BY <2>1, LatchesAuthorised DEF Authorised, WrittenAuthorised
  <2> QED
    BY <1>7, <2>2 DEF WriteFails, Closes, Authorised, Vetted
<1>8. CASE Read
  BY <1>8 DEF Read, Authorised, Vetted, WrittenAuthorised
<1>9. CASE ReadFails
  BY <1>9 DEF ReadFails, Closes, Authorised, Vetted, WrittenAuthorised
<1>10. CASE Enable
  BY <1>10 DEF Enable, Authorised, Vetted, WrittenAuthorised
<1>11. CASE NotReady
  BY <1>11 DEF NotReady, Authorised, Vetted, WrittenAuthorised
<1>12. CASE Clear
  BY <1>12 DEF Clear, Authorised, Vetted, IsEntry, WrittenAuthorised
<1>13. CASE Unconfigured
  BY <1>13 DEF Unconfigured, Authorised, Vetted, WrittenAuthorised
<1>14. CASE Exit
  BY <1>14 DEF Exit, Authorised, Vetted, WrittenAuthorised
<1>15. CASE Restart
  BY <1>15 DEF Restart, ProcessStarts, Authorised, Vetted, IsEntry, WrittenAuthorised
<1>16. CASE RequestStop \/ GripperEvolves \/ PowerCycle \/ TakeStatus
  BY <1>16 DEF RequestStop, GripperEvolves, PowerCycle, TakeStatus, Authorised, Vetted,
               WrittenAuthorised
<1>17. CASE \E shape \in Shapes : PublishCommand(shape)
  BY <1>17 DEF PublishCommand, Authorised, Vetted, WrittenAuthorised
<1>18. CASE UNCHANGED vars
  BY <1>18 DEF vars, Authorised, Vetted, WrittenAuthorised
<1> QED
  BY <1>1, <1>2, <1>3, <1>4, <1>5, <1>6, <1>7, <1>8, <1>9, <1>10, <1>11, <1>12, <1>13, <1>14,
     <1>15, <1>16, <1>17, <1>18 DEF Next, DriverNext, Executor, Worker

\* Whatever its threads, the network and the gripper do, the driver writes only
\* commands that passed the tests of receive_command(), and only on a connection
\* that a valid status was published from.
THEOREM WritesAreAuthorised == Spec => []WrittenAuthorised
<1>1. Init => TypeOK /\ Authorised
  BY InitTypeOK, InitAuthorised
<1>2. TypeOK /\ Authorised /\ [Next]_vars => (TypeOK /\ Authorised)'
  BY NextTypeOK, NextAuthorised
<1>3. Authorised => WrittenAuthorised
  BY DEF Authorised
<1> QED
  BY <1>1, <1>2, <1>3, PTL DEF Spec

-----------------------------------------------------------------------------
(* A stored command stays on its connection, and last_command_id_ is right. *)

(***************************************************************************)
(* A command stored while a connection was open leaves the slot before the *)
(* next one opens: the worker closes the connection on its way to          *)
(* mark_disconnected(), and does not connect before it cleared the slot.   *)
(***************************************************************************)
Confined ==
    /\ pc \in {"not_ready", "clear", "unconfigured", "exited"} => ~isOpen
    /\ pending.storedIn # 0 =>
          /\ pending.storedIn = session
          /\ isOpen \/ pc \in {"not_ready", "clear", "exited"}
    /\ pc = "write" => command.storedIn \in {0, session}
    /\ \A i \in DOMAIN written : written[i].session <= session
    /\ StoredStaysInSession
    /\ LastIdIsLastWrite

LEMMA InitConfined == Init => Confined
BY DEF Init, Confined, NoEntry, StoredStaysInSession, LastIdIsLastWrite

\* What a latched command adds to the history.
LEMMA LatchesConfined ==
    ASSUME TypeOK, Confined, pc = "write", Latches, session' = session
    PROVE  /\ \A i \in DOMAIN written' : written'[i].session <= session'
           /\ StoredStaysInSession'
           /\ written' # <<>>
           /\ written'[Len(written')].session = session
           /\ written'[Len(written')].command = command.command
<1> DEFINE n == Len(written) + 1
<1>1. written \in Seq(Written) /\ session \in Nat
  BY DEF TypeOK
<1>2. DOMAIN written' = 1..n /\ Len(written') = n
  BY <1>1 DEF Latches
<1>3. /\ written'[n].command = command.command
      /\ written'[n].storedIn = command.storedIn
      /\ written'[n].session = session
  BY <1>1 DEF Latches
<1>4. \A i \in 1..Len(written) : written'[i] = written[i] /\ i \in DOMAIN written
  BY <1>1 DEF Latches
<1>5. \A i \in 1..n : i = n \/ i \in 1..Len(written)
  BY <1>1
<1>6. ASSUME NEW i \in 1..n
      PROVE  /\ written'[i].session <= session
             /\ written'[i].storedIn # 0 => written'[i].storedIn = written'[i].session
  <2>1. CASE i = n
    BY <2>1, <1>1, <1>3 DEF Confined
  <2>2. CASE i \in 1..Len(written)
    BY <2>2, <1>4 DEF Confined, StoredStaysInSession
  <2> QED
    BY <2>1, <2>2, <1>5
<1>7. written' # <<>>
  BY <1>1, <1>2
<1> QED
  BY <1>2, <1>3, <1>6, <1>7 DEF StoredStaysInSession

LEMMA NextConfined == TypeOK /\ Confined /\ [Next]_vars => Confined'
<1> SUFFICES ASSUME TypeOK, Confined, [Next]_vars PROVE Confined'
  OBVIOUS
<1> USE DEF topics, slots, client, device, process, history
<1>1. CASE ReceiveCommand
  BY <1>1 DEF ReceiveCommand, Confined, StoredStaysInSession, LastIdIsLastWrite
<1>2. CASE StoreCommand
  <2>1. pending'.storedIn # 0 => pending'.storedIn = session /\ isOpen
    BY <1>2 DEF StoreCommand, TypeOK, Entry
  <2> QED
    BY <1>2, <2>1 DEF StoreCommand, Confined, StoredStaysInSession, LastIdIsLastWrite
<1>3. CASE Connect
  <2>1. pending'.storedIn = 0 /\ pc' = "top" /\ session' = session + 1 /\ lastId' = 0
    BY <1>3 DEF Connect, Confined
  <2>2. \A i \in DOMAIN written' : written'[i].session <= session'
                                  /\ written'[i].session # session'
    <3>1. written' = written
      BY <1>3 DEF Connect
    <3>2. written \in Seq(Written) /\ session \in Nat
      BY DEF TypeOK
    <3>3. \A i \in DOMAIN written : written[i] \in Written
      BY <3>2
    <3>4. \A i \in DOMAIN written : written[i].session \in Nat
      BY <3>3 DEF Written
    <3>5. \A i \in DOMAIN written : written[i].session <= session
      BY DEF Confined
    <3> QED
      BY <2>1, <3>1, <3>2, <3>4, <3>5
  <2>3. written # <<>> => Len(written) \in DOMAIN written
    BY DEF TypeOK
  <2>4. LastIdIsLastWrite'
    BY <1>3, <2>1, <2>2, <2>3 DEF Connect, LastIdIsLastWrite
  <2> QED
    BY <1>3, <2>1, <2>2, <2>4 DEF Connect, Confined, StoredStaysInSession
<1>4. CASE ConnectFails
  BY <1>4 DEF ConnectFails, Confined, StoredStaysInSession, LastIdIsLastWrite
<1>5. CASE Swap
  BY <1>5 DEF Swap, Confined, NoEntry, StoredStaysInSession, LastIdIsLastWrite
<1>6. CASE Write
  <2>1. pc = "write" /\ Latches /\ session' = session
    BY <1>6 DEF Write
  <2>2. /\ \A i \in DOMAIN written' : written'[i].session <= session'
        /\ StoredStaysInSession'
        /\ LastIdIsLastWrite'
    BY <1>6, <2>1, LatchesConfined DEF Write, LastIdIsLastWrite
  <2> QED
    BY <1>6, <2>2 DEF Write, Confined
<1>7. CASE WriteFails
  <2>1. /\ pc = "write" /\ session' = session
        /\ UNCHANGED written \/ Latches
    BY <1>7 DEF WriteFails
  <2>2. /\ \A i \in DOMAIN written' : written'[i].session <= session'
        /\ StoredStaysInSession'
    BY <2>1, LatchesConfined DEF Confined, StoredStaysInSession
  <2> QED
    BY <1>7, <2>2 DEF WriteFails, Closes, Confined, LastIdIsLastWrite
<1>8. CASE Read
  BY <1>8 DEF Read, Confined, StoredStaysInSession, LastIdIsLastWrite
<1>9. CASE ReadFails
  BY <1>9 DEF ReadFails, Closes, Confined, StoredStaysInSession, LastIdIsLastWrite
<1>10. CASE Enable
  BY <1>10 DEF Enable, Confined, StoredStaysInSession, LastIdIsLastWrite
<1>11. CASE NotReady
  BY <1>11 DEF NotReady, Confined, StoredStaysInSession, LastIdIsLastWrite
<1>12. CASE Clear
  BY <1>12 DEF Clear, Confined, NoEntry, StoredStaysInSession, LastIdIsLastWrite
<1>13. CASE Unconfigured
  BY <1>13 DEF Unconfigured, Confined, StoredStaysInSession, LastIdIsLastWrite
<1>14. CASE Exit
  BY <1>14 DEF Exit, Confined, StoredStaysInSession, LastIdIsLastWrite
<1>15. CASE Restart
  BY <1>15 DEF Restart, ProcessStarts, Confined, NoEntry, StoredStaysInSession,
               LastIdIsLastWrite
<1>16. CASE RequestStop \/ GripperEvolves \/ PowerCycle \/ TakeStatus
  BY <1>16 DEF RequestStop, GripperEvolves, PowerCycle, TakeStatus, Confined,
               StoredStaysInSession, LastIdIsLastWrite
<1>17. CASE \E shape \in Shapes : PublishCommand(shape)
  BY <1>17 DEF PublishCommand, Confined, StoredStaysInSession, LastIdIsLastWrite
<1>18. CASE UNCHANGED vars
  BY <1>18 DEF vars, Confined, StoredStaysInSession, LastIdIsLastWrite
<1> QED
  BY <1>1, <1>2, <1>3, <1>4, <1>5, <1>6, <1>7, <1>8, <1>9, <1>10, <1>11, <1>12, <1>13, <1>14,
     <1>15, <1>16, <1>17, <1>18 DEF Next, DriverNext, Executor, Worker

\* Confined holds in every reachable state.
LEMMA AlwaysConfined == Spec => []Confined
<1>1. Init => TypeOK /\ Confined
  BY InitTypeOK, InitConfined
<1>2. TypeOK /\ Confined /\ [Next]_vars => (TypeOK /\ Confined)'
  BY NextTypeOK, NextConfined
<1> QED
  BY <1>1, <1>2, PTL DEF Spec

\* A command that receive_command() stored while a connection was open is never
\* written on a later connection: mark_disconnected() comes in between.
THEOREM StoredCommandsStay == Spec => []StoredStaysInSession
<1>1. Confined => StoredStaysInSession
  BY DEF Confined
<1> QED
  BY <1>1, AlwaysConfined, PTL

\* While connected, last_command_id_, which every status carries, names the last
\* command written on this connection, whatever was written on earlier ones.
THEOREM LastIdIsRight == Spec => []LastIdIsLastWrite
<1>1. Confined => LastIdIsLastWrite
  BY DEF Confined
<1> QED
  BY <1>1, AlwaysConfined, PTL

-----------------------------------------------------------------------------
(* Commands are written in the order they were published, none twice.      *)

Ids(topic) == {topic[i].id : i \in DOMAIN topic}
IdOf(entry) == IF IsEntry(entry) THEN {entry.command.id} ELSE {}
WrittenIds == {written[i].command.id : i \in DOMAIN written}
Below(A, B) == \A a \in A, b \in B : a < b
Increasing(topic) == \A i, j \in DOMAIN topic : i < j => topic[i].id < topic[j].id

(***************************************************************************)
(* The places a command passes through, from the topic to the gripper,     *)
(* hold ever smaller identifiers: a place takes its command over from the  *)
(* place before it, or loses it.  Any of them may be empty, so that every  *)
(* pair of places has to be related.                                       *)
(***************************************************************************)
Ordered ==
    /\ pc = "write" => IsEntry(command)
    /\ Below(WrittenIds, IdOf(command)) /\ Below(WrittenIds, IdOf(pending))
    /\ Below(WrittenIds, IdOf(handler)) /\ Below(WrittenIds, Ids(commandTopic))
    /\ Below(IdOf(command), IdOf(pending)) /\ Below(IdOf(command), IdOf(handler))
    /\ Below(IdOf(command), Ids(commandTopic))
    /\ Below(IdOf(pending), IdOf(handler)) /\ Below(IdOf(pending), Ids(commandTopic))
    /\ Below(IdOf(handler), Ids(commandTopic))
    /\ \A id \in WrittenIds \union IdOf(command) \union IdOf(pending) \union IdOf(handler)
                \union Ids(commandTopic) : id <= sent
    /\ Increasing(commandTopic)
    /\ WrittenInOrder

\* Taking the first command off a topic.
LEMMA TailOrder ==
    ASSUME NEW topic \in Seq(Command), topic # <<>>, Increasing(topic)
    PROVE  /\ Ids(Tail(topic)) \subseteq Ids(topic)
           /\ Head(topic).id \in Ids(topic)
           /\ Below({Head(topic).id}, Ids(Tail(topic)))
           /\ Increasing(Tail(topic))
<1>1. Len(topic) \in Nat /\ Len(topic) >= 1 /\ DOMAIN topic = 1..Len(topic)
  OBVIOUS
<1>2. DOMAIN Tail(topic) = 1..(Len(topic) - 1)
  BY <1>1
<1>3. \A i \in 1..(Len(topic) - 1) : Tail(topic)[i] = topic[i + 1] /\ i + 1 \in DOMAIN topic
  BY <1>1
<1>4. Head(topic) = topic[1] /\ 1 \in DOMAIN topic
  BY <1>1
<1>5. Ids(Tail(topic)) \subseteq Ids(topic)
  BY <1>2, <1>3 DEF Ids
<1>6. Below({Head(topic).id}, Ids(Tail(topic)))
  BY <1>1, <1>2, <1>3, <1>4 DEF Ids, Below, Increasing
<1>7. Increasing(Tail(topic))
  <2> SUFFICES ASSUME NEW i \in 1..(Len(topic) - 1), NEW j \in 1..(Len(topic) - 1), i < j
               PROVE  Tail(topic)[i].id < Tail(topic)[j].id
    BY <1>2 DEF Increasing
  <2>1. i + 1 < j + 1
    OBVIOUS
  <2>2. topic[i + 1].id < topic[j + 1].id
    BY <2>1, <1>3 DEF Increasing
  <2> QED
    BY <2>2, <1>3
<1> QED
  BY <1>4, <1>5, <1>6, <1>7 DEF Ids

\* Publishing a command with a new identifier.
LEMMA PushOrder ==
    ASSUME NEW topic \in Seq(Command), NEW depth \in Nat \ {0}, NEW sample \in Command,
           Increasing(topic), Below(Ids(topic), {sample.id})
    PROVE  /\ Ids(Push(topic, depth, sample)) \subseteq Ids(topic) \union {sample.id}
           /\ Increasing(Push(topic, depth, sample))
<1>1. ASSUME NEW kept \in Seq(Command), Increasing(kept), Ids(kept) \subseteq Ids(topic)
      PROVE  /\ Ids(Append(kept, sample)) \subseteq Ids(topic) \union {sample.id}
             /\ Increasing(Append(kept, sample))
  <2> DEFINE n == Len(kept) + 1
  <2>1. n \in Nat /\ DOMAIN Append(kept, sample) = 1..n /\ Append(kept, sample)[n] = sample
    OBVIOUS
  <2>2. \A i \in 1..n : i # n => Append(kept, sample)[i] = kept[i] /\ i \in DOMAIN kept
    OBVIOUS
  <2>3. Ids(Append(kept, sample)) \subseteq Ids(topic) \union {sample.id}
    BY <2>1, <2>2, <1>1 DEF Ids
  <2>4. ASSUME NEW i \in 1..n, NEW j \in 1..n, i < j
        PROVE  Append(kept, sample)[i].id < Append(kept, sample)[j].id
    <3>1. i # n /\ Append(kept, sample)[i] = kept[i] /\ i \in DOMAIN kept
      BY <2>2, <2>4
    <3>2. CASE j = n
      BY <3>1, <3>2, <2>1, <1>1 DEF Below, Ids
    <3>3. CASE j # n
      BY <3>1, <3>3, <2>2, <2>4, <1>1 DEF Increasing
    <3> QED
      BY <3>2, <3>3
  <2> QED
    BY <2>1, <2>3, <2>4 DEF Increasing
<1>2. CASE Len(topic) < depth
  BY <1>1, <1>2 DEF Push
<1>3. CASE ~(Len(topic) < depth)
  <2>1. topic # <<>>
    BY <1>3
  <2>2. Tail(topic) \in Seq(Command)
    BY <2>1
  <2> QED
    BY <1>1, <1>3, <2>1, <2>2, TailOrder DEF Push
<1> QED
  BY <1>2, <1>3

LEMMA InitOrdered == Init => Ordered
<1> SUFFICES ASSUME Init PROVE Ordered
  OBVIOUS
<1>1. WrittenIds = {} /\ Ids(commandTopic) = {}
  BY DEF Init, WrittenIds, Ids
<1>2. IdOf(command) = {} /\ IdOf(pending) = {} /\ IdOf(handler) = {}
  BY DEF Init, IdOf, IsEntry
<1> QED
  BY <1>1, <1>2 DEF Init, Ordered, Below, Increasing, WrittenInOrder

\* Latching moves the command from the worker to what was written.
LEMMA LatchesOrdered ==
    ASSUME TypeOK, Ordered, pc = "write", Latches
    PROVE  WrittenIds' \subseteq WrittenIds \union IdOf(command) /\ WrittenInOrder'
<1> DEFINE n == Len(written) + 1
<1>1. written \in Seq(Written)
  BY DEF TypeOK
<1>2. n \in Nat /\ DOMAIN written' = 1..n
  BY <1>1 DEF Latches
<1>3. written'[n].command = command.command
  BY <1>1 DEF Latches
<1>4. \A i \in 1..n : i # n => written'[i] = written[i] /\ i \in DOMAIN written
  BY <1>1 DEF Latches
<1>5. IdOf(command) = {command.command.id}
  BY DEF Ordered, IdOf
<1>6. WrittenIds' \subseteq WrittenIds \union IdOf(command)
  BY <1>2, <1>3, <1>4, <1>5 DEF WrittenIds
<1>7. ASSUME NEW i \in 1..n, NEW j \in 1..n, i < j
      PROVE  written'[i].command.id < written'[j].command.id
  <2>1. i # n /\ written'[i] = written[i] /\ i \in DOMAIN written
    BY <1>2, <1>4, <1>7
  <2>2. CASE j = n
    BY <2>1, <2>2, <1>3, <1>5 DEF Ordered, Below, WrittenIds
  <2>3. CASE j # n
    BY <2>1, <2>3, <1>4, <1>7 DEF Ordered, WrittenInOrder
  <2> QED
    BY <2>2, <2>3
<1> QED
  BY <1>2, <1>6, <1>7 DEF WrittenInOrder

\* A step that leaves every place as it is, or empties it, keeps the order.
LEMMA PlacesShrink ==
    ASSUME Ordered, UNCHANGED <<commandTopic, written, sent>>,
           handler' \in {handler, NoEntry}, pending' \in {pending, NoEntry},
           command' \in {command, NoEntry}, pc' = "write" => pc = "write" /\ command' = command
    PROVE  Ordered'
<1>1. WrittenIds' = WrittenIds /\ Ids(commandTopic)' = Ids(commandTopic)
  BY DEF WrittenIds, Ids
<1>2. /\ IdOf(handler)' \subseteq IdOf(handler) /\ IdOf(pending)' \subseteq IdOf(pending)
      /\ IdOf(command)' \subseteq IdOf(command)
  BY DEF IdOf, IsEntry
<1> QED
  BY <1>1, <1>2 DEF Ordered, Below, Increasing, WrittenInOrder

LEMMA NextOrdered == TypeOK /\ Ordered /\ [Next]_vars => Ordered'
<1> SUFFICES ASSUME TypeOK, Ordered, [Next]_vars PROVE Ordered'
  OBVIOUS
<1> USE DEF topics, slots, client, device, process, history
<1>1. CASE ReceiveCommand
  <2>1. /\ Ids(commandTopic)' \subseteq Ids(commandTopic)
        /\ Head(commandTopic).id \in Ids(commandTopic)
        /\ Below({Head(commandTopic).id}, Ids(commandTopic)')
        /\ Increasing(commandTopic)'
    BY <1>1, TailOrder DEF ReceiveCommand, TypeOK, Ordered, Ids, Increasing
  <2>2. IdOf(handler)' \subseteq {Head(commandTopic).id}
    BY <1>1 DEF ReceiveCommand, IdOf, IsEntry
  <2>3. /\ WrittenIds' = WrittenIds /\ IdOf(command)' = IdOf(command)
        /\ IdOf(pending)' = IdOf(pending) /\ sent' = sent
    BY <1>1 DEF ReceiveCommand, WrittenIds, IdOf, IsEntry
  <2>4. WrittenInOrder' /\ (pc' = "write" => IsEntry(command)')
    BY <1>1 DEF ReceiveCommand, Ordered, WrittenInOrder, IsEntry
  <2> QED
    BY <2>1, <2>2, <2>3, <2>4 DEF Ordered, Below
<1>2. CASE StoreCommand
  <2>1. IdOf(pending)' \subseteq IdOf(handler)
    BY <1>2 DEF StoreCommand, IdOf, IsEntry, TypeOK, Entry
  <2>2. IdOf(handler)' = {}
    BY <1>2 DEF StoreCommand, IdOf, IsEntry
  <2>3. /\ WrittenIds' = WrittenIds /\ IdOf(command)' = IdOf(command)
        /\ Ids(commandTopic)' = Ids(commandTopic) /\ sent' = sent
    BY <1>2 DEF StoreCommand, WrittenIds, IdOf, IsEntry, Ids
  <2>4. WrittenInOrder' /\ Increasing(commandTopic)' /\ (pc' = "write" => IsEntry(command)')
    BY <1>2 DEF StoreCommand, Ordered, WrittenInOrder, IsEntry, Increasing
  <2> QED
    BY <2>1, <2>2, <2>3, <2>4 DEF Ordered, Below
<1>3. CASE Swap
  <2>1. CASE ready
    <3>1. IdOf(command)' = IdOf(pending) /\ IdOf(pending)' = {}
      BY <1>3, <2>1 DEF Swap, IdOf, IsEntry
    <3>2. /\ WrittenIds' = WrittenIds /\ IdOf(handler)' = IdOf(handler)
          /\ Ids(commandTopic)' = Ids(commandTopic) /\ sent' = sent
      BY <1>3 DEF Swap, WrittenIds, IdOf, IsEntry, Ids
    <3>3. WrittenInOrder' /\ Increasing(commandTopic)' /\ (pc' = "write" => IsEntry(command)')
      BY <1>3, <2>1 DEF Swap, Ordered, WrittenInOrder, IsEntry, Increasing
    <3> QED
      BY <3>1, <3>2, <3>3 DEF Ordered, Below
  <2>2. CASE ~ready
    BY <1>3, <2>2, PlacesShrink DEF Swap
  <2> QED
    BY <2>1, <2>2
<1>4. CASE Write \/ (WriteFails /\ Latches)
  <2>1. pc = "write" /\ Latches /\ command' = NoEntry /\ pc' # "write"
        /\ UNCHANGED <<commandTopic, handler, pending, sent>>
    BY <1>4 DEF Write, WriteFails, Closes
  <2>2. WrittenIds' \subseteq WrittenIds \union IdOf(command) /\ WrittenInOrder'
    BY <2>1, LatchesOrdered
  <2>3. /\ IdOf(command)' = {} /\ IdOf(pending)' = IdOf(pending)
        /\ IdOf(handler)' = IdOf(handler) /\ Ids(commandTopic)' = Ids(commandTopic)
    BY <2>1 DEF IdOf, IsEntry, Ids
  <2>4. Increasing(commandTopic)'
    BY <2>1 DEF Ordered, Increasing
  <2> QED
    BY <2>1, <2>2, <2>3, <2>4 DEF Ordered, Below
<1>5. CASE WriteFails /\ ~Latches
  BY <1>5, PlacesShrink DEF WriteFails, Closes
<1>6. CASE Connect \/ ConnectFails \/ Read \/ ReadFails \/ Enable
  BY <1>6, PlacesShrink DEF Connect, ConnectFails, Read, ReadFails, Closes, Enable
<1>7. CASE NotReady \/ Clear \/ Unconfigured \/ Exit
  BY <1>7, PlacesShrink DEF NotReady, Clear, Unconfigured, Exit
<1>8. CASE RequestStop \/ GripperEvolves \/ PowerCycle \/ TakeStatus
  BY <1>8, PlacesShrink DEF RequestStop, GripperEvolves, PowerCycle, TakeStatus
<1>9. CASE Restart
  <2>1. /\ Ids(commandTopic)' = {} /\ IdOf(command)' = {}
        /\ IdOf(pending)' = {} /\ IdOf(handler)' = {}
    BY <1>9 DEF Restart, ProcessStarts, Ids, IdOf, IsEntry
  <2>2. WrittenIds' = WrittenIds /\ sent' = sent
    BY <1>9 DEF Restart, WrittenIds
  <2>3. Increasing(commandTopic)' /\ WrittenInOrder' /\ pc' # "write"
    BY <1>9 DEF Restart, ProcessStarts, Increasing, Ordered, WrittenInOrder
  <2> QED
    BY <2>1, <2>2, <2>3 DEF Ordered, Below
<1>10. ASSUME NEW shape \in Shapes, PublishCommand(shape) PROVE Ordered'
  <2> DEFINE sample == [shape EXCEPT !.id = sent']
  <2>1. shape \in Command /\ sent \in Nat /\ sent' = sent + 1
    BY <1>10, DriverAssumption DEF PublishCommand, TypeOK
  <2>2. sample \in Command /\ sample.id = sent'
    BY <2>1 DEF Command
  <2>3. \A id \in WrittenIds \union IdOf(command) \union IdOf(pending) \union IdOf(handler)
                 \union Ids(commandTopic) : id \in Nat
    <3>1. \A i \in DOMAIN written : written[i] \in Written
      BY DEF TypeOK
    <3>2. \A i \in DOMAIN commandTopic : commandTopic[i] \in Command
      BY DEF TypeOK
    <3>3. \A c \in Command : c.id \in Nat
      BY DEF Command
    <3>4. \A id \in WrittenIds : id \in Nat
      BY <3>1, <3>3 DEF WrittenIds, Written
    <3>5. \A id \in Ids(commandTopic) : id \in Nat
      BY <3>2, <3>3 DEF Ids
    <3>6. \A entry \in Entry : \A id \in IdOf(entry) : id \in Nat
      BY <3>3 DEF IdOf, Entry
    <3> QED
      BY <3>4, <3>5, <3>6 DEF TypeOK
  <2>4. \A id \in WrittenIds \union IdOf(command) \union IdOf(pending) \union IdOf(handler)
                 \union Ids(commandTopic) : id <= sent' /\ id < sample.id
    BY <2>1, <2>2, <2>3 DEF Ordered
  <2>5. /\ Ids(commandTopic)' \subseteq Ids(commandTopic) \union {sample.id}
        /\ Increasing(commandTopic)'
    <3>1. commandTopic' = Push(commandTopic, CommandDepth, sample)
      BY <1>10 DEF PublishCommand
    <3>2. Increasing(commandTopic) /\ Below(Ids(commandTopic), {sample.id})
      BY <2>4 DEF Ordered, Below
    <3>3. /\ Ids(Push(commandTopic, CommandDepth, sample))
                \subseteq Ids(commandTopic) \union {sample.id}
          /\ Increasing(Push(commandTopic, CommandDepth, sample))
      BY <2>2, <3>2, PushOrder, DataAssumption DEF TypeOK
    <3> QED
      BY <3>1, <3>3 DEF Ids, Increasing
  <2>6. /\ WrittenIds' = WrittenIds /\ IdOf(command)' = IdOf(command)
        /\ IdOf(pending)' = IdOf(pending) /\ IdOf(handler)' = IdOf(handler)
    BY <1>10 DEF PublishCommand, WrittenIds, IdOf, IsEntry
  <2>7. WrittenInOrder' /\ (pc' = "write" => IsEntry(command)')
    BY <1>10 DEF PublishCommand, Ordered, WrittenInOrder, IsEntry
  <2> QED
    BY <2>1, <2>2, <2>4, <2>5, <2>6, <2>7 DEF Ordered, Below
<1>11. CASE UNCHANGED vars
  BY <1>11, PlacesShrink DEF vars
<1> QED
  BY <1>1, <1>2, <1>3, <1>4, <1>5, <1>6, <1>7, <1>8, <1>9, <1>10, <1>11
     DEF Next, DriverNext, Executor, Worker

\* Whatever fails, reconnects or is restarted, commands reach the gripper in the
\* order they were published in, and none twice.
THEOREM CommandsInOrder == Spec => []WrittenInOrder
<1>1. Init => TypeOK /\ Ordered
  BY InitTypeOK, InitOrdered
<1>2. TypeOK /\ Ordered /\ [Next]_vars => (TypeOK /\ Ordered)'
  BY NextTypeOK, NextOrdered
<1>3. Ordered => WrittenInOrder
  BY DEF Ordered
<1> QED
  BY <1>1, <1>2, <1>3, PTL DEF Spec

-----------------------------------------------------------------------------
(* What is left of a sequence that loses some of its elements.             *)

\* Concatenation of commands is associative.
LEMMA Regroup ==
    ASSUME NEW s \in Seq(Command), NEW t \in Seq(Command), NEW u \in Seq(Command)
    PROVE  (s \o t) \o u = s \o (t \o u)
BY ConcatAssociative, SMTT(30)

\* The elements at some of the places are a remainder.
LEMMA Remaining ==
    ASSUME NEW s, NEW n \in 0..Len(s), NEW at \in Contract!Choices(n, Len(s))
    PROVE  [i \in 1..n |-> s[at[i]]] \in Contract!Remainders(s)
<1> DEFINE left(k) == {[i \in 1..k |-> s[a[i]]] : a \in Contract!Choices(k, Len(s))}
<1>1. [i \in 1..n |-> s[at[i]]] \in left(n)
  OBVIOUS
<1>2. left(n) \in {left(k) : k \in 0..Len(s)}
  OBVIOUS
<1> HIDE DEF left
<1>3. [i \in 1..n |-> s[at[i]]] \in UNION {left(k) : k \in 0..Len(s)}
  BY <1>1, <1>2
<1> QED
  BY <1>3 DEF Contract!Remainders, left

\* Losing a stretch of a sequence leaves what is before it and after it.
LEMMA Dropping ==
    ASSUME NEW S, NEW p \in Seq(S), NEW m \in Seq(S), NEW t \in Seq(S)
    PROVE  p \o t \in Contract!Remainders(p \o m \o t)
<1> DEFINE s == p \o m \o t
           n == Len(p) + Len(t)
           at == [i \in 1..n |-> IF i <= Len(p) THEN i ELSE i + Len(m)]
<1>1. Len(p) \in Nat /\ Len(m) \in Nat /\ Len(t) \in Nat
  OBVIOUS
<1>2. p \o m \in Seq(S) /\ Len(p \o m) = Len(p) + Len(m)
  BY ConcatProperties
<1>3. s \in Seq(S) /\ Len(s) = Len(p) + Len(m) + Len(t)
  BY <1>2, ConcatProperties
<1>4. n \in 0..Len(s)
  BY <1>1, <1>3
<1>5. at \in Contract!Choices(n, Len(s))
  <2>1. at \in [1..n -> 1..Len(s)]
    BY <1>1, <1>3
  <2>2. \A i, j \in 1..n : i < j => at[i] < at[j]
    BY <1>1
  <2> QED
    BY <2>1, <2>2 DEF Contract!Choices
<1>6. p \o t = [i \in 1..n |-> s[at[i]]]
  <2>1. p \o t \in Seq(S) /\ Len(p \o t) = n
    BY ConcatProperties
  <2>2. ASSUME NEW i \in 1..n PROVE (p \o t)[i] = s[at[i]]
    <3>1. CASE i <= Len(p)
      <4>1. (p \o t)[i] = p[i]
        BY <3>1, <1>1, ConcatProperties
      <4>2. (p \o m)[i] = p[i]
        BY <3>1, <1>1, ConcatProperties
      <4>3. s[i] = (p \o m)[i]
        BY <3>1, <1>1, <1>2, ConcatProperties
      <4> QED
        BY <3>1, <4>1, <4>2, <4>3
    <3>2. CASE ~(i <= Len(p))
      <4>1. (p \o t)[i] = t[i - Len(p)]
        BY <3>2, <1>1, ConcatProperties
      <4>2. i + Len(m) \in 1..(Len(p \o m) + Len(t)) /\ ~(i + Len(m) <= Len(p \o m))
        BY <3>2, <1>1, <1>2
      <4>3. s[i + Len(m)] = t[i + Len(m) - Len(p \o m)]
        BY <4>2, <1>2, ConcatProperties
      <4>4. i + Len(m) - Len(p \o m) = i - Len(p)
        BY <1>1, <1>2
      <4> QED
        BY <3>2, <4>1, <4>3, <4>4
    <3> QED
      BY <3>1, <3>2
  <2>3. DOMAIN (p \o t) = 1..n
    BY <2>1
  <2>4. [i \in 1..n |-> s[at[i]]] \in Seq(S)
    <3>1. \A i \in 1..n : s[at[i]] \in S
      BY <2>1, <2>2, ElementOfSeq
    <3> QED
      BY <3>1, <1>1
  <2>5. Len([i \in 1..n |-> s[at[i]]]) = n
    BY <2>4, <1>1
  <2>6. \A i \in 1..n : (p \o t)[i] = [j \in 1..n |-> s[at[j]]][i]
    BY <2>2
  <2> HIDE DEF n, at, s
  <2> QED
    BY <2>1, <2>4, <2>5, <2>6, SeqEqual
<1> HIDE DEF n, at, s
<1>7. p \o t \in Contract!Remainders(s)
  BY <1>4, <1>5, <1>6, Remaining
<1> QED
  BY <1>7 DEF s

\* Nothing need get lost, and everything but the first element may be left.
LEMMA Keeping ==
    ASSUME NEW S, NEW s \in Seq(S)
    PROVE  s \in Contract!Remainders(s)
<1>1. <<>> \in Seq(S)
  OBVIOUS
<1>2. s \o <<>> \in Contract!Remainders(s \o <<>> \o <<>>)
  BY <1>1, Dropping
<1> QED
  BY <1>2, ConcatEmptySeq

-----------------------------------------------------------------------------
(* The invariant the mapping needs.                                        *)

(***************************************************************************)
(* The mapping reads `isOpen` for the contract's "online" and calls a      *)
(* connection reported once a status came from it.  It is right because    *)
(* the worker talks to the gripper on an open connection only, tells the   *)
(* world it is offline only after it closed the connection and reset       *)
(* last_command_id_, and holds a command nowhere but on its way to         *)
(* write_command().                                                        *)
(***************************************************************************)
Coherent ==
    /\ link => isOpen
    /\ statusSession <= session
    /\ pc \in {"not_ready", "clear", "unconfigured", "exited"} => ~isOpen
    /\ pc \in {"write", "read", "enable"} => isOpen
    /\ IsEntry(command) <=> pc = "write"
    /\ pc = "clear" => lastId = 0

LEMMA InitCoherent == Init => Coherent
BY DEF Init, Coherent, IsEntry

LEMMA NextCoherent == TypeOK /\ Coherent /\ [Next]_vars => Coherent'
<1> SUFFICES ASSUME TypeOK, Coherent, [Next]_vars PROVE Coherent'
  OBVIOUS
<1> USE DEF topics, slots, client, device, process, history
<1>0. session \in Nat /\ statusSession \in Nat
  BY DEF TypeOK
<1>1. CASE Executor
  BY <1>1 DEF Executor, ReceiveCommand, StoreCommand, Coherent, IsEntry
<1>2. CASE Connect
  BY <1>0, <1>2 DEF Connect, Coherent, IsEntry
<1>3. CASE ConnectFails
  BY <1>3 DEF ConnectFails, Coherent, IsEntry
<1>4. CASE Swap
  BY <1>4 DEF Swap, Coherent, IsEntry
<1>5. CASE Write
  BY <1>5 DEF Write, Coherent, IsEntry
<1>6. CASE WriteFails
  BY <1>6 DEF WriteFails, Closes, Coherent, IsEntry
<1>7. CASE Read
  BY <1>0, <1>7 DEF Read, Coherent, IsEntry
<1>8. CASE ReadFails
  BY <1>8 DEF ReadFails, Closes, Coherent, IsEntry
<1>9. CASE Enable
  BY <1>9 DEF Enable, Coherent, IsEntry
<1>10. CASE NotReady
  BY <1>10 DEF NotReady, Coherent, IsEntry
<1>16. CASE Clear
  BY <1>16 DEF Clear, Coherent, IsEntry
<1>17. CASE Unconfigured
  BY <1>17 DEF Unconfigured, Coherent, IsEntry
<1>11. CASE Exit
  BY <1>11 DEF Exit, Coherent, IsEntry
<1>12. CASE Restart
  BY <1>12 DEF Restart, ProcessStarts, Coherent, IsEntry
<1>13. CASE RequestStop \/ GripperEvolves \/ PowerCycle \/ TakeStatus
  BY <1>13 DEF RequestStop, GripperEvolves, PowerCycle, TakeStatus, Coherent, IsEntry
<1>14. CASE \E shape \in Shapes : PublishCommand(shape)
  BY <1>14 DEF PublishCommand, Coherent, IsEntry
<1>15. CASE UNCHANGED vars
  BY <1>15 DEF vars, Coherent, IsEntry
<1> QED
  BY <1>1, <1>2, <1>3, <1>4, <1>5, <1>6, <1>7, <1>8, <1>9, <1>10, <1>11, <1>12, <1>13, <1>14,
     <1>15, <1>16, <1>17 DEF Next, DriverNext, Worker

(***************************************************************************)
(* What the refinement proof knows of a state: its types, that ready and   *)
(* the write need a status of the open connection, and Coherent.           *)
(***************************************************************************)
RefinementInv == TypeOK /\ Authorised /\ Coherent

LEMMA AlwaysRefinementInv == Spec => []RefinementInv
<1>1. Init => RefinementInv
  BY InitTypeOK, InitAuthorised, InitCoherent DEF RefinementInv
<1>2. RefinementInv /\ [Next]_vars => RefinementInv'
  BY NextTypeOK, NextAuthorised, NextCoherent DEF RefinementInv
<1> QED
  BY <1>1, <1>2, PTL DEF Spec

-----------------------------------------------------------------------------
(* The variables of the contract.                                          *)

\* The operators on data the contract reads are those of the driver.
LEMMA SameData ==
    /\ \A topic, depth, sample : Contract!Push(topic, depth, sample) = Push(topic, depth, sample)
    /\ \A g, c : Contract!Latch(g, c) = Latch(g, c)
    /\ \A g : Contract!Evolutions(g) = Evolutions(g)
    /\ Contract!BlankStatus = BlankStatus /\ Contract!PoweredUp = PoweredUp
    /\ Contract!InitialGrippers = InitialGrippers
<1>1. Contract!PoweredUp = PoweredUp
  BY DEF Contract!PoweredUp, PoweredUp
<1>2. Contract!BlankStatus = BlankStatus
  BY <1>1 DEF Contract!BlankStatus, BlankStatus
<1>3. Contract!InitialGrippers = InitialGrippers
  BY <1>1 DEF Contract!InitialGrippers, InitialGrippers
<1>4. \A topic, depth, sample : Contract!Push(topic, depth, sample) = Push(topic, depth, sample)
  BY DEF Contract!Push, Push
<1>5. \A g, c : Contract!Latch(g, c) = Latch(g, c)
  BY DEF Contract!Latch, Latch
<1>6. \A g : Contract!Evolutions(g) = Evolutions(g)
  BY DEF Contract!Evolutions, Evolutions
<1> QED
  BY <1>1, <1>2, <1>3, <1>4, <1>5, <1>6

\* The commands on their way are sequences of commands, piece by piece.
LEMMA TransitType ==
    ASSUME TypeOK
    PROVE  /\ InTransit(command) \in Seq(Command) /\ InTransit(pending) \in Seq(Command)
           /\ InTransit(handler) \in Seq(Command) /\ commandTopic \in Seq(Command)
           /\ CommandsOnTheirWay \in Seq(Command)
<1>1. \A entry \in Entry : InTransit(entry) \in Seq(Command)
  BY DEF InTransit, Entry
<1>2. /\ InTransit(command) \in Seq(Command) /\ InTransit(pending) \in Seq(Command)
      /\ InTransit(handler) \in Seq(Command) /\ commandTopic \in Seq(Command)
  BY <1>1 DEF TypeOK
<1> QED
  BY <1>2, ConcatProperties DEF CommandsOnTheirWay

-----------------------------------------------------------------------------
(* Steps that are no step of the contract, or only lose commands.          *)

\* The connection, as the contract sees it, is left alone.
LEMMA SameConnection ==
    ASSUME UNCHANGED <<isOpen, connectionId, session, statusSession>>,
           isOpen => lastId' = lastId
    PROVE  UNCHANGED Contract!connectionVars
BY DEF Contract!connectionVars

LEMMA Stutters ==
    ASSUME UNCHANGED <<isOpen, connectionId, session, statusSession>>,
           isOpen => lastId' = lastId,
           UNCHANGED <<CommandsOnTheirWay, statusTopic, gripper, link, written>>
    PROVE  UNCHANGED Contract!backendVars
<1>1. UNCHANGED Contract!connectionVars
  BY SameConnection
<1>2. UNCHANGED CommandsExecuted
  BY DEF CommandsExecuted
<1> QED
  BY <1>1, <1>2 DEF Contract!backendVars

LEMMA Loses ==
    ASSUME UNCHANGED <<isOpen, connectionId, session, statusSession>>,
           isOpen => lastId' = lastId,
           UNCHANGED <<statusTopic, gripper, link, written>>,
           CommandsOnTheirWay' \in Contract!Remainders(CommandsOnTheirWay)
    PROVE  Contract!BackendNext
<1>1. UNCHANGED Contract!connectionVars
  BY SameConnection
<1>2. UNCHANGED CommandsExecuted
  BY DEF CommandsExecuted
<1>3. Contract!Lose
  BY <1>1, <1>2 DEF Contract!Lose, Contract!SomeLost
<1> QED
  BY <1>3 DEF Contract!BackendNext

\* No command moves.
LEMMA SamePlaces ==
    ASSUME UNCHANGED <<commandTopic, handler, pending, command>>
    PROVE  UNCHANGED CommandsOnTheirWay
BY DEF CommandsOnTheirWay, InTransit, IsEntry

\* receive_command() takes the oldest command over, or drops it.
LEMMA ReceiveCommandStep ==
    ASSUME RefinementInv, ReceiveCommand
    PROVE  Contract!BackendNext \/ UNCHANGED Contract!backendVars
<1> DEFINE p == InTransit(command) \o InTransit(pending)
           c == Head(commandTopic)
<1> USE DEF topics, slots, client, device, process, history
<1>1. /\ UNCHANGED <<isOpen, connectionId, session, statusSession, lastId>>
      /\ UNCHANGED <<statusTopic, gripper, link, written, command, pending>>
  BY DEF ReceiveCommand
<1>2. /\ InTransit(command) \in Seq(Command) /\ InTransit(pending) \in Seq(Command)
      /\ commandTopic \in Seq(Command) /\ commandTopic # <<>>
      /\ InTransit(handler) = <<>>
  BY TransitType DEF RefinementInv, ReceiveCommand, InTransit
<1>3. p \in Seq(Command)
  BY <1>2, ConcatProperties
<1>4. /\ c \in Command /\ Tail(commandTopic) \in Seq(Command)
      /\ commandTopic = <<c>> \o Tail(commandTopic)
  <2>1. c \in Command /\ Tail(commandTopic) \in Seq(Command) /\ <<c>> \in Seq(Command)
    BY <1>2, HeadTailProperties
  <2>2. /\ Len(<<c>> \o Tail(commandTopic)) = Len(commandTopic)
        /\ <<c>> \o Tail(commandTopic) \in Seq(Command)
    BY <1>2, <2>1, HeadTailProperties, ConcatProperties
  <2>3. \A i \in 1..Len(commandTopic) :
            (<<c>> \o Tail(commandTopic))[i] = commandTopic[i]
    BY <1>2, <2>1
  <2> QED
    BY <1>2, <2>1, <2>2, <2>3, SeqEqual
<1>5. CommandsOnTheirWay = p \o <<c>> \o Tail(commandTopic)
  <2>1. CommandsOnTheirWay = p \o <<>> \o commandTopic
    BY <1>2 DEF CommandsOnTheirWay
  <2>2. p \o <<>> = p
    BY <1>3, ConcatEmptySeq
  <2> QED
    <3>1. <<c>> \in Seq(Command)
      BY <1>4
    <3>2. p \o (<<c>> \o Tail(commandTopic)) = p \o <<c>> \o Tail(commandTopic)
      BY <1>3, <1>4, <3>1, Regroup
    <3> QED
      BY <1>4, <2>1, <2>2, <3>2
<1>6. CASE Acceptable(c) /\ ready
  <2>1. handler' = [command |-> c, acceptedIn |-> session, storedIn |-> 0]
    BY <1>6 DEF ReceiveCommand
  <2>2. c.id # 0
    BY <1>6 DEF Acceptable
  <2>3. c # BlankCommand
    BY <2>2 DEF BlankCommand
  <2>4. IsEntry(handler') /\ handler'.command = c
    BY <2>1, <2>3 DEF IsEntry, NoEntry
  <2>5. InTransit(handler') = <<c>>
    BY <2>4 DEF InTransit
  <2>6. CommandsOnTheirWay' = p \o <<c>> \o Tail(commandTopic)
    BY <1>1, <2>5 DEF CommandsOnTheirWay, ReceiveCommand
  <2> QED
    BY <1>1, <1>5, <2>6, Stutters
<1>7. CASE ~(Acceptable(c) /\ ready)
  <2>1. handler' = NoEntry
    BY <1>7 DEF ReceiveCommand
  <2>2. InTransit(handler') = <<>>
    BY <2>1 DEF InTransit, IsEntry
  <2>3. CommandsOnTheirWay' = p \o <<>> \o Tail(commandTopic)
    BY <1>1, <2>2 DEF CommandsOnTheirWay, ReceiveCommand
  <2>4. CommandsOnTheirWay' = p \o Tail(commandTopic)
    BY <1>3, <2>3, ConcatEmptySeq
  <2>5. <<c>> \in Seq(Command)
    BY <1>4
  <2>6. CommandsOnTheirWay' \in Contract!Remainders(CommandsOnTheirWay)
    BY <1>3, <1>4, <1>5, <2>4, <2>5, Dropping
  <2> QED
    BY <1>1, <2>6, Loses
<1> QED
  BY <1>6, <1>7

\* The slot loses the command it held to the one stored.
LEMMA StoreCommandStep ==
    ASSUME RefinementInv, StoreCommand
    PROVE  Contract!BackendNext \/ UNCHANGED Contract!backendVars
<1> DEFINE p == InTransit(command)
           m == InTransit(pending)
           c == InTransit(handler)
<1> USE DEF topics, slots, client, device, process, history
<1>1. /\ UNCHANGED <<isOpen, connectionId, session, statusSession, lastId>>
      /\ UNCHANGED <<statusTopic, gripper, link, written, command, commandTopic>>
  BY DEF StoreCommand
<1>2. p \in Seq(Command) /\ m \in Seq(Command) /\ c \in Seq(Command) /\ commandTopic \in Seq(Command)
  BY TransitType DEF RefinementInv
<1>3. IsEntry(handler) /\ handler \in Entry /\ handler.command.id # 0
  BY DEF StoreCommand, RefinementInv, TypeOK, Authorised, Vetted, Acceptable
<1>4. IsEntry(pending') /\ pending'.command = handler.command
  <2>1. pending'.command = handler.command
    BY <1>3 DEF StoreCommand, Entry
  <2>2. pending'.command.id # 0
    BY <1>3, <2>1
  <2> QED
    BY <2>1, <2>2 DEF IsEntry, NoEntry, BlankCommand
<1>5. InTransit(pending') = c /\ InTransit(handler') = <<>>
  BY <1>3, <1>4 DEF InTransit, StoreCommand, IsEntry
<1>6. CommandsOnTheirWay' = p \o (c \o commandTopic)
  <2>1. CommandsOnTheirWay' = p \o c \o <<>> \o commandTopic
    BY <1>1, <1>5 DEF CommandsOnTheirWay
  <2>2. p \o c \in Seq(Command)
    BY <1>2, ConcatProperties
  <2>3. p \o c \o <<>> = p \o c
    BY <2>2, ConcatEmptySeq
  <2> QED
    <3>1. (p \o c) \o commandTopic = p \o (c \o commandTopic)
      BY <1>2, Regroup
    <3> QED
      BY <2>1, <2>3, <3>1
<1>7. CommandsOnTheirWay = p \o m \o (c \o commandTopic)
  <2>1. p \o m \in Seq(Command)
    BY <1>2, ConcatProperties
  <2> QED
    <3>1. ((p \o m) \o c) \o commandTopic = (p \o m) \o (c \o commandTopic)
      BY <1>2, <2>1, Regroup
    <3> QED
      BY <3>1 DEF CommandsOnTheirWay
<1>8. c \o commandTopic \in Seq(Command)
  BY <1>2, ConcatProperties
<1>9. CommandsOnTheirWay' \in Contract!Remainders(CommandsOnTheirWay)
  BY <1>2, <1>6, <1>7, <1>8, Dropping
<1> QED
  BY <1>1, <1>9, Loses

\* Swapping the slot out moves the command to the worker, who held none.
LEMMA SwapStep ==
    ASSUME RefinementInv, Swap
    PROVE  UNCHANGED Contract!backendVars
<1> USE DEF topics, slots, client, device, process, history
<1>1. /\ UNCHANGED <<isOpen, connectionId, session, statusSession, lastId>>
      /\ UNCHANGED <<statusTopic, gripper, link, written, handler, commandTopic>>
  BY DEF Swap
<1>2. command = NoEntry
  BY DEF Swap, RefinementInv, Coherent, IsEntry
<1>3. InTransit(command) = <<>> /\ InTransit(pending) \in Seq(Command)
  BY <1>2, TransitType DEF InTransit, IsEntry, RefinementInv
<1>4. CASE ready
  <2>1. InTransit(command') = InTransit(pending) /\ InTransit(pending') = <<>>
    BY <1>4 DEF Swap, InTransit, IsEntry
  <2>2. InTransit(pending) \o <<>> = <<>> \o InTransit(pending)
    BY <1>3, ConcatEmptySeq
  <2>3. UNCHANGED CommandsOnTheirWay
    BY <1>1, <1>3, <2>1, <2>2 DEF CommandsOnTheirWay
  <2> QED
    BY <1>1, <2>3, Stutters
<1>5. CASE ~ready
  <2>1. UNCHANGED <<command, pending>>
    BY <1>2, <1>5 DEF Swap
  <2> QED
    BY <1>1, <2>1, SamePlaces, Stutters
<1> QED
  BY <1>4, <1>5

\* The steps of the worker that touch neither a command nor the connection.
LEMMA IdleSteps ==
    ASSUME RefinementInv,
           ConnectFails \/ Enable \/ NotReady \/ Unconfigured \/ RequestStop
    PROVE  UNCHANGED Contract!backendVars
<1> USE DEF topics, slots, client, device, process, history
<1>1. /\ UNCHANGED <<isOpen, connectionId, session, statusSession>>
      /\ UNCHANGED <<statusTopic, gripper, link, written>>
      /\ UNCHANGED <<commandTopic, handler, pending, command>>
  BY DEF ConnectFails, Enable, NotReady, Unconfigured, RequestStop
<1>2. isOpen => lastId' = lastId
  BY DEF ConnectFails, Enable, NotReady, Unconfigured, RequestStop, RefinementInv, Coherent
<1> QED
  BY <1>1, <1>2, SamePlaces, Stutters

-----------------------------------------------------------------------------
(* Steps of the connection.                                                *)

\* A connection opened is online, and nothing was reported from it yet.
LEMMA ConnectStep ==
    ASSUME RefinementInv, Connect
    PROVE  Contract!BackendNext
<1> USE DEF topics, slots, client, device, process, history
<1>1. ~isOpen /\ isOpen' = TRUE /\ link' = TRUE /\ lastId' = 0
  BY DEF Connect
<1>2. connectionId' = connectionId + 1 /\ session' = session + 1
  BY DEF Connect
<1>3. statusSession' # session'
  BY <1>2 DEF Connect, RefinementInv, Coherent, TypeOK
<1>4. UNCHANGED CommandsOnTheirWay
  BY SamePlaces DEF Connect
<1>5. UNCHANGED <<statusTopic, gripper, CommandsExecuted>>
  BY DEF Connect, CommandsExecuted
<1>6. (isOpen /\ statusSession = session)' = FALSE
  BY <1>3
<1>7. Contract!GoOnline
  BY <1>1, <1>2, <1>4, <1>5, <1>6 DEF Contract!GoOnline
<1> QED
  BY <1>7 DEF Contract!BackendNext

\* The end of a connection, seen by the contract.
LEMMA Disconnecting ==
    ASSUME isOpen, isOpen' = FALSE, link' = FALSE, UNCHANGED <<connectionId, session>>
    PROVE  Contract!Disconnects
<1>1. (isOpen /\ statusSession = session)' = FALSE
  OBVIOUS
<1>2. (IF isOpen THEN lastId ELSE 0)' = 0
  OBVIOUS
<1> QED
  BY <1>1, <1>2 DEF Contract!Disconnects

\* A connection that ends may take commands with it.
LEMMA GoesOffline ==
    ASSUME isOpen, isOpen' = FALSE, link' = FALSE, UNCHANGED <<connectionId, session>>,
           UNCHANGED <<statusTopic, gripper, written>>,
           CommandsOnTheirWay' \in Contract!Remainders(CommandsOnTheirWay)
    PROVE  Contract!BackendNext
<1>1. Contract!Disconnects
  BY Disconnecting
<1>2. UNCHANGED CommandsExecuted
  BY DEF CommandsExecuted
<1>3. Contract!GoOffline
  BY <1>1, <1>2 DEF Contract!GoOffline, Contract!SomeLost
<1> QED
  BY <1>3 DEF Contract!BackendNext

\* A failed read, and the end of run() while connected.
LEMMA ClosingSteps ==
    ASSUME RefinementInv, ReadFails \/ Exit
    PROVE  Contract!BackendNext \/ UNCHANGED Contract!backendVars
<1> USE DEF topics, slots, client, device, process, history
<1>1. /\ isOpen' = FALSE /\ link' = FALSE
      /\ UNCHANGED <<connectionId, session, statusSession, statusTopic, gripper, written>>
      /\ UNCHANGED <<commandTopic, handler, pending, command>>
  BY DEF ReadFails, Closes, Exit
<1>2. UNCHANGED CommandsOnTheirWay
  BY <1>1, SamePlaces
<1>3. CASE isOpen
  <2>1. CommandsOnTheirWay' \in Contract!Remainders(CommandsOnTheirWay)
    BY <1>2, TransitType, Keeping DEF RefinementInv
  <2> QED
    BY <1>1, <1>3, <2>1, GoesOffline
<1>4. CASE ~isOpen
  <2>1. UNCHANGED <<isOpen, link>>
    BY <1>1, <1>4 DEF RefinementInv, Coherent, TypeOK
  <2> QED
    BY <1>1, <1>2, <1>4, <2>1, Stutters
<1> QED
  BY <1>3, <1>4

\* A new process knows neither commands nor connections.
LEMMA RestartStep ==
    ASSUME RefinementInv, Restart
    PROVE  Contract!BackendNext
<1> USE DEF topics, slots, client, device, process, history
<1>1. isOpen' = FALSE /\ link' = FALSE /\ connectionId' = 0
  BY DEF Restart, ProcessStarts
<1>2. (isOpen /\ statusSession = session)' = FALSE /\ (IF isOpen THEN lastId ELSE 0)' = 0
  BY <1>1
<1>3. CommandsOnTheirWay' = <<>>
  BY DEF Restart, ProcessStarts, CommandsOnTheirWay, InTransit, IsEntry
<1>4. UNCHANGED <<statusTopic, gripper, session, CommandsExecuted>>
  BY DEF Restart, CommandsExecuted
<1>5. Contract!Reboot
  BY <1>1, <1>2, <1>3, <1>4 DEF Contract!Reboot
<1> QED
  BY <1>5 DEF Contract!BackendNext

-----------------------------------------------------------------------------
(* Steps that execute a command.                                           *)

\* The worker's command is the oldest one on its way.
LEMMA WorkerHoldsHead ==
    ASSUME RefinementInv, pc = "write"
    PROVE  /\ CommandsOnTheirWay # <<>>
           /\ Head(CommandsOnTheirWay) = command.command
           /\ Tail(CommandsOnTheirWay)
                 = InTransit(pending) \o InTransit(handler) \o commandTopic
           /\ <<command.command>> \in Seq(Command)
           /\ InTransit(pending) \o InTransit(handler) \o commandTopic \in Seq(Command)
           /\ CommandsOnTheirWay = <<command.command>> \o
                 (InTransit(pending) \o InTransit(handler) \o commandTopic)
<1> DEFINE c == command.command
           rest == InTransit(pending) \o InTransit(handler) \o commandTopic
<1>1. /\ InTransit(pending) \in Seq(Command) /\ InTransit(handler) \in Seq(Command)
      /\ commandTopic \in Seq(Command)
      /\ InTransit(pending) \o InTransit(handler) \in Seq(Command)
  BY TransitType, ConcatProperties DEF RefinementInv
<1>2. rest \in Seq(Command)
  BY <1>1, ConcatProperties
<1>3. InTransit(command) = <<c>> /\ c \in Command
  BY DEF RefinementInv, Coherent, InTransit, TypeOK, Entry
<1>4. <<c>> \in Seq(Command) /\ Len(<<c>>) = 1
  BY <1>3
<1>5. CommandsOnTheirWay = <<c>> \o rest
  <2>1. CommandsOnTheirWay = <<c>> \o InTransit(pending) \o InTransit(handler) \o commandTopic
    BY <1>3 DEF CommandsOnTheirWay
  <2>2. <<c>> \o InTransit(pending) \o InTransit(handler)
            = <<c>> \o (InTransit(pending) \o InTransit(handler))
    BY <1>1, <1>4, ConcatAssociative
  <2> QED
    BY <1>1, <1>4, <2>1, <2>2, ConcatAssociative
<1> HIDE DEF rest
<1>6. /\ <<c>> \o rest \in Seq(Command) /\ Len(<<c>> \o rest) = 1 + Len(rest)
      /\ \A i \in 1..(1 + Len(rest)) :
            (<<c>> \o rest)[i] = IF i <= 1 THEN <<c>>[i] ELSE rest[i - 1]
  BY <1>2, <1>4, ConcatProperties
<1>7. <<c>> \o rest # <<>> /\ Head(<<c>> \o rest) = c
  BY <1>2, <1>6
<1>8. Tail(<<c>> \o rest) = rest
  <2>1. /\ Tail(<<c>> \o rest) \in Seq(Command)
        /\ Len(Tail(<<c>> \o rest)) = Len(rest)
        /\ \A i \in 1..Len(rest) : Tail(<<c>> \o rest)[i] = (<<c>> \o rest)[i + 1]
    BY <1>2, <1>6, <1>7, HeadTailProperties
  <2>2. \A i \in 1..Len(rest) : Tail(<<c>> \o rest)[i] = rest[i]
    BY <1>2, <1>6, <2>1
  <2> QED
    BY <1>2, <2>1, <2>2, SeqEqual
<1> QED
  BY <1>2, <1>4, <1>5, <1>7, <1>8 DEF rest

\* Latching is the effect the contract allows: online, from a connection that
\* reported a status.
LEMMA LatchesTakesEffect ==
    ASSUME RefinementInv, pc = "write", Latches
    PROVE  Contract!TakesEffect
<1> DEFINE e == [command |-> command.command, acceptedIn |-> command.acceptedIn,
                 storedIn |-> command.storedIn, session |-> session,
                 statusSession |-> statusSession, wasActivated |-> gripper.activated]
           n == Len(written)
<1>1. CommandsOnTheirWay # <<>> /\ Head(CommandsOnTheirWay) = command.command
  BY WorkerHoldsHead
<1>2. isOpen /\ statusSession = session /\ link
  BY DEF RefinementInv, Coherent, Authorised, Latches
<1>3. gripper' = Contract!Latch(gripper, Head(CommandsOnTheirWay))
  BY <1>1, SameData DEF Latches
<1>4. written \in Seq(Written) /\ n \in Nat /\ written' = Append(written, e)
  BY DEF RefinementInv, TypeOK, Latches
<1>5. /\ DOMAIN written = 1..n /\ DOMAIN written' = 1..(n + 1)
      /\ written'[n + 1] = e
      /\ \A i \in 1..n : written'[i] = written[i]
  BY <1>4
<1> DEFINE E(w) == [command |-> w.command, session |-> w.session,
                    wasActivated |-> w.wasActivated]
           x == [command |-> command.command, session |-> session,
                 wasActivated |-> gripper.activated]
<1>6. CommandsExecuted = [i \in 1..n |-> E(written[i])]
  BY <1>5 DEF CommandsExecuted
<1>7. CommandsExecuted' = [i \in 1..(n + 1) |-> E(written'[i])]
  BY <1>5 DEF CommandsExecuted
<1>8. E(e) = x
  OBVIOUS
<1> HIDE DEF e, E, x, n
<1>9. [i \in 1..(n + 1) |-> E(written'[i])] = Append([i \in 1..n |-> E(written[i])], x)
  <2> DEFINE S == {E(written[i]) : i \in 1..n}
             s == [i \in 1..n |-> E(written[i])]
             t == [i \in 1..(n + 1) |-> E(written'[i])]
  <2>1. s \in Seq(S \union {x}) /\ Len(s) = n
    BY <1>4
  <2>2. Append(s, x) \in Seq(S \union {x}) /\ Len(Append(s, x)) = n + 1
    BY <1>4, <2>1
  <2>3. ASSUME NEW i \in 1..(n + 1) PROVE t[i] = Append(s, x)[i] /\ t[i] \in S \union {x}
    <3>1. CASE i = n + 1
      <4>1. Append(s, x)[i] = x
        BY <1>4, <2>1, <3>1
      <4> QED
        BY <1>5, <1>8, <3>1, <4>1
    <3>2. CASE i # n + 1
      <4>1. i \in 1..n
        BY <1>4, <3>2
      <4>2. Append(s, x)[i] = s[i]
        BY <1>4, <2>1, <4>1
      <4> QED
        BY <1>5, <4>1, <4>2
    <3> QED
      BY <3>1, <3>2
  <2>4. t \in Seq(S \union {x}) /\ Len(t) = n + 1
    <3>1. \A i \in 1..(n + 1) : E(written'[i]) \in S \union {x}
      BY <2>3
    <3>2. n + 1 \in Nat
      BY <1>4
    <3> HIDE DEF S
    <3> QED
      BY <3>1, <3>2
  <2> HIDE DEF S, s, t
  <2>5. t = Append(s, x)
    BY <1>4, <2>2, <2>3, <2>4, SeqEqual
  <2> QED
    BY <2>5 DEF s, t
<1>10. CommandsExecuted' = Append(CommandsExecuted, x)
  BY <1>6, <1>7, <1>9
<1> QED
  BY <1>1, <1>2, <1>3, <1>10 DEF Contract!TakesEffect, x

LEMMA WriteStep ==
    ASSUME RefinementInv, Write
    PROVE  Contract!BackendNext
<1> USE DEF topics, slots, client, device, process, history
<1>1. pc = "write" /\ Latches
  BY DEF Write
<1>2. Contract!TakesEffect
  BY <1>1, LatchesTakesEffect
<1>3. isOpen /\ isOpen' = isOpen
  BY <1>1 DEF Write, RefinementInv, Coherent
<1>4. CommandsOnTheirWay' = Tail(CommandsOnTheirWay)
  <2>1. InTransit(command') = <<>> /\ UNCHANGED <<handler, pending, commandTopic>>
    BY DEF Write, InTransit, IsEntry
  <2>2. InTransit(pending) \in Seq(Command) /\ <<>> \o InTransit(pending) = InTransit(pending)
    BY TransitType, ConcatEmptySeq DEF RefinementInv
  <2>3. CommandsOnTheirWay' = InTransit(pending) \o InTransit(handler) \o commandTopic
    BY <2>1, <2>2 DEF CommandsOnTheirWay
  <2> QED
    BY <1>1, <2>3, WorkerHoldsHead
<1>5. (IF isOpen THEN lastId ELSE 0)' = Head(CommandsOnTheirWay).id
  BY <1>1, <1>3, WorkerHoldsHead DEF Write
<1>6. /\ UNCHANGED <<statusTopic, isOpen, connectionId, link, session, statusSession>>
  BY <1>3 DEF Write
<1>7. Contract!Execute
  BY <1>2, <1>4, <1>5, <1>6 DEF Contract!Execute
<1> QED
  BY <1>7 DEF Contract!BackendNext

\* The request was lost, or took effect before the connection broke.
LEMMA WriteFailsStep ==
    ASSUME RefinementInv, WriteFails
    PROVE  Contract!BackendNext
<1> DEFINE rest == InTransit(pending) \o InTransit(handler) \o commandTopic
<1> USE DEF topics, slots, client, device, process, history
<1>1. /\ pc = "write" /\ isOpen /\ isOpen' = FALSE /\ link' = FALSE
      /\ UNCHANGED <<connectionId, session, statusTopic>>
      /\ UNCHANGED <<gripper, written>> \/ Latches
  BY DEF WriteFails, Closes, RefinementInv, Coherent
<1>2. CommandsOnTheirWay' = rest
  <2>1. InTransit(command') = <<>> /\ UNCHANGED <<handler, pending, commandTopic>>
    BY DEF WriteFails, InTransit, IsEntry
  <2>2. InTransit(pending) \in Seq(Command) /\ <<>> \o InTransit(pending) = InTransit(pending)
    BY TransitType, ConcatEmptySeq DEF RefinementInv
  <2> QED
    BY <2>1, <2>2 DEF CommandsOnTheirWay
<1>3. rest \in Seq(Command) /\ Tail(CommandsOnTheirWay) = rest
  BY <1>1, WorkerHoldsHead
<1>4. CASE UNCHANGED <<gripper, written>>
  <2> DEFINE c == <<command.command>>
  <2>1. c \in Seq(Command) /\ CommandsOnTheirWay = c \o rest
    BY <1>1, WorkerHoldsHead
  <2>2. <<>> \in Seq(Command) /\ <<>> \o rest = rest /\ <<>> \o c = c
    BY <1>3, <2>1, ConcatEmptySeq
  <2> HIDE DEF c, rest
  <2>3. <<>> \o rest \in Contract!Remainders(<<>> \o c \o rest)
    BY <1>3, <2>1, <2>2, Dropping
  <2>4. CommandsOnTheirWay' \in Contract!Remainders(CommandsOnTheirWay)
    BY <1>2, <2>1, <2>2, <2>3
  <2> QED
    BY <1>1, <1>4, <2>4, GoesOffline
<1>5. CASE Latches
  <2>1. Contract!TakesEffect
    BY <1>1, <1>5, LatchesTakesEffect
  <2>2. Contract!Disconnects
    BY <1>1, Disconnecting
  <2>3. CommandsOnTheirWay' \in Contract!Remainders(Tail(CommandsOnTheirWay))
    BY <1>2, <1>3, Keeping
  <2>4. Contract!ExecuteUnacknowledged
    BY <1>1, <2>1, <2>2, <2>3 DEF Contract!ExecuteUnacknowledged, Contract!SomeLost
  <2> QED
    BY <2>4 DEF Contract!BackendNext
<1> QED
  BY <1>1, <1>4, <1>5

-----------------------------------------------------------------------------
(* Steps of the topics and of the gripper.                                 *)

LEMMA ReadStep ==
    ASSUME RefinementInv, Read
    PROVE  Contract!BackendNext
<1> USE DEF topics, slots, client, device, process, history
<1>1. isOpen /\ link /\ UNCHANGED <<isOpen, connectionId, lastId, session, gripper, link>>
  BY DEF Read, RefinementInv, Coherent
<1>2. statusTopic' = Contract!Push(statusTopic, StatusDepth,
                        [connected |-> TRUE, connection_id |-> connectionId,
                         last_command_id |-> IF isOpen THEN lastId ELSE 0,
                         gripper |-> gripper])
  BY <1>1, SameData DEF Read, Report
<1>3. (isOpen /\ statusSession = session)' = TRUE
  BY <1>1 DEF Read
<1>4. UNCHANGED <<CommandsOnTheirWay, CommandsExecuted>>
  BY SamePlaces DEF Read, CommandsExecuted
<1>5. Contract!Report
  BY <1>1, <1>2, <1>3, <1>4 DEF Contract!Report
<1> QED
  BY <1>5 DEF Contract!BackendNext

\* mark_disconnected() drops the command in the slot and says so.
LEMMA ClearStep ==
    ASSUME RefinementInv, Clear
    PROVE  Contract!BackendNext
<1> DEFINE p == InTransit(command)
           m == InTransit(pending)
           rest == InTransit(handler) \o commandTopic
<1> USE DEF topics, slots, client, device, process, history
<1>1. /\ ~isOpen /\ lastId = 0
      /\ UNCHANGED <<isOpen, connectionId, lastId, session, statusSession, gripper, link>>
      /\ UNCHANGED <<written, command, handler, commandTopic>>
  BY DEF Clear, RefinementInv, Coherent
<1>2. statusTopic' = Contract!Push(statusTopic, StatusDepth,
                        [connected |-> FALSE, connection_id |-> connectionId,
                         last_command_id |-> 0, gripper |-> Contract!BlankStatus])
  BY <1>1, SameData DEF Clear, Report
<1>3. UNCHANGED CommandsExecuted
  BY <1>1 DEF CommandsExecuted
<1>4. /\ p \in Seq(Command) /\ m \in Seq(Command)
      /\ InTransit(handler) \in Seq(Command) /\ commandTopic \in Seq(Command)
  BY TransitType DEF RefinementInv
<1>5. rest \in Seq(Command)
  BY <1>4, ConcatProperties
<1>6. CommandsOnTheirWay = p \o m \o rest
  <2>1. p \o m \in Seq(Command)
    BY <1>4, ConcatProperties
  <2> QED
    <3>1. ((p \o m) \o InTransit(handler)) \o commandTopic = (p \o m) \o rest
      BY <1>4, <2>1, Regroup
    <3> QED
      BY <3>1 DEF CommandsOnTheirWay
<1>7. CommandsOnTheirWay' = p \o rest
  <2>1. InTransit(pending') = <<>>
    BY DEF Clear, InTransit, IsEntry
  <2>2. CommandsOnTheirWay' = p \o <<>> \o InTransit(handler) \o commandTopic
    BY <1>1, <2>1 DEF CommandsOnTheirWay
  <2>3. p \o <<>> = p
    BY <1>4, ConcatEmptySeq
  <2> QED
    <3>1. (p \o InTransit(handler)) \o commandTopic = p \o rest
      BY <1>4, Regroup
    <3> QED
      BY <2>2, <2>3, <3>1
<1>8. CommandsOnTheirWay' \in Contract!Remainders(CommandsOnTheirWay)
  BY <1>4, <1>5, <1>6, <1>7, Dropping
<1>9. UNCHANGED Contract!connectionVars
  BY <1>1, SameConnection
<1>10. Contract!ReportOffline
  BY <1>1, <1>2, <1>3, <1>8, <1>9 DEF Contract!ReportOffline, Contract!SomeLost
<1> QED
  BY <1>10 DEF Contract!BackendNext

LEMMA GripperSteps ==
    ASSUME RefinementInv, GripperEvolves \/ PowerCycle
    PROVE  Contract!BackendNext
<1> USE DEF topics, slots, client, device, process, history
<1>1. /\ UNCHANGED <<isOpen, connectionId, lastId, session, statusSession>>
      /\ UNCHANGED <<statusTopic, written, handler, pending, command, commandTopic>>
  BY DEF GripperEvolves, PowerCycle
<1>2. UNCHANGED <<CommandsOnTheirWay, CommandsExecuted>>
  BY <1>1, SamePlaces DEF CommandsExecuted
<1>3. UNCHANGED Contract!connectionVars
  BY <1>1, SameConnection
<1>4. CASE GripperEvolves
  <2>1. Contract!GripperMoves
    BY <1>1, <1>2, <1>3, <1>4, SameData DEF GripperEvolves, Contract!GripperMoves
  <2> QED
    BY <2>1 DEF Contract!BackendNext
<1>5. CASE PowerCycle
  <2>1. Contract!GripperPowerCycles
    BY <1>1, <1>2, <1>3, <1>5, SameData DEF PowerCycle, Contract!GripperPowerCycles
  <2> QED
    BY <2>1 DEF Contract!BackendNext
<1> QED
  BY <1>4, <1>5

LEMMA TakeStatusStep ==
    ASSUME RefinementInv, TakeStatus
    PROVE  Contract!Next
<1> USE DEF topics, slots, client, device, process, history
<1>1. /\ UNCHANGED <<isOpen, connectionId, lastId, session, statusSession, gripper, link>>
      /\ UNCHANGED <<written, handler, pending, command, commandTopic>>
  BY DEF TakeStatus
<1>2. UNCHANGED <<CommandsOnTheirWay, CommandsExecuted>>
  BY <1>1, SamePlaces DEF CommandsExecuted
<1>3. UNCHANGED Contract!connectionVars
  BY <1>1, SameConnection
<1>4. Contract!Deliver
  BY <1>1, <1>2, <1>3 DEF TakeStatus, Contract!Deliver
<1> QED
  BY <1>4 DEF Contract!Next

\* A sample published to a full topic pushes its oldest one out, which is not the
\* oldest command on its way: the driver may hold older ones.
LEMMA PublishedBehind ==
    ASSUME TypeOK, NEW c \in Command, UNCHANGED <<handler, pending, command>>,
           commandTopic' = Push(commandTopic, CommandDepth, c)
    PROVE  \E left \in Contract!Remainders(CommandsOnTheirWay) :
              CommandsOnTheirWay' = Append(left, c)
<1> DEFINE p == InTransit(command) \o InTransit(pending) \o InTransit(handler)
<1>1. p \in Seq(Command) /\ commandTopic \in Seq(Command)
  BY TransitType, ConcatProperties
<1>2. CommandsOnTheirWay = p \o commandTopic
  BY DEF CommandsOnTheirWay
<1>3. CommandsOnTheirWay' = p \o commandTopic'
  BY DEF CommandsOnTheirWay, InTransit, IsEntry
<1> HIDE DEF p
<1>4. PICK kept \in Seq(Command) :
          /\ commandTopic' = Append(kept, c)
          /\ p \o kept \in Contract!Remainders(p \o commandTopic)
  <2>1. CASE Len(commandTopic) < CommandDepth
    <3>1. p \o commandTopic \in Contract!Remainders(p \o commandTopic)
      BY <1>1, ConcatProperties, Keeping
    <3> QED
      BY <1>1, <2>1, <3>1 DEF Push
  <2>2. CASE ~(Len(commandTopic) < CommandDepth)
    <3> DEFINE h == Head(commandTopic)
    <3>1. commandTopic # <<>>
      BY <1>1, <2>2, DataAssumption
    <3>2. /\ h \in Command /\ <<h>> \in Seq(Command) /\ Len(<<h>>) = 1
          /\ Tail(commandTopic) \in Seq(Command)
          /\ Len(Tail(commandTopic)) = Len(commandTopic) - 1
          /\ \A i \in 1..Len(Tail(commandTopic)) : Tail(commandTopic)[i] = commandTopic[i + 1]
      BY <1>1, <3>1, HeadTailProperties
    <3>3. commandTopic = <<h>> \o Tail(commandTopic)
      <4>1. /\ <<h>> \o Tail(commandTopic) \in Seq(Command)
            /\ Len(<<h>> \o Tail(commandTopic)) = Len(commandTopic)
        BY <1>1, <3>1, <3>2, ConcatProperties
      <4>2. \A i \in 1..Len(commandTopic) : (<<h>> \o Tail(commandTopic))[i] = commandTopic[i]
        BY <1>1, <3>1, <3>2
      <4> QED
        BY <1>1, <4>1, <4>2, SeqEqual
    <3> HIDE DEF h
    <3>4. p \o commandTopic = p \o <<h>> \o Tail(commandTopic)
      BY <1>1, <3>2, <3>3, ConcatAssociative
    <3>5. p \o Tail(commandTopic) \in Contract!Remainders(p \o commandTopic)
      BY <1>1, <3>2, <3>4, Dropping
    <3>6. commandTopic' = Append(Tail(commandTopic), c)
      BY <2>2 DEF Push
    <3> QED
      BY <3>2, <3>5, <3>6
  <2> QED
    BY <2>1, <2>2
<1>5. CommandsOnTheirWay' = Append(p \o kept, c)
  <2>1. commandTopic' = kept \o <<c>> /\ <<c>> \in Seq(Command)
    BY <1>4, AppendIsConcat
  <2>2. p \o kept \in Seq(Command)
    BY <1>1, ConcatProperties
  <2>3. Append(p \o kept, c) = p \o kept \o <<c>>
    BY <2>2, AppendIsConcat
  <2> QED
    BY <1>1, <1>3, <2>1, <2>3, ConcatAssociative
<1> QED
  BY <1>2, <1>4, <1>5

LEMMA PublishCommandStep ==
    ASSUME RefinementInv, NEW shape \in Shapes, PublishCommand(shape)
    PROVE  Contract!Next
<1> DEFINE c == [shape EXCEPT !.id = sent']
<1> USE DEF topics, slots, client, device, process, history
<1>1. /\ UNCHANGED <<isOpen, connectionId, lastId, session, statusSession, gripper, link>>
      /\ UNCHANGED <<statusTopic, written, handler, pending, command>>
  BY DEF PublishCommand
<1>2. UNCHANGED CommandsExecuted
  BY <1>1 DEF CommandsExecuted
<1>3. UNCHANGED Contract!connectionVars
  BY <1>1, SameConnection
<1>4. shape \in Command /\ sent' \in Nat /\ sent' \in 1..MaxCommands
  BY DriverAssumption DEF PublishCommand, RefinementInv, TypeOK
<1>5. c \in Command
  BY <1>4 DEF Command
<1>6. c \in {[s EXCEPT !.id = n] : s \in Shapes, n \in 1..MaxCommands}
  BY <1>4
<1>7. commandTopic' = Push(commandTopic, CommandDepth, c)
  BY DEF PublishCommand
<1> HIDE DEF c
<1>8. PICK left \in Contract!Remainders(CommandsOnTheirWay) :
          CommandsOnTheirWay' = Append(left, c)
  BY <1>1, <1>5, <1>7, PublishedBehind DEF RefinementInv
<1>9. Contract!Submit(c)
  BY <1>1, <1>2, <1>3, <1>8 DEF Contract!Submit
<1> QED
  BY <1>6, <1>9 DEF Contract!Next

-----------------------------------------------------------------------------
(* The refinement.                                                         *)

LEMMA InitContract == Init => Contract!BackendInit
<1> SUFFICES ASSUME Init PROVE Contract!BackendInit
  OBVIOUS
<1>1. CommandsOnTheirWay = <<>>
  BY DEF Init, CommandsOnTheirWay, InTransit, IsEntry
<1>2. CommandsExecuted = <<>>
  BY DEF Init, CommandsExecuted
<1>3. (isOpen /\ statusSession = session) = FALSE /\ (IF isOpen THEN lastId ELSE 0) = 0
  BY DEF Init
<1> QED
  BY <1>1, <1>2, <1>3, SameData DEF Init, Contract!BackendInit

\* A step of the driver is one of the backend's own, nothing published, nothing taken.
LEMMA DriverContract ==
    ASSUME RefinementInv, DriverNext
    PROVE  Contract!BackendNext \/ UNCHANGED Contract!backendVars
<1>1. CASE Executor
  BY <1>1, ReceiveCommandStep, StoreCommandStep DEF Executor
<1>2. CASE Connect
  BY <1>2, ConnectStep
<1>3. CASE ConnectFails \/ Enable \/ NotReady \/ Unconfigured \/ RequestStop
  BY <1>3, IdleSteps
<1>4. CASE Swap
  BY <1>4, SwapStep
<1>5. CASE Write \/ WriteFails
  BY <1>5, WriteStep, WriteFailsStep
<1>6. CASE ReadFails \/ Exit
  BY <1>6, ClosingSteps
<1>7. CASE Read \/ Clear
  BY <1>7, ReadStep, ClearStep
<1>8. CASE Restart
  BY <1>8, RestartStep
<1>9. CASE GripperEvolves \/ PowerCycle
  BY <1>9, GripperSteps
<1> QED
  BY <1>1, <1>2, <1>3, <1>4, <1>5, <1>6, <1>7, <1>8, <1>9 DEF DriverNext, Worker

\* Every step of the driver, and of those around it, is one the contract allows.
LEMMA NextContract ==
    RefinementInv /\ [Next]_vars => [Contract!Next]_(Contract!backendVars)
<1> SUFFICES ASSUME RefinementInv, [Next]_vars
             PROVE  Contract!Next \/ UNCHANGED Contract!backendVars
  OBVIOUS
<1>1. CASE DriverNext
  BY <1>1, DriverContract DEF Contract!Next
<1>2. CASE TakeStatus
  BY <1>2, TakeStatusStep
<1>3. CASE \E shape \in Shapes : PublishCommand(shape)
  BY <1>3, PublishCommandStep
<1>4. CASE UNCHANGED vars
  BY <1>4, SamePlaces, Stutters
     DEF vars, topics, slots, client, device, process, history
<1> QED
  BY <1>1, <1>2, <1>3, <1>4 DEF Next

\* The driver keeps the contract the controller is checked against, whatever its
\* two threads, the network and the gripper do, with topics of any depth and any
\* number of commands, faults and restarts: it may lose commands, but it executes
\* the others in order, only on a connection it reported a status of, and every
\* status names the last command executed on its connection.
THEOREM DriverKeepsContract == Spec => ImplementsContract
<1>1. Init => Contract!BackendInit
  BY InitContract
<1>2. RefinementInv /\ [Next]_vars => [Contract!Next]_(Contract!backendVars)
  BY NextContract
<1> QED
  BY <1>1, <1>2, AlwaysRefinementInv, PTL DEF Spec, ImplementsContract, Contract!Spec
=============================================================================
