------------------------- MODULE GripperStackProofs -------------------------
(***************************************************************************)
(* Theorems about GripperStack, for every value of its constants: what the *)
(* controller promises over any backend that keeps the contract, it        *)
(* promises over the driver, which keeps it.                               *)
(***************************************************************************)
EXTENDS GripperStack, TLAPS

\* What the driver assumes of its parameters (DriverAssumption).
StackAssumption ==
    /\ AllowAutomaticRelease \in BOOLEAN
    /\ InitialDelay \in Nat \ {0} /\ MaxDelay \in Nat /\ InitialDelay <= MaxDelay
    /\ MaxFaults \in Nat /\ MaxRestarts \in Nat

\* The driver; its commands come from the controller.
Implementation == INSTANCE Robotiq3FDriverProofs WITH Shapes <- {}, MaxCommands <- 0, sent <- 0

\* The controller, and what is proved of it over the contract.
Proved == INSTANCE ControlledGripperFlowProofs WITH
    commandTopic <- Implementation!CommandsOnTheirWay,
    online       <- isOpen,
    reported     <- isOpen /\ statusSession = session,
    lastId       <- IF isOpen THEN lastId ELSE 0,
    executed     <- Implementation!CommandsExecuted,
    outages <- 0, MaxOutages <- 0

\* What is known of a state of the driver, and what of the commands and the requests.
StackInv == Implementation!RefinementInv /\ Proved!Success

-----------------------------------------------------------------------------
(* The assumptions of the modules the proofs come from.                    *)

LEMMA SameTypes ==
    /\ Implementation!Command = Command /\ Implementation!Status = Status
    /\ Proved!Command = Command /\ Proved!Status = Status
    /\ Proved!Goal = Goal /\ Proved!Kinds = Kinds
BY DEF Implementation!Command, Implementation!Status, Implementation!Gripper,
   Implementation!Initializations, Implementation!Motions, Proved!Command, Proved!Status,
   Proved!Gripper, Proved!Initializations, Proved!Motions, Proved!Goal, Proved!Kinds,
   Command, Status, Gripper, Initializations, Motions, Goal, Kinds

LEMMA DriverAssumed == StackAssumption => Implementation!DriverAssumption
BY DEF StackAssumption, Implementation!DriverAssumption

LEMMA ControllerAssumed == Proved!ControllerAssumption /\ Proved!EnvironmentAssumption
BY ControllerAssumption, SameTypes DEF Proved!ControllerAssumption, Proved!EnvironmentAssumption

-----------------------------------------------------------------------------
(* The contract's two instances agree; the initial states.                 *)

LEMMA SameContract ==
    /\ Implementation!Contract!BackendInit => Proved!Backend!BackendInit
    /\ Implementation!Contract!BackendNext => Proved!Backend!BackendNext
    /\ UNCHANGED Implementation!Contract!backendVars => UNCHANGED Proved!Backend!backendVars
<1>1. Implementation!Contract!BackendInit => Proved!Backend!BackendInit
  BY DEF Implementation!Contract!BackendInit, Proved!Backend!BackendInit,
     Implementation!Contract!InitialGrippers, Proved!Backend!InitialGrippers,
     Implementation!Contract!PoweredUp, Proved!Backend!PoweredUp
<1>2. UNCHANGED Implementation!Contract!backendVars => UNCHANGED Proved!Backend!backendVars
  BY DEF Implementation!Contract!backendVars, Proved!Backend!backendVars,
     Implementation!Contract!connectionVars, Proved!Backend!connectionVars
<1>3. Implementation!Contract!BackendNext => Proved!Backend!BackendNext
  <2>1. Implementation!Contract!Lose => Proved!Backend!Lose
    BY DEF Implementation!Contract!Lose, Proved!Backend!Lose,
       Implementation!Contract!SomeLost, Proved!Backend!SomeLost,
       Implementation!Contract!Remainders, Proved!Backend!Remainders,
       Implementation!Contract!Choices, Proved!Backend!Choices,
       Implementation!Contract!connectionVars, Proved!Backend!connectionVars
  <2>2. Implementation!Contract!GoOnline => Proved!Backend!GoOnline
    BY DEF Implementation!Contract!GoOnline, Proved!Backend!GoOnline
  <2>3. Implementation!Contract!GoOffline => Proved!Backend!GoOffline
    BY DEF Implementation!Contract!GoOffline, Proved!Backend!GoOffline,
       Implementation!Contract!Disconnects, Proved!Backend!Disconnects,
       Implementation!Contract!SomeLost, Proved!Backend!SomeLost,
       Implementation!Contract!Remainders, Proved!Backend!Remainders,
       Implementation!Contract!Choices, Proved!Backend!Choices
  <2>4. Implementation!Contract!Execute => Proved!Backend!Execute
    BY DEF Implementation!Contract!Execute, Proved!Backend!Execute,
       Implementation!Contract!TakesEffect, Proved!Backend!TakesEffect,
       Implementation!Contract!Latch, Proved!Backend!Latch
  <2>5. Implementation!Contract!ExecuteUnacknowledged => Proved!Backend!ExecuteUnacknowledged
    BY DEF Implementation!Contract!ExecuteUnacknowledged,
       Proved!Backend!ExecuteUnacknowledged, Implementation!Contract!TakesEffect,
       Proved!Backend!TakesEffect, Implementation!Contract!Latch, Proved!Backend!Latch,
       Implementation!Contract!Disconnects, Proved!Backend!Disconnects,
       Implementation!Contract!SomeLost, Proved!Backend!SomeLost,
       Implementation!Contract!Remainders, Proved!Backend!Remainders,
       Implementation!Contract!Choices, Proved!Backend!Choices
  <2>6. Implementation!Contract!Report => Proved!Backend!Report
    BY DEF Implementation!Contract!Report, Proved!Backend!Report,
       Implementation!Contract!Push, Proved!Backend!Push
  <2>7. Implementation!Contract!ReportOffline => Proved!Backend!ReportOffline
    BY DEF Implementation!Contract!ReportOffline, Proved!Backend!ReportOffline,
       Implementation!Contract!Push, Proved!Backend!Push,
       Implementation!Contract!BlankStatus, Proved!Backend!BlankStatus,
       Implementation!Contract!PoweredUp, Proved!Backend!PoweredUp,
       Implementation!Contract!SomeLost, Proved!Backend!SomeLost,
       Implementation!Contract!Remainders, Proved!Backend!Remainders,
       Implementation!Contract!Choices, Proved!Backend!Choices,
       Implementation!Contract!connectionVars, Proved!Backend!connectionVars
  <2>8. Implementation!Contract!Reboot => Proved!Backend!Reboot
    BY DEF Implementation!Contract!Reboot, Proved!Backend!Reboot
  <2>9. Implementation!Contract!GripperMoves => Proved!Backend!GripperMoves
    BY DEF Implementation!Contract!GripperMoves, Proved!Backend!GripperMoves,
       Implementation!Contract!Evolutions, Proved!Backend!Evolutions,
       Implementation!Contract!connectionVars, Proved!Backend!connectionVars
  <2>10. Implementation!Contract!GripperPowerCycles => Proved!Backend!GripperPowerCycles
    BY DEF Implementation!Contract!GripperPowerCycles,
       Proved!Backend!GripperPowerCycles, Implementation!Contract!PoweredUp,
       Proved!Backend!PoweredUp, Implementation!Contract!connectionVars,
       Proved!Backend!connectionVars
  <2> QED
    BY <2>1, <2>2, <2>3, <2>4, <2>5, <2>6, <2>7, <2>8, <2>9, <2>10
       DEF Implementation!Contract!BackendNext, Proved!Backend!BackendNext
<1> QED
  BY <1>1, <1>2, <1>3

LEMMA InitStack == StackAssumption /\ Init => StackInv
<1> SUFFICES ASSUME StackAssumption, Init PROVE StackInv
  OBVIOUS
<1>1. Implementation!Init
  BY DEF Init, Driver!Init, Implementation!Init, Driver!NoEntry, Implementation!NoEntry,
     Driver!BlankCommand, Implementation!BlankCommand, Driver!InitialGrippers,
     Implementation!InitialGrippers, Driver!PoweredUp, Implementation!PoweredUp
<1>2. Implementation!RefinementInv
  BY <1>1, DriverAssumed, DataAssumption, Implementation!InitTypeOK,
     Implementation!InitAuthorised, Implementation!InitCoherent DEF Implementation!RefinementInv
<1>3. Proved!Init
  <2>1. Implementation!Contract!BackendInit
    BY <1>1, DriverAssumed, DataAssumption, Implementation!InitContract
  <2>2. Proved!ControllerInit
    BY DEF Init, ControllerInit, Proved!ControllerInit, BlankCommand, Proved!BlankCommand,
       IdleOp, Proved!IdleOp, Phases, Proved!Phases
  <2> QED
    BY <2>1, <2>2, SameContract DEF Proved!Init
<1>4. Proved!Success
  BY <1>3, ControllerAssumed, DataAssumption, Proved!InitSuccess
<1> QED
  BY <1>2, <1>4 DEF StackInv

-----------------------------------------------------------------------------
(* A step of the driver.                                                   *)

\* The driver of GripperStack is the one the theorems are about.
LEMMA SameDriver == Driver!DriverNext => Implementation!DriverNext
<1> USE DEF Driver!topics, Implementation!topics, Driver!slots, Implementation!slots,
     Driver!client, Implementation!client, Driver!device, Implementation!device,
     Driver!process, Implementation!process, Driver!history, Implementation!history
<1>1. Driver!ReceiveCommand => Implementation!ReceiveCommand
  BY DEF Driver!ReceiveCommand, Implementation!ReceiveCommand, Driver!Acceptable,
     Implementation!Acceptable, Driver!IsEntry, Implementation!IsEntry, Driver!NoEntry,
     Implementation!NoEntry, Driver!MODE_SCISSOR, Implementation!MODE_SCISSOR,
     Driver!BlankCommand, Implementation!BlankCommand
<1>2. Driver!StoreCommand => Implementation!StoreCommand
  BY DEF Driver!StoreCommand, Implementation!StoreCommand, Driver!IsEntry,
     Implementation!IsEntry, Driver!NoEntry, Implementation!NoEntry,
     Driver!BlankCommand, Implementation!BlankCommand
<1>3. Driver!Connect => Implementation!Connect
  BY DEF Driver!Connect, Implementation!Connect
<1>4. Driver!ConnectFails => Implementation!ConnectFails
  BY DEF Driver!ConnectFails, Implementation!ConnectFails
<1>5. Driver!Swap => Implementation!Swap
  BY DEF Driver!Swap, Implementation!Swap, Driver!IsEntry, Implementation!IsEntry,
     Driver!NoEntry, Implementation!NoEntry, Driver!BlankCommand,
     Implementation!BlankCommand
<1>6. Driver!Write => Implementation!Write
  BY DEF Driver!Write, Implementation!Write, Driver!Latches, Implementation!Latches,
     Driver!Latch, Implementation!Latch, Driver!NoEntry, Implementation!NoEntry,
     Driver!BlankCommand, Implementation!BlankCommand
<1>7. Driver!WriteFails => Implementation!WriteFails
  BY DEF Driver!WriteFails, Implementation!WriteFails, Driver!Latches,
     Implementation!Latches, Driver!Latch, Implementation!Latch, Driver!Closes,
     Implementation!Closes, Driver!NoEntry, Implementation!NoEntry, Driver!BlankCommand,
     Implementation!BlankCommand
<1>8. Driver!Read => Implementation!Read
  BY DEF Driver!Read, Implementation!Read, Driver!Report, Implementation!Report,
     Driver!Push, Implementation!Push
<1>9. Driver!ReadFails => Implementation!ReadFails
  BY DEF Driver!ReadFails, Implementation!ReadFails, Driver!Closes,
     Implementation!Closes
<1>10. Driver!Enable => Implementation!Enable
  BY DEF Driver!Enable, Implementation!Enable
<1>11. Driver!NotReady => Implementation!NotReady
  BY DEF Driver!NotReady, Implementation!NotReady
<1>12. Driver!Clear => Implementation!Clear
  BY DEF Driver!Clear, Implementation!Clear, Driver!Report, Implementation!Report,
     Driver!Push, Implementation!Push, Driver!BlankStatus, Implementation!BlankStatus,
     Driver!PoweredUp, Implementation!PoweredUp, Driver!NoEntry, Implementation!NoEntry,
     Driver!BlankCommand, Implementation!BlankCommand
<1>13. Driver!Unconfigured => Implementation!Unconfigured
  BY DEF Driver!Unconfigured, Implementation!Unconfigured
<1>14. Driver!Exit => Implementation!Exit
  BY DEF Driver!Exit, Implementation!Exit
<1>15. Driver!RequestStop => Implementation!RequestStop
  BY DEF Driver!RequestStop, Implementation!RequestStop, Driver!IsEntry,
     Implementation!IsEntry, Driver!NoEntry, Implementation!NoEntry,
     Driver!BlankCommand, Implementation!BlankCommand
<1>16. Driver!Restart => Implementation!Restart
  BY DEF Driver!Restart, Implementation!Restart, Driver!ProcessStarts,
     Implementation!ProcessStarts, Driver!NoEntry, Implementation!NoEntry,
     Driver!BlankCommand, Implementation!BlankCommand
<1>17. Driver!GripperEvolves => Implementation!GripperEvolves
  BY DEF Driver!GripperEvolves, Implementation!GripperEvolves, Driver!Evolutions,
     Implementation!Evolutions
<1>18. Driver!PowerCycle => Implementation!PowerCycle
  BY DEF Driver!PowerCycle, Implementation!PowerCycle, Driver!PoweredUp,
     Implementation!PoweredUp
<1> QED
  BY <1>1, <1>2, <1>3, <1>4, <1>5, <1>6, <1>7, <1>8, <1>9, <1>10, <1>11, <1>12, <1>13,
     <1>14, <1>15, <1>16, <1>17, <1>18
     DEF Driver!DriverNext, Implementation!DriverNext, Driver!Executor,
        Implementation!Executor, Driver!Worker, Implementation!Worker

LEMMA DriverStep ==
    ASSUME StackAssumption, StackInv, Driver!DriverNext, UNCHANGED <<nodeVars, op>>
    PROVE  Implementation!RefinementInv' /\ [Proved!OpenNext]_(Proved!openVars)
<1>1. Implementation!DriverNext
  BY SameDriver
<1>2. Implementation!RefinementInv'
  BY <1>1, DriverAssumed, DataAssumption, Implementation!NextTypeOK,
     Implementation!NextAuthorised, Implementation!NextCoherent
     DEF StackInv, Implementation!RefinementInv, Implementation!Next
<1>3. \/ Implementation!Contract!BackendNext
      \/ UNCHANGED Implementation!Contract!backendVars
  BY <1>1, DriverAssumed, DataAssumption, Implementation!DriverContract DEF StackInv
<1>4. UNCHANGED <<Proved!nodeVars, op>>
  BY DEF nodeVars, Proved!nodeVars
<1>5. CASE Implementation!Contract!BackendNext
  <2>1. Proved!AnyBackend
    BY <1>4, <1>5, SameContract DEF Proved!AnyBackend
  <2> QED
    BY <1>2, <2>1 DEF Proved!OpenNext
<1>6. CASE UNCHANGED Implementation!Contract!backendVars
  <2>1. UNCHANGED Proved!Backend!backendVars
    BY <1>6, SameContract
  <2> QED
    BY <1>2, <1>4, <2>1 DEF Proved!openVars, Proved!controllerVars, Proved!backendOnly,
       Proved!Backend!backendVars, Proved!Backend!connectionVars
<1> QED
  BY <1>2, <1>3, <1>5, <1>6

-----------------------------------------------------------------------------
(* A step of the controller.                                               *)

\* The driver does not move.
LEMMA DriverStays ==
    ASSUME StackAssumption, UNCHANGED driverOnly
    PROVE  /\ UNCHANGED <<handler, pending, command>>
           /\ UNCHANGED Proved!backendOnly
           /\ commandTopic' = commandTopic => UNCHANGED Implementation!CommandsOnTheirWay
<1>1. UNCHANGED <<handler, pending, command>>
  BY DEF driverOnly
<1>2. UNCHANGED Implementation!CommandsExecuted
  BY DEF driverOnly, Implementation!CommandsExecuted
<1>3. UNCHANGED Proved!backendOnly
  BY <1>2 DEF driverOnly, Proved!backendOnly
<1>4. commandTopic' = commandTopic => UNCHANGED Implementation!CommandsOnTheirWay
  BY <1>1, DriverAssumed, DataAssumption, Implementation!SamePlaces
<1> QED
  BY <1>1, <1>3, <1>4

LEMMA SameEnded == \A r, p, result : Proved!Ended(r, p, result) = Ended(r, p, result)
BY DEF Ended, Proved!Ended, IdleOp, Proved!IdleOp, BlankCommand, Proved!BlankCommand,
   Phases, Proved!Phases

LEMMA CommandType ==
    ASSUME StackInv, NEW o \in Ops PROVE op[o].command \in Implementation!Command
<1>1. op[o] \in Proved!Op
  BY DEF StackInv, Proved!Success, Proved!Told, Proved!Once, Proved!Typed, Proved!TypeOK
<1> QED
  BY <1>1, SameTypes DEF Proved!Op

LEMMA SameRemainders ==
    \A t : Implementation!Contract!Remainders(t) = Proved!Backend!Remainders(t)
BY DEF Implementation!Contract!Remainders, Proved!Backend!Remainders,
   Implementation!Contract!Choices, Proved!Backend!Choices

\* What a request publishes goes behind the commands on their way, of which the
\* oldest of a full topic is lost.
LEMMA PublishStep ==
    ASSUME StackAssumption, StackInv, UNCHANGED driverOnly, NEW o \in Ops, Publish(o)
    PROVE  Proved!PublishLossy(o)
<1>1. op[o].command \in Implementation!Command
  BY CommandType
<1>2. /\ op[o].pc = "publish"
      /\ op' = [op EXCEPT ![o] =
              CASE @.phase = "stop" -> Proved!Ended(@, "done", "ok")
                [] @.phase = "halt" -> [@ EXCEPT !.pc = "finish"]
                [] OTHER            -> [@ EXCEPT !.pc = "wait"]]
      /\ UNCHANGED <<statusTopic, Proved!nodeVars>>
  BY SameEnded DEF Publish, nodeVars, Proved!nodeVars
<1>3. CASE stage = "spinning"
  <2>1. commandTopic' = Implementation!Push(commandTopic, CommandDepth, op[o].command)
    BY <1>3 DEF Publish, Push, Implementation!Push
  <2>2. \E left \in Implementation!Contract!Remainders(Implementation!CommandsOnTheirWay) :
           Implementation!CommandsOnTheirWay' = Append(left, op[o].command)
    BY <1>1, <2>1, DriverStays, DriverAssumed, DataAssumption, Implementation!PublishedBehind
       DEF StackInv, Implementation!RefinementInv
  <2> QED
    BY <1>2, <1>3, <2>2, SameRemainders DEF Proved!PublishLossy
<1>4. CASE stage # "spinning"
  <2>1. UNCHANGED Implementation!CommandsOnTheirWay
    BY <1>4, DriverStays DEF Publish
  <2> QED
    BY <1>2, <1>4, <2>1 DEF Proved!PublishLossy
<1> QED
  BY <1>3, <1>4

\* The other steps of a request are those of the controller over the contract.
LEMMA RequestStep ==
    ASSUME StackAssumption, StackInv, UNCHANGED driverOnly, NEW o \in Ops,
           Call(o) \/ Cancel(o) \/ Advances(o) \/ Ends(o)
    PROVE  Proved!Call(o) \/ Proved!Cancel(o) \/ Proved!AdvancesLossy(o) \/ Proved!Ends(o)
<1> USE DEF nodeVars, Proved!nodeVars
<1>0. commandTopic' = commandTopic => UNCHANGED Implementation!CommandsOnTheirWay
  BY DriverStays
<1>1. Call(o) => Proved!Call(o)
  BY <1>0 DEF Call, Proved!Call, MODE_PINCH, Proved!MODE_PINCH, ActionKinds,
     Proved!ActionKinds
<1>2. Cancel(o) => Proved!Cancel(o)
  BY <1>0 DEF Cancel, Proved!Cancel, ActionKinds, Proved!ActionKinds
<1>3. Begin(o) => Proved!Begin(o)
  BY <1>0 DEF Begin, Proved!Begin, Ended, Proved!Ended, IdleOp, Proved!IdleOp,
     BlankCommand, Proved!BlankCommand, Phases, Proved!Phases
<1>4. CheckFails(o) => Proved!CheckFails(o)
  BY <1>0 DEF CheckFails, Proved!CheckFails, Ended, Proved!Ended, IdleOp, Proved!IdleOp,
     BlankCommand, Proved!BlankCommand, Phases, Proved!Phases, ActionKinds,
     Proved!ActionKinds
<1>5. Check(o) => Proved!Check(o)
  BY <1>0 DEF Check, Proved!Check, MayProceed, Proved!MayProceed, StatusUsable,
     Proved!StatusUsable, ActionKinds, Proved!ActionKinds, FirstPhase,
     Proved!FirstPhase, MoveCommand, Proved!MoveCommand, KeepState, Proved!KeepState,
     BlankCommand, Proved!BlankCommand
<1>6. CopyLast(o) => Proved!CopyLast(o)
  BY <1>0 DEF CopyLast, Proved!CopyLast
<1>7. AssignId(o) => Proved!AssignId(o)
  BY <1>0 DEF AssignId, Proved!AssignId
<1>8. Remember(o) => Proved!Remember(o)
  BY <1>0 DEF Remember, Proved!Remember, Goto, Proved!Goto
<1>9. Finish(o) => Proved!Finish(o)
  BY <1>0 DEF Finish, Proved!Finish
<1>10. Release(o) => Proved!Release(o)
  BY <1>0 DEF Release, Proved!Release, Ended, Proved!Ended, IdleOp, Proved!IdleOp,
     BlankCommand, Proved!BlankCommand, Phases, Proved!Phases
<1>11. WaitFails(o) => Proved!WaitFails(o)
  BY <1>0 DEF WaitFails, Proved!WaitFails, Obstacle, Proved!Obstacle, Abandon,
     Proved!Abandon, ActionKinds, Proved!ActionKinds
<1>12. WaitSucceeds(o) => Proved!WaitSucceeds(o)
  BY <1>0 DEF WaitSucceeds, Proved!WaitSucceeds, Obstacle, Proved!Obstacle, Satisfied,
     Proved!Satisfied, BlankCommand, Proved!BlankCommand, ActionKinds,
     Proved!ActionKinds
<1>13. WaitTimesOut(o) => Proved!WaitTimesOut(o)
  BY <1>0 DEF WaitTimesOut, Proved!WaitTimesOut, Obstacle, Proved!Obstacle, Abandon,
     Proved!Abandon, ActionKinds, Proved!ActionKinds
<1>14. Publish(o) => Proved!PublishLossy(o)
  BY PublishStep
<1> QED
  BY <1>1, <1>2, <1>3, <1>4, <1>5, <1>6, <1>7, <1>8, <1>9, <1>10, <1>11, <1>12, <1>13,
     <1>14
     DEF Advances, Proved!AdvancesLossy, Ends, Proved!Ends

LEMMA ProcessStep ==
    ASSUME StackAssumption, UNCHANGED driverOnly,
           ReceiveStatus \/ SpinEnds \/ Destroy \/ RestartController
    PROVE  Proved!ReceiveStatus \/ Proved!SpinEnds \/ Proved!Destroy \/ Proved!RestartController
<1>0. commandTopic' = commandTopic => UNCHANGED Implementation!CommandsOnTheirWay
  BY DriverStays
<1>1. ReceiveStatus => Proved!ReceiveStatus
  BY <1>0 DEF ReceiveStatus, Proved!ReceiveStatus, Without, Proved!Without
<1>2. SpinEnds => Proved!SpinEnds
  BY <1>0 DEF SpinEnds, Proved!SpinEnds
<1>3. Destroy => Proved!Destroy
  BY <1>0 DEF Destroy, Proved!Destroy, Underway, Proved!Underway, ActionKinds,
     Proved!ActionKinds
<1>4. RestartController => Proved!RestartController
  BY <1>0 DEF RestartController, Proved!RestartController, Underway, Proved!Underway,
     Ended, Proved!Ended, IdleOp, Proved!IdleOp, BlankCommand, Proved!BlankCommand,
     Phases, Proved!Phases
<1> QED
  BY <1>1, <1>2, <1>3, <1>4

\* The driver's invariant says nothing of the topics but their types.
LEMMA DriverKeepsInv ==
    ASSUME StackInv, UNCHANGED driverOnly, Proved!Success',
           commandTopic' \in Seq(Implementation!Command)
    PROVE  Implementation!RefinementInv'
<1>1. statusTopic' \in Seq(Implementation!Status)
  BY SameTypes DEF Proved!Success, Proved!Told, Proved!Once, Proved!Typed, Proved!TypeOK
<1>2. Implementation!TypeOK'
  BY <1>1 DEF StackInv, Implementation!RefinementInv, Implementation!TypeOK, driverOnly
<1>3. Implementation!Authorised'
  BY DEF StackInv, Implementation!RefinementInv, Implementation!Authorised, driverOnly,
     Implementation!Vetted, Implementation!WrittenAuthorised
<1>4. Implementation!Coherent'
  BY DEF StackInv, Implementation!RefinementInv, Implementation!Coherent, driverOnly
<1> QED
  BY <1>2, <1>3, <1>4 DEF Implementation!RefinementInv

LEMMA ControllerStep ==
    ASSUME StackAssumption, StackInv, ControllerNext, UNCHANGED driverOnly
    PROVE  /\ [Proved!OpenNext]_(Proved!openVars)
           /\ commandTopic' \in Seq(Implementation!Command)
<1>1. Proved!ControllerLossy
  BY RequestStep, ProcessStep, DriverStays DEF ControllerNext, Proved!ControllerLossy
<1>2. [Proved!OpenNext]_(Proved!openVars)
  BY <1>1 DEF Proved!OpenNext
<1>3. commandTopic \in Seq(Implementation!Command)
  BY DEF StackInv, Implementation!RefinementInv, Implementation!TypeOK
<1>4. ASSUME NEW o \in Ops, Publish(o) PROVE commandTopic' \in Seq(Implementation!Command)
  <2>1. op[o].command \in Implementation!Command
    BY CommandType
  <2>2. Implementation!Push(commandTopic, CommandDepth, op[o].command)
            \in Seq(Implementation!Command)
    BY <1>3, <2>1, DataAssumption, DriverAssumed, Implementation!PushType
  <2> QED
    BY <1>3, <1>4, <2>2 DEF Publish, Push, Implementation!Push
<1>5. CASE \E o \in Ops : Publish(o)
  BY <1>2, <1>4, <1>5
<1>6. CASE ~\E o \in Ops : Publish(o)
  <2>1. ASSUME NEW o \in Ops, Call(o) \/ Cancel(o) \/ Advances(o) \/ Ends(o)
        PROVE  commandTopic' = commandTopic
    <3>1. Call(o) \/ Cancel(o) => commandTopic' = commandTopic
      BY DEF Call, Cancel
    <3>2. Ends(o) => commandTopic' = commandTopic
      BY DEF Ends, WaitFails, WaitSucceeds, WaitTimesOut
    <3>3. Begin(o) \/ Release(o) => commandTopic' = commandTopic
      BY DEF Begin, Release
    <3>4. CheckFails(o) \/ Check(o) \/ CopyLast(o) => commandTopic' = commandTopic
      BY DEF CheckFails, Check, CopyLast
    <3>5. AssignId(o) \/ Remember(o) \/ Finish(o) => commandTopic' = commandTopic
      BY DEF AssignId, Remember, Finish
    <3> QED
      BY <1>6, <2>1, <3>1, <3>2, <3>3, <3>4, <3>5 DEF Advances
  <2>2. ReceiveStatus \/ SpinEnds \/ Destroy \/ RestartController => commandTopic' = commandTopic
    BY DEF ReceiveStatus, SpinEnds, Destroy, RestartController
  <2>3. commandTopic' = commandTopic
    BY <2>1, <2>2 DEF ControllerNext
  <2> QED
    BY <1>2, <1>3, <2>3
<1> QED
  BY <1>5, <1>6

-----------------------------------------------------------------------------
(* The theorems.                                                           *)

LEMMA NextOpen ==
    ASSUME StackAssumption, StackInv, [Next]_vars
    PROVE  [Proved!OpenNext]_(Proved!openVars)
<1>1. CASE ControllerNext /\ UNCHANGED driverOnly
  BY <1>1, ControllerStep
<1>2. CASE Driver!DriverNext /\ UNCHANGED <<nodeVars, op>>
  BY <1>2, DriverStep
<1>3. CASE UNCHANGED vars
  <2>1. UNCHANGED driverOnly /\ UNCHANGED <<commandTopic, statusTopic, nodeVars, op>>
    BY <1>3 DEF vars, controllerVars
  <2> QED
    BY <2>1, DriverStays DEF Proved!openVars, Proved!controllerVars, nodeVars, Proved!nodeVars
<1> QED
  BY <1>1, <1>2, <1>3 DEF Next

LEMMA NextStack == StackAssumption /\ StackInv /\ [Next]_vars => StackInv'
<1> SUFFICES ASSUME StackAssumption, StackInv, [Next]_vars PROVE StackInv'
  OBVIOUS
<1>1. Proved!Success'
  BY NextOpen, DataAssumption, ControllerAssumed, Proved!NextSuccess DEF StackInv
<1>2. CASE ControllerNext /\ UNCHANGED driverOnly
  BY <1>1, <1>2, ControllerStep, DriverKeepsInv DEF StackInv
<1>3. CASE Driver!DriverNext /\ UNCHANGED <<nodeVars, op>>
  BY <1>1, <1>3, DriverStep DEF StackInv
<1>4. CASE UNCHANGED vars
  <2>1. UNCHANGED driverOnly /\ commandTopic' = commandTopic
    BY <1>4 DEF vars, controllerVars
  <2>2. commandTopic' \in Seq(Implementation!Command)
    BY <2>1 DEF StackInv, Implementation!RefinementInv, Implementation!TypeOK
  <2> QED
    BY <1>1, <2>1, <2>2, DriverKeepsInv DEF StackInv
<1> QED
  BY <1>2, <1>3, <1>4 DEF Next

\* What is executed, the properties read off `written`, whichever instance names it.
LEMMA SameProperties ==
    /\ Proved!OnlyStopsOvertake => OnlyStopsOvertake
    /\ Proved!HaltIsLast => HaltIsLast
    /\ Proved!SuccessIsExecuted => SuccessIsExecuted
<1>1. Proved!OnlyStopsOvertake => OnlyStopsOvertake
  BY DEF Proved!OnlyStopsOvertake, OnlyStopsOvertake, System!OnlyStopsOvertake,
     Proved!SentByStop, System!SentByStop, Proved!At, System!At, Proved!KeyOf, System!KeyOf,
     Implementation!CommandsExecuted, Driver!CommandsExecuted
<1>2. Proved!HaltIsLast => HaltIsLast
  BY DEF Proved!HaltIsLast, HaltIsLast, System!HaltIsLast, Proved!At, System!At,
     Proved!KeyOf, System!KeyOf, Implementation!CommandsExecuted, Driver!CommandsExecuted
<1>3. Proved!SuccessIsExecuted => SuccessIsExecuted
  BY DEF Proved!SuccessIsExecuted, SuccessIsExecuted, System!SuccessIsExecuted,
     Proved!At, System!At, Proved!MainPhase, System!MainPhase, Proved!FirstPhase,
     System!FirstPhase, Proved!KeyOf, System!KeyOf,
     Implementation!CommandsExecuted, Driver!CommandsExecuted
<1> QED
  BY <1>1, <1>2, <1>3

\* Over the driver as it is, with its one-place slot, its readiness test, its
\* reconnections and its restarts, no command is written to the gripper twice, and those
\* of one controller process are written in the order of their identifiers but for stops.
THEOREM StackOnlyStopsOvertake == ASSUME StackAssumption PROVE Spec => []OnlyStopsOvertake
<1>1. StackInv => OnlyStopsOvertake
  <2>1. Proved!Success => Proved!OnlyStopsOvertake
    BY Proved!TurnsExecuted, DataAssumption, ControllerAssumed
  <2> QED
    BY <2>1, SameProperties DEF StackInv
<1>2. Init => StackInv
  BY InitStack
<1>3. StackInv /\ [Next]_vars => StackInv'
  BY NextStack
<1> QED
  BY <1>1, <1>2, <1>3, PTL DEF Spec

\* Neither is the motion of a move that was given up written after the stop that the
\* same request sent for it.
THEOREM StackHaltIsLast == ASSUME StackAssumption PROVE Spec => []HaltIsLast
<1>1. StackInv => HaltIsLast
  <2>1. Proved!Success => Proved!HaltIsLast
    BY Proved!OrderHalts, DataAssumption, ControllerAssumed DEF Proved!Success, Proved!Told
  <2> QED
    BY <2>1, SameProperties DEF StackInv
<1>2. Init => StackInv
  BY InitStack
<1>3. StackInv /\ [Next]_vars => StackInv'
  BY NextStack
<1> QED
  BY <1>1, <1>2, <1>3, PTL DEF Spec

\* And while there is no second controller process, a request that succeeds had its own
\* command written, however often the driver reconnects or is started anew.
THEOREM StackSuccess == ASSUME StackAssumption, MaxLives <= 1 PROVE Spec => []SuccessIsExecuted
<1> DEFINE Only == StackInv /\ life = 1
<1>1. Init => Only
  BY InitStack DEF Init, ControllerInit
<1>2. Only /\ [Next]_vars => Only'
  <2> SUFFICES ASSUME Only, [Next]_vars PROVE Only'
    OBVIOUS
  <2>1. life' = 1
    BY NextOpen, DataAssumption, ControllerAssumed, Proved!NextOnly DEF StackInv
  <2> QED
    BY <2>1, NextStack
<1>3. Only => SuccessIsExecuted
  <2>1. Only => Proved!SuccessIsExecuted
    BY Proved!OnlySucceeds, DataAssumption, ControllerAssumed DEF StackInv
  <2> QED
    BY <2>1, SameProperties
<1> HIDE DEF Only
<1> QED
  BY <1>1, <1>2, <1>3, PTL DEF Spec
=============================================================================
