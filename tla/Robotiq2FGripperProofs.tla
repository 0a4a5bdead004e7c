---------------------- MODULE Robotiq2FGripperProofs ----------------------
(***************************************************************************)
(* Theorems about Robotiq2FGripper, for every value of its constants.      *)
(***************************************************************************)
EXTENDS Robotiq2FGripper, TLAPS

-----------------------------------------------------------------------------
(* Type correctness.                                                       *)

LEMMA CallFields ==
    ASSUME NEW call \in Call
    PROVE  /\ call.op \in {"activate", "deactivate", "set", "get"}
           /\ call.phase \in {"command", "status"}
           /\ call.step \in {"write", "read", "returned", "threw"}
           /\ call.retries \in 0..MaxRetries - 1 /\ call.target \in Targets
BY DEF Call

LEMMA StepChanges ==
    ASSUME NEW call \in Call, NEW step \in {"write", "read", "returned", "threw"}
    PROVE  /\ [call EXCEPT !.step = step] \in Call
           /\ [call EXCEPT !.step = step].step = step
           /\ [call EXCEPT !.step = step].op = call.op
           /\ [call EXCEPT !.step = step].phase = call.phase
           /\ [call EXCEPT !.step = step].target = call.target
BY DEF Call

LEMMA OverCall ==
    ASSUME NEW call \in Call, NEW step \in {"write", "read", "returned", "threw"}
    PROVE  /\ Over(call, step) \in Call
           /\ Over(call, step).step = step
           /\ Over(call, step).op = call.op
           /\ Over(call, step).phase = call.phase
           /\ Over(call, step).target = call.target
<1>1. 0 \in 0..MaxRetries - 1
  BY SerialAssumption
<1> QED
  BY <1>1 DEF Over, Call

LEMMA FailedCall ==
    ASSUME NEW call \in Call
    PROVE  /\ Failed(call) \in Call
           /\ Failed(call).op = call.op /\ Failed(call).target = call.target
           /\ Failed(call).phase = call.phase
           /\ Failed(call).step \in {"write", "threw"}
<1>1. CASE call.retries + 1 = MaxRetries
  BY <1>1, OverCall DEF Failed
<1>2. CASE call.retries + 1 # MaxRetries
  <2>1. Failed(call) = [call EXCEPT !.retries = call.retries + 1, !.step = "write"]
    BY <1>2 DEF Failed
  <2>2. call.retries + 1 \in 0..MaxRetries - 1
    BY <1>2, CallFields, SerialAssumption
  <2> QED
    BY <2>1, <2>2 DEF Call
<1> QED
  BY <1>1, <1>2

\* What a call looks like when it has been made.
LEMMA BeginCalls ==
    ASSUME DriverTypeOK, NEW u \in Users, NEW target \in Targets,
           NEW op \in {"activate", "deactivate", "set", "get"}, Begin(u, op, target)
    PROVE  /\ DriverTypeOK'
           /\ calls'[u].op = op /\ calls'[u].target = target /\ calls'[u].step = "write"
           /\ \A v \in Users \ {u} : calls'[v] = calls[v]
           /\ activated' = (activated /\ op # "deactivate")
           /\ UNCHANGED <<gripper, wire, input, late, reply, lag, delays>>
<1> DEFINE new == [op |-> op, phase |-> IF op = "get" THEN "status" ELSE "command",
                   step |-> "write", retries |-> 0, target |-> target]
<1>1. new \in Call
  BY SerialAssumption DEF Call
<1>2. calls' = [calls EXCEPT ![u] = new] /\ calls \in [Users -> Call]
  BY DEF Begin, DriverTypeOK
<1> HIDE DEF new
<1>3. calls' \in [Users -> Call] /\ calls'[u] = new
      /\ \A v \in Users \ {u} : calls'[v] = calls[v]
  BY <1>1, <1>2
<1>4. new.op = op /\ new.target = target /\ new.step = "write"
  BY DEF new
<1>6. activated' \in BOOLEAN /\ activated' = (activated /\ op # "deactivate")
  BY DEF Begin
<1>7. UNCHANGED <<gripper, wire, input, late, reply, lag, faults, delays>>
  BY DEF Begin, lineVars
<1> QED
  BY <1>3, <1>4, <1>6, <1>7 DEF DriverTypeOK

\* What an exchange makes of a call, in whatever it ends.
Continues(call, new) ==
    /\ new \in Call
    /\ new.op = call.op /\ new.target = call.target

LEMMA AcceptCalls ==
    ASSUME DriverTypeOK, NEW u \in Users, Accept(u), Busy(u)
    PROVE  \E new : calls' = [calls EXCEPT ![u] = new] /\ Continues(calls[u], new)
<1> DEFINE call == calls[u]
<1>1. call \in Call
  BY DEF DriverTypeOK
<1>2. \/ calls' = [calls EXCEPT ![u] = [Over(call, "write") EXCEPT !.phase = "status"]]
      \/ calls' = [calls EXCEPT ![u] = Over(call, "write")]
      \/ calls' = [calls EXCEPT ![u] = Over(call, "returned")]
  BY DEF Accept
<1>3. Continues(call, Over(call, "write")) /\ Continues(call, Over(call, "returned"))
  BY <1>1, OverCall DEF Continues
<1>4. Continues(call, [Over(call, "write") EXCEPT !.phase = "status"])
  BY <1>3 DEF Continues, Call
<1> HIDE DEF call
<1>5. \E new : calls' = [calls EXCEPT ![u] = new] /\ Continues(call, new)
  BY <1>2, <1>3, <1>4
<1> QED
  BY <1>5 DEF call

LEMMA ExchangeCall ==
    ASSUME DriverTypeOK, NEW u \in Users, Exchange(u)
    PROVE  /\ Busy(u)
           /\ \E new : calls' = [calls EXCEPT ![u] = new] /\ Continues(calls[u], new)
<1>1. calls[u] \in Call
  BY DEF DriverTypeOK
<1>2. CASE SerialWrite(u)
  <2>1. Busy(u) /\ calls' = [calls EXCEPT ![u] = [calls[u] EXCEPT !.step = "read"]]
    BY <1>2 DEF SerialWrite, Busy
  <2>2. Continues(calls[u], [calls[u] EXCEPT !.step = "read"])
    BY <1>1, <2>1, StepChanges DEF Continues
  <2> QED
    BY <2>1, <2>2
<1>3. CASE SerialWriteFails(u)
  <2>1. /\ Busy(u)
        /\ \/ calls' = [calls EXCEPT ![u] = Failed(calls[u])]
           \/ calls' = [calls EXCEPT ![u] = Over(calls[u], "threw")]
    BY <1>3 DEF SerialWriteFails, Busy
  <2>2. Continues(calls[u], Over(calls[u], "threw"))
    BY <1>1, OverCall DEF Continues
  <2>3. Continues(calls[u], Failed(calls[u]))
    BY <1>1, <2>1, FailedCall DEF Continues
  <2> QED
    BY <2>1, <2>2, <2>3
<1>4. CASE SerialReadFails(u)
  <2>1. /\ Busy(u)
        /\ \/ calls' = [calls EXCEPT ![u] = Failed(calls[u])]
           \/ calls' = [calls EXCEPT ![u] = Over(calls[u], "threw")]
    BY <1>4 DEF SerialReadFails, Busy
  <2>2. Continues(calls[u], Over(calls[u], "threw"))
    BY <1>1, OverCall DEF Continues
  <2>3. Continues(calls[u], Failed(calls[u]))
    BY <1>1, <2>1, FailedCall DEF Continues
  <2> QED
    BY <2>1, <2>2, <2>3
<1>5. CASE SerialRead(u)
  BY <1>5, AcceptCalls DEF SerialRead, Busy
<1> QED
  BY <1>2, <1>3, <1>4, <1>5 DEF Exchange

\* The same, for the function calls as a whole.
LEMMA ExchangeCalls ==
    ASSUME DriverTypeOK, NEW u \in Users, Exchange(u)
    PROVE  /\ Busy(u)
           /\ calls' \in [Users -> Call]
           /\ \A v \in Users \ {u} : calls'[v] = calls[v]
           /\ calls'[u].op = calls[u].op /\ calls'[u].target = calls[u].target
<1>1. PICK new : calls' = [calls EXCEPT ![u] = new] /\ Continues(calls[u], new)
  BY ExchangeCall
<1>2. calls \in [Users -> Call] /\ Busy(u)
  BY ExchangeCall DEF DriverTypeOK
<1>3. calls' \in [Users -> Call] /\ calls'[u] = new
      /\ \A v \in Users \ {u} : calls'[v] = calls[v]
  BY <1>1, <1>2 DEF Continues
<1>4. calls'[u].op = calls[u].op /\ calls'[u].target = calls[u].target
  BY <1>1, <1>3 DEF Continues
<1> QED
  BY <1>2, <1>3, <1>4

\* activate() sets the flag when it returns; nothing else does.
LEMMA ExchangeActivates ==
    ASSUME DriverTypeOK, NEW u \in Users, Exchange(u)
    PROVE  /\ activated' \in BOOLEAN /\ (activated => activated')
           /\ calls[u].op = "activate" /\ Returned(u)' => activated'
<1>1. activated \in BOOLEAN /\ calls \in [Users -> Call] /\ calls[u] \in Call
  BY DEF DriverTypeOK
<1>2. CASE SerialRead(u)
  <2>1. CASE calls[u].phase = "command"
    <3>1. activated' = activated
      BY <1>2, <2>1 DEF SerialRead, Accept
    <3>2. ASSUME calls[u].op = "activate" PROVE calls'[u].step = "write"
      <4>1. calls' = [calls EXCEPT ![u] = [Over(calls[u], "write") EXCEPT !.phase = "status"]]
        BY <1>2, <2>1, <3>2 DEF SerialRead, Accept
      <4>2. Over(calls[u], "write") \in Call /\ Over(calls[u], "write").step = "write"
        BY <1>1, OverCall
      <4> QED
        BY <1>1, <4>1, <4>2 DEF Call
    <3> QED
      BY <1>1, <3>1, <3>2 DEF Returned
  <2>2. CASE calls[u].phase # "command"
    <3>1. \/ calls' = [calls EXCEPT ![u] = Over(calls[u], "write")] /\ activated' = activated
          \/ /\ calls' = [calls EXCEPT ![u] = Over(calls[u], "returned")]
             /\ activated' = (activated \/ calls[u].op = "activate")
      BY <1>1, <1>2, <2>2 DEF SerialRead, Accept
    <3> QED
      BY <1>1, <3>1, OverCall DEF Returned
  <2> QED
    BY <2>1, <2>2
<1>3. CASE SerialWrite(u) \/ SerialWriteFails(u) \/ SerialReadFails(u)
  <2>1. activated' = activated
    BY <1>3 DEF SerialWrite, SerialWriteFails, SerialReadFails
  <2>2. calls'[u].step # "returned"
    <3>1. CASE SerialWrite(u)
      BY <3>1, <1>1, StepChanges DEF SerialWrite
    <3>3. CASE SerialWriteFails(u)
      BY <3>3, <1>1, OverCall, FailedCall DEF SerialWriteFails
    <3>4. CASE SerialReadFails(u)
      BY <3>4, <1>1, OverCall, FailedCall DEF SerialReadFails
    <3> QED
      BY <1>3, <3>1, <3>3, <3>4
  <2> QED
    BY <1>1, <2>1, <2>2 DEF Returned
<1> QED
  BY <1>2, <1>3 DEF Exchange

LEMMA ExchangeTyped ==
    ASSUME DriverTypeOK, NEW u \in Users, Exchange(u)
    PROVE  DriverTypeOK'
<1>1. /\ gripper \in Gripper /\ wire \in Nat /\ input \in Nat /\ late \in Nat
      /\ reply \in GripperStatuses /\ lag \in Nat /\ faults \in 0..MaxFaults
      /\ delays \in 0..MaxDelays /\ calls[u] \in Call
  BY DEF DriverTypeOK
<1>2. ResponseSize(calls[u]) \in Nat
  BY SerialAssumption DEF ResponseSize
<1>3. /\ wire' \in Nat /\ input' \in Nat /\ late' \in Nat
      /\ faults' \in 0..MaxFaults /\ delays' \in 0..MaxDelays
  <2>1. CASE SerialWrite(u)
    <3>1. wire' \in Nat /\ late' \in Nat /\ input' = input /\ delays' = delays
      BY <1>1, <1>2, <2>1 DEF SerialWrite
    <3>2. faults' \in 0..MaxFaults
      BY <1>1, <2>1, SerialAssumption DEF SerialWrite
    <3> QED
      BY <1>1, <3>1, <3>2
  <2>2. CASE SerialWriteFails(u)
    BY <1>1, <2>2, SerialAssumption DEF SerialWriteFails, lineVars
  <2>3. CASE SerialReadFails(u)
    BY <1>1, <2>3, SerialAssumption DEF SerialReadFails, Remainder
  <2>4. CASE SerialRead(u)
    BY <1>1, <1>2, <2>4, SerialAssumption DEF SerialRead, Remainder
  <2> QED
    BY <2>1, <2>2, <2>3, <2>4 DEF Exchange
<1>4. gripper' \in Gripper /\ reply' \in GripperStatuses
  <2>1. Handles(calls[u]) \in Gripper
    BY <1>1 DEF Handles, Gripper, GripperStatuses
  <2>2. CASE SerialWrite(u)
    BY <1>1, <2>1, <2>2 DEF SerialWrite, Gripper
  <2>3. CASE SerialWriteFails(u) \/ SerialReadFails(u) \/ SerialRead(u)
    BY <1>1, <2>3 DEF SerialWriteFails, SerialReadFails, SerialRead, lineVars
  <2> QED
    BY <2>2, <2>3 DEF Exchange
<1>5. lag' \in Nat
  BY <1>1 DEF Exchange, SerialWrite, SerialWriteFails, SerialReadFails, SerialRead
<1> QED
  BY <1>3, <1>4, <1>5, ExchangeCalls, ExchangeActivates DEF DriverTypeOK

LEMMA EnvironmentTyped ==
    ASSUME DriverTypeOK, Environment
    PROVE  DriverTypeOK' /\ UNCHANGED <<calls, activated, lag, delays>>
<1>1. /\ gripper \in Gripper /\ wire \in Nat /\ input \in Nat /\ late \in Nat
      /\ faults \in 0..MaxFaults /\ delays \in 0..MaxDelays
  BY DEF DriverTypeOK
<1>2. UNCHANGED <<calls, activated, lag, reply, delays>>
  BY DEF Environment, Activates, PowerCycle, Arrive, ReplyLost, lineVars
<1>3. gripper' \in Gripper
  BY <1>1 DEF Environment, Activates, PowerCycle, Arrive, ReplyLost, Gripper, GripperStatuses
<1>4. wire' \in Nat /\ input' \in Nat /\ late' \in Nat /\ faults' \in 0..MaxFaults
  <2>1. CASE Activates
    BY <1>1, <2>1 DEF Activates, lineVars
  <2>2. CASE PowerCycle
    BY <1>1, <2>2, SerialAssumption DEF PowerCycle, lineVars
  <2>3. CASE Arrive
    BY <1>1, <2>3 DEF Arrive
  <2>4. CASE ReplyLost
    BY <1>1, <2>4, SerialAssumption DEF ReplyLost, Lesser
  <2> QED
    BY <2>1, <2>2, <2>3, <2>4 DEF Environment
<1> QED
  BY <1>2, <1>3, <1>4 DEF DriverTypeOK, Busy

\* The steps that leave the driver alone, and those that call it.
QuietSteps ==
    \/ Configure \/ StartThread \/ Deactivate \/ Deactivated \/ TransitionFails
    \/ ReadRequest \/ ReadClearCmd \/ ReadAnswer \/ ReadClearResponse \/ Update \/ Write
    \/ BackgroundEnds \/ BackgroundGoesOn \/ BackgroundSkips \/ BackgroundClears
    \/ BackgroundResponds \/ BackgroundStores \/ BackgroundCatches
    \/ ServiceWaits \/ ServiceAsks \/ ServiceAnswers

CallingSteps ==
    \/ Activate \/ ActivateAfterReset \/ Join
    \/ BackgroundSets \/ BackgroundResets \/ BackgroundActivates \/ BackgroundGets

LEMMA QuietIsQuiet == QuietSteps => UNCHANGED driverVars
BY DEF QuietSteps, Configure, StartThread, Deactivate, Deactivated, TransitionFails,
       ReadRequest, ReadClearCmd, ReadAnswer, ReadClearResponse, Update, Write,
       BackgroundEnds, BackgroundGoesOn, BackgroundSkips, BackgroundClears, BackgroundResponds,
       BackgroundStores, BackgroundCatches, ServiceWaits, ServiceAsks, ServiceAnswers

LEMMA NextCases ==
    ASSUME [Next]_vars
    PROVE  \/ QuietSteps \/ CallingSteps
           \/ DriverSteps
           \/ Environment /\ UNCHANGED interfaceVars
           \/ UNCHANGED vars
BY DEF Next, ManagerSteps, Background, QuietSteps, CallingSteps

LEMMA InitTyped == Init => TypeOK
<1> SUFFICES ASSUME Init PROVE TypeOK
  OBVIOUS
<1> DEFINE idle == [op |-> "get", phase |-> "status", step |-> "returned", retries |-> 0,
                    target |-> "number"]
<1>1. idle \in Call
  BY SerialAssumption DEF Call, Targets
<1>2. calls = [u \in Users |-> idle] /\ idle.step = "returned"
  BY DEF Init, DriverInit
<1> HIDE DEF idle
<1>3. calls \in [Users -> Call] /\ \A u \in Users : ~Busy(u)
  BY <1>1, <1>2 DEF Busy
<1>4. gripper \in Gripper /\ gripper.status \in GripperStatuses
  BY DEF Init, DriverInit, Gripper
<1>5. /\ reply \in GripperStatuses
      /\ wire \in Nat /\ input \in Nat /\ late \in Nat
      /\ faults \in 0..MaxFaults /\ delays \in 0..MaxDelays
  BY <1>4, SerialAssumption DEF Init, DriverInit
<1>6. activated \in BOOLEAN /\ lag \in Nat
  BY DEF Init, DriverInit
<1>7. DriverTypeOK
  BY <1>3, <1>4, <1>5, <1>6 DEF DriverTypeOK
<1> QED
  BY <1>7 DEF Init, TypeOK, Targets

LEMMA CallingTyped ==
    ASSUME TypeOK, CallingSteps
    PROVE  DriverTypeOK'
<1>1. "number" \in Targets /\ writeCommand \in Targets
  BY DEF TypeOK, Targets
<1>2. \E u \in Users, op \in {"activate", "deactivate", "set", "get"}, target \in Targets :
        Begin(u, op, target)
  BY <1>1 DEF CallingSteps, Activate, ActivateAfterReset, Join, BackgroundSets,
              BackgroundResets, BackgroundActivates, BackgroundGets, BeginPlain, Users
<1> QED
  BY <1>2, BeginCalls DEF TypeOK

LEMMA NextTyped == TypeOK /\ [Next]_vars => TypeOK'
<1> SUFFICES ASSUME TypeOK, [Next]_vars PROVE TypeOK'
  OBVIOUS
<1>1. DriverTypeOK'
  <2>1. CASE QuietSteps \/ UNCHANGED vars
    <3>1. UNCHANGED driverVars
      BY <2>1, QuietIsQuiet DEF vars
    <3> QED
      BY <3>1 DEF TypeOK, DriverTypeOK, driverVars, lineVars, Busy
  <2>2. CASE DriverSteps
    BY <2>2, ExchangeTyped DEF DriverSteps, TypeOK
  <2> QED
    BY <2>1, <2>2, NextCases, CallingTyped, EnvironmentTyped DEF TypeOK
<1>2. CASE QuietSteps
  <2> USE DEF TypeOK, Targets, positionVars, handshakeVars, historyVars
  <2>1. CASE Configure
    BY <1>1, <2>1 DEF Configure
  <2>2. CASE StartThread
    BY <1>1, <2>2 DEF StartThread
  <2>3. CASE Deactivate
    <3>1. running' \in BOOLEAN
      BY <2>3, Zenon DEF Deactivate
    <3> QED
      BY <1>1, <2>3, <3>1 DEF Deactivate
  <2>4. CASE Deactivated
    BY <1>1, <2>4 DEF Deactivated
  <2>5. CASE TransitionFails
    BY <1>1, <2>5 DEF TransitionFails
  <2>6. CASE ReadRequest
    BY <1>1, <2>6 DEF ReadRequest
  <2>7. CASE ReadClearCmd
    <3>1. reactivateCmd' \in BOOLEAN
      BY <2>7, Zenon DEF ReadClearCmd
    <3> QED
      BY <1>1, <2>7, <3>1 DEF ReadClearCmd
  <2>8. CASE ReadAnswer
    BY <1>1, <2>8 DEF ReadAnswer
  <2>9. CASE ReadClearResponse
    <3>1. asyncResponse' \in BOOLEAN
      BY <2>9, Zenon DEF ReadClearResponse
    <3> QED
      BY <1>1, <2>9, <3>1 DEF ReadClearResponse
  <2>10. CASE Update
    BY <1>1, <2>10 DEF Update
  <2>11. CASE Write
    BY <1>1, <2>11 DEF Write
  <2>12. CASE BackgroundEnds
    BY <1>1, <2>12 DEF BackgroundEnds
  <2>13. CASE BackgroundGoesOn
    BY <1>1, <2>13 DEF BackgroundGoesOn
  <2>14. CASE BackgroundSkips
    BY <1>1, <2>14 DEF BackgroundSkips
  <2>15. CASE BackgroundClears
    <3>1. asyncCmd' \in BOOLEAN
      BY <2>15, Zenon DEF BackgroundClears
    <3> QED
      BY <1>1, <2>15, <3>1 DEF BackgroundClears
  <2>16. CASE BackgroundResponds
    BY <1>1, <2>16 DEF BackgroundResponds
  <2>17. CASE BackgroundStores
    BY <1>1, <2>17 DEF BackgroundStores
  <2>18. CASE BackgroundCatches
    BY <1>1, <2>18 DEF BackgroundCatches
  <2>19. CASE ServiceWaits
    <3>1. begunSince' \in BOOLEAN /\ doneSince' \in BOOLEAN
      BY <2>19, Zenon DEF ServiceWaits
    <3> QED
      BY <1>1, <2>19, <3>1 DEF ServiceWaits
  <2>20. CASE ServiceAsks
    BY <1>1, <2>20 DEF ServiceAsks
  <2>21. CASE ServiceAnswers
    BY <1>1, <2>21 DEF ServiceAnswers
  <2> QED
    BY <1>2, <2>1, <2>2, <2>3, <2>4, <2>5, <2>6, <2>7, <2>8, <2>9, <2>10, <2>11, <2>12,
       <2>13, <2>14, <2>15, <2>16, <2>17, <2>18, <2>19, <2>20, <2>21
       DEF QuietSteps
<1>3. CASE CallingSteps
  <2> USE DEF TypeOK, Targets, positionVars, handshakeVars, historyVars
  <2>1. CASE Activate
    BY <1>1, <2>1 DEF Activate
  <2>2. CASE ActivateAfterReset
    BY <1>1, <2>2 DEF ActivateAfterReset
  <2>3. CASE Join
    BY <1>1, <2>3 DEF Join
  <2>4. CASE BackgroundSets
    BY <1>1, <2>4 DEF BackgroundSets
  <2>5. CASE BackgroundResets
    BY <1>1, <2>5 DEF BackgroundResets
  <2>6. CASE BackgroundActivates
    BY <1>1, <2>6 DEF BackgroundActivates
  <2>7. CASE BackgroundGets
    BY <1>1, <2>7 DEF BackgroundGets
  <2> QED
    BY <1>3, <2>1, <2>2, <2>3, <2>4, <2>5, <2>6, <2>7
       DEF CallingSteps
<1>4. CASE UNCHANGED interfaceVars
  BY <1>1, <1>4 DEF TypeOK, interfaceVars, positionVars, handshakeVars,
                    historyVars
<1>5. DriverSteps \/ UNCHANGED vars => UNCHANGED interfaceVars
  BY DEF DriverSteps, vars, interfaceVars
<1> QED
  BY <1>2, <1>3, <1>4, <1>5, NextCases

\* Every variable has its type in every reachable state.
THEOREM TypeCorrect == Spec => []TypeOK
BY InitTyped, NextTyped, PTL DEF Spec

-----------------------------------------------------------------------------
(* Who uses the driver, and when the gripper is activated.                 *)

\* The steps at which a thread is in a call, or has just been.
ManagerCalling == manager \in {"reset", "activate", "deactivate"}
BackgroundCalling == background \in {"deactivate", "activate", "set", "get"}
NoThread == background \in {"none", "joined"}

\* The manager is in a call only while there is no thread, and each call is
\* the one its thread is at.
Turns ==
    /\ ManagerCalling => NoThread
    /\ lifecycle # "active" => NoThread
    /\ manager \in {"reset", "activate"} => lifecycle = "inactive"
    /\ Busy("manager") => ManagerCalling
    /\ Busy("background") => BackgroundCalling
    /\ manager \in {"activate", "deactivate"} => calls["manager"].op = manager
    /\ manager = "reset" => calls["manager"].op = "deactivate"
    /\ BackgroundCalling => calls["background"].op = background

\* The gripper is activated where the thread sends a position, or the request
\* of a re-activation is still set.
Armed ==
    /\ manager = "activate" /\ Returned("manager") => activated
    /\ background = "activate" /\ Returned("background") => activated
    /\ background \in {"respond", "move", "set", "get"} => activated
    /\ background \in {"top", "check"} => activated \/ asyncCmd
    /\ background \in {"deactivate", "activate"} => asyncCmd

ArmedInv == TypeOK /\ Turns /\ Armed

LEMMA InitArmed == Init => ArmedInv
<1> SUFFICES ASSUME Init PROVE ArmedInv
  OBVIOUS
<1>1. manager = "idle" /\ background = "none" /\ \A u \in Users : ~Busy(u)
  BY DEF Init, DriverInit, Busy
<1> QED
  BY <1>1, InitTyped DEF ArmedInv, Turns, Armed, ManagerCalling, BackgroundCalling, NoThread, Users

LEMMA QuietArmed ==
    ASSUME ArmedInv, QuietSteps
    PROVE  Turns' /\ Armed'
<1>1. calls' = calls /\ activated' = activated
  BY QuietIsQuiet DEF driverVars
<1> USE DEF ArmedInv, Turns, Armed, ManagerCalling, BackgroundCalling, NoThread, Busy, Returned
<1>2. CASE Configure \/ Deactivate \/ TransitionFails
  <2>1. CASE Configure
    <3>1. manager' = manager /\ background' = background /\ asyncCmd' = asyncCmd /\ NoThread
      BY <2>1 DEF Configure, handshakeVars
    <3>2. manager = "idle"
      BY <2>1 DEF Configure
    <3>3. lifecycle' # "active"
      BY <2>1 DEF Configure
    <3> QED
      BY <1>1, <3>1, <3>2, <3>3
  <2>2. CASE Deactivate
    <3>1. /\ manager = "idle" /\ manager' = "join" /\ lifecycle' = "active"
          /\ UNCHANGED <<background, asyncCmd>>
      BY <2>2 DEF Deactivate, handshakeVars
    <3> QED
      BY <1>1, <3>1
  <2>3. CASE TransitionFails
    <3>1. /\ ManagerCalling /\ manager' = "idle" /\ lifecycle' = "finalized"
          /\ UNCHANGED <<background, asyncCmd>> /\ ~Busy("manager")
      BY <2>3 DEF TransitionFails, handshakeVars, Threw
    <3> QED
      BY <1>1, <3>1
  <2> QED
    BY <1>2, <2>1, <2>2, <2>3
<1>3. CASE StartThread
  BY <1>1, <1>3 DEF StartThread, handshakeVars
<1>4. CASE Deactivated
  BY <1>1, <1>4 DEF Deactivated, handshakeVars
<1>5. CASE ReadRequest \/ ReadClearCmd \/ ReadAnswer \/ ReadClearResponse \/ Update \/ Write
  BY <1>1, <1>5 DEF ReadRequest, ReadClearCmd, ReadAnswer, ReadClearResponse, Update, Write,
                    handshakeVars
<1>6. CASE BackgroundEnds \/ BackgroundGoesOn \/ BackgroundSkips \/ BackgroundClears
           \/ BackgroundResponds
  BY <1>1, <1>6 DEF BackgroundEnds, BackgroundGoesOn, BackgroundSkips, BackgroundClears,
                    BackgroundResponds, handshakeVars
<1>7. CASE BackgroundStores \/ BackgroundCatches
  <2>1. background' = "top" /\ asyncCmd' = asyncCmd /\ manager' = manager
        /\ lifecycle' = lifecycle /\ ~NoThread
    BY <1>7 DEF BackgroundStores, BackgroundCatches, handshakeVars
  <2>2. activated \/ asyncCmd
    BY <1>7 DEF BackgroundStores, BackgroundCatches
  <2>3. ~Busy("background")
    BY <1>7 DEF BackgroundStores, BackgroundCatches, Threw
  <2> QED
    BY <1>1, <2>1, <2>2, <2>3
<1>8. CASE ServiceWaits \/ ServiceAsks \/ ServiceAnswers
  BY <1>1, <1>8 DEF ServiceWaits, ServiceAsks, ServiceAnswers, handshakeVars
<1> QED
  BY <1>2, <1>3, <1>4, <1>5, <1>6, <1>7, <1>8 DEF QuietSteps

LEMMA CallingArmed ==
    ASSUME ArmedInv, CallingSteps
    PROVE  Turns' /\ Armed'
<1> USE DEF ManagerCalling, BackgroundCalling, NoThread, Busy, Returned, Users
<1>1. DriverTypeOK /\ "number" \in Targets /\ writeCommand \in Targets
  BY DEF ArmedInv, TypeOK, Targets
<1>2. CASE Activate
  <2>1. /\ calls'["manager"].op = "deactivate" /\ calls'["manager"].step = "write"
        /\ calls'["background"] = calls["background"] /\ activated' = FALSE
    BY <1>1, <1>2, BeginCalls DEF Activate, BeginPlain
  <2> QED
    BY <1>2, <2>1 DEF Activate, ArmedInv, Turns, Armed, handshakeVars
<1>3. CASE ActivateAfterReset
  <2>1. /\ calls'["manager"].op = "activate" /\ calls'["manager"].step = "write"
        /\ calls'["background"] = calls["background"] /\ activated' = activated
    BY <1>1, <1>3, BeginCalls DEF ActivateAfterReset, BeginPlain, ArmedInv, TypeOK, DriverTypeOK
  <2> QED
    BY <1>3, <2>1 DEF ActivateAfterReset, ArmedInv, Turns, Armed, handshakeVars
<1>4. CASE Join
  <2>1. /\ calls'["manager"].op = "deactivate" /\ calls'["manager"].step = "write"
        /\ calls'["background"] = calls["background"] /\ activated' = FALSE
    BY <1>1, <1>4, BeginCalls DEF Join, BeginPlain
  <2> QED
    BY <1>4, <2>1 DEF Join, ArmedInv, Turns, Armed, handshakeVars
<1>5. CASE BackgroundSets
  <2>1. /\ calls'["background"].op = "set" /\ calls'["background"].step = "write"
        /\ calls'["manager"] = calls["manager"] /\ activated' = activated
    BY <1>1, <1>5, BeginCalls DEF BackgroundSets, ArmedInv, TypeOK, DriverTypeOK
  <2> QED
    BY <1>5, <2>1 DEF BackgroundSets, ArmedInv, Turns, Armed
<1>6. CASE BackgroundResets
  <2>1. /\ calls'["background"].op = "deactivate" /\ calls'["background"].step = "write"
        /\ calls'["manager"] = calls["manager"]
    BY <1>1, <1>6, BeginCalls DEF BackgroundResets, BeginPlain
  <2> QED
    BY <1>6, <2>1 DEF BackgroundResets, ArmedInv, Turns, Armed, handshakeVars
<1>7. CASE BackgroundActivates
  <2>1. /\ calls'["background"].op = "activate" /\ calls'["background"].step = "write"
        /\ calls'["manager"] = calls["manager"] /\ activated' = activated
    BY <1>1, <1>7, BeginCalls DEF BackgroundActivates, BeginPlain, ArmedInv, TypeOK, DriverTypeOK
  <2> QED
    BY <1>7, <2>1 DEF BackgroundActivates, ArmedInv, Turns, Armed, handshakeVars
<1>8. CASE BackgroundGets
  <2>1. /\ calls'["background"].op = "get" /\ calls'["background"].step = "write"
        /\ calls'["manager"] = calls["manager"] /\ activated' = activated
    BY <1>1, <1>8, BeginCalls DEF BackgroundGets, BeginPlain, ArmedInv, TypeOK, DriverTypeOK
  <2> QED
    BY <1>8, <2>1 DEF BackgroundGets, ArmedInv, Turns, Armed, handshakeVars
<1> QED
  BY <1>2, <1>3, <1>4, <1>5, <1>6, <1>7, <1>8 DEF CallingSteps

LEMMA ExchangeArmed ==
    ASSUME ArmedInv, DriverSteps
    PROVE  Turns' /\ Armed'
<1>1. PICK u \in Users : Exchange(u)
  BY DEF DriverSteps
<1>2. UNCHANGED <<manager, background, lifecycle, asyncCmd>>
  BY DEF DriverSteps, interfaceVars, handshakeVars
<1>3. /\ Busy(u) /\ \A v \in Users \ {u} : calls'[v] = calls[v]
      /\ calls'[u].op = calls[u].op
      /\ (activated => activated')
      /\ calls[u].op = "activate" /\ Returned(u)' => activated'
  BY <1>1, ExchangeCalls, ExchangeActivates DEF ArmedInv, TypeOK
<1>4. \A v \in Users : calls'[v].op = calls[v].op
  BY <1>3
<1>5. \A v \in Users : /\ Busy(v)' => Busy(v)
                       /\ Returned(v)' => Returned(v) \/ (calls[v].op = "activate" => activated')
  BY <1>3 DEF Busy, Returned
<1> QED
  BY <1>2, <1>3, <1>4, <1>5 DEF ArmedInv, Turns, Armed, ManagerCalling, BackgroundCalling, NoThread, Users

LEMMA NextArmed == ArmedInv /\ [Next]_vars => ArmedInv'
<1> SUFFICES ASSUME ArmedInv, [Next]_vars PROVE ArmedInv'
  OBVIOUS
<1>1. TypeOK'
  BY NextTyped DEF ArmedInv
<1>2. CASE (Environment /\ UNCHANGED interfaceVars) \/ UNCHANGED vars
  <2>1. UNCHANGED <<calls, activated, manager, background, lifecycle, asyncCmd>>
    BY <1>2, EnvironmentTyped DEF ArmedInv, TypeOK, interfaceVars, handshakeVars, vars, driverVars
  <2> QED
    BY <1>1, <2>1 DEF ArmedInv, Turns, Armed, ManagerCalling, BackgroundCalling, NoThread, Busy, Returned
<1> QED
  BY <1>1, <1>2, NextCases, QuietArmed, CallingArmed, ExchangeArmed DEF ArmedInv

\* The manager and the background thread never use the driver at once.
THEOREM DriverIsNotShared == Spec => []DriverNotShared
<1>1. ArmedInv => DriverNotShared
  BY DEF ArmedInv, Turns, ManagerCalling, BackgroundCalling, NoThread, DriverNotShared
<1> QED
  BY <1>1, InitArmed, NextArmed, PTL DEF Spec

\* A position is sent only after activate() has returned.
THEOREM MotionsAreActivated == Spec => []NoMotionUnlessActivated
<1>1. ArmedInv => NoMotionUnlessActivated
  BY DEF ArmedInv, Turns, Armed, ManagerCalling, BackgroundCalling, NoThread,
         NoMotionUnlessActivated, Users
<1> QED
  BY <1>1, InitArmed, NextArmed, PTL DEF Spec

-----------------------------------------------------------------------------
(* Whose answer the service takes.                                         *)

\* No re-activation is asked for, and no answer is to come.
Quiet ==
    /\ ~reactivateCmd /\ ~asyncCmd /\ manager # "clearCmd"
    /\ background \notin {"deactivate", "activate", "respond"}
    /\ asyncResponse => manager = "clearResponse"

\* Where the request of a polling service can be.
Asked ==
    /\ reactivateCmd /\ ~asyncCmd /\ manager # "clearCmd"
    /\ background \notin {"deactivate", "activate", "respond"}
    /\ asyncResponse => manager = "clearResponse"
Forwarded ==
    /\ (reactivateCmd <=> manager = "clearCmd") /\ manager # "clearResponse"
    /\ asyncCmd /\ ~asyncResponse /\ background # "respond"
    /\ background \in {"deactivate", "activate"} => begunSince
Done ==
    /\ (reactivateCmd <=> manager = "clearCmd") /\ manager # "clearResponse"
    /\ ~asyncCmd /\ ~asyncResponse /\ background = "respond" /\ begunSince
Responded ==
    /\ (reactivateCmd <=> manager = "clearCmd") /\ manager # "clearResponse"
    /\ ~asyncCmd /\ asyncResponse /\ doneSince
    /\ background \notin {"deactivate", "activate", "respond"}

OwnAnswer ==
    /\ service \in {"idle", "ask"} => Quiet
    /\ service = "poll" /\ response # "waiting" => Quiet /\ doneSince
    /\ service = "poll" /\ response = "waiting" => Asked \/ Forwarded \/ Done \/ Responded
    /\ service = "ask" => response = "waiting"

LEMMA NextOwnAnswer == Turns /\ OwnAnswer /\ [Next]_vars => OwnAnswer'
<1> SUFFICES ASSUME Turns, OwnAnswer, [Next]_vars PROVE OwnAnswer'
  OBVIOUS
<1> USE DEF positionVars, handshakeVars, historyVars,
            OwnAnswer, Quiet, Asked, Forwarded, Done, Responded
<1>1. CASE Configure
  <2>1. UNCHANGED <<manager, background, handshakeVars, service, historyVars>>
    BY <1>1 DEF Configure
  <2> QED
    BY <2>1
<1>2. CASE StartThread
  BY <1>2 DEF StartThread, Turns, ManagerCalling, NoThread
<1>3. CASE Deactivate
  BY <1>3 DEF Deactivate
<1>4. CASE Deactivated
  BY <1>4 DEF Deactivated
<1>5. CASE TransitionFails
  BY <1>5 DEF TransitionFails
<1>6. CASE ReadRequest
  BY <1>6 DEF ReadRequest
<1>7. CASE ReadClearCmd
  BY <1>7 DEF ReadClearCmd
<1>8. CASE ReadAnswer
  BY <1>8 DEF ReadAnswer
<1>9. CASE ReadClearResponse
  BY <1>9 DEF ReadClearResponse
<1>10. CASE Update
  BY <1>10 DEF Update
<1>11. CASE Write
  BY <1>11 DEF Write
<1>12. CASE BackgroundEnds
  BY <1>12 DEF BackgroundEnds
<1>13. CASE BackgroundClears
  BY <1>13 DEF BackgroundClears
<1>14. CASE BackgroundStores
  BY <1>14 DEF BackgroundStores
<1>15. CASE BackgroundCatches
  BY <1>15 DEF BackgroundCatches
<1>16. CASE ServiceWaits
  BY <1>16 DEF ServiceWaits
<1>17. CASE ServiceAsks
  BY <1>17 DEF ServiceAsks
<1>18. CASE ServiceAnswers
  BY <1>18 DEF ServiceAnswers
<1>19. CASE Activate
  BY <1>19 DEF Activate
<1>20. CASE ActivateAfterReset
  BY <1>20 DEF ActivateAfterReset
<1>21. CASE Join
  BY <1>21 DEF Join
<1>22. CASE BackgroundSets
  BY <1>22 DEF BackgroundSets
<1>28. CASE BackgroundGoesOn
  BY <1>28 DEF BackgroundGoesOn
<1>29. CASE BackgroundSkips
  BY <1>29 DEF BackgroundSkips
<1>30. CASE BackgroundResponds
  BY <1>30 DEF BackgroundResponds
<1>23. CASE BackgroundResets
  BY <1>23 DEF BackgroundResets
<1>24. CASE BackgroundActivates
  BY <1>24 DEF BackgroundActivates
<1>25. CASE BackgroundGets
  BY <1>25 DEF BackgroundGets
<1>26. CASE UNCHANGED interfaceVars
  BY <1>26 DEF interfaceVars
<1>27. DriverSteps \/ UNCHANGED vars => UNCHANGED interfaceVars
  BY DEF DriverSteps, vars, interfaceVars
<1> QED
  BY <1>1, <1>2, <1>3, <1>4, <1>5, <1>6, <1>7, <1>8, <1>9, <1>10, <1>11, <1>12, <1>13, <1>14, <1>15, <1>16, <1>17, <1>18, <1>19, <1>20, <1>21, <1>22, <1>23, <1>24, <1>25, <1>26, <1>27, <1>28, <1>29, <1>30, NextCases DEF QuietSteps, CallingSteps

\* What the service takes for an answer is the answer to its own request.
THEOREM AnswersAreOwn == Spec => []AnswerIsOwn
<1>1. Init => OwnAnswer
  BY DEF Init, OwnAnswer, Quiet
<1>2. ArmedInv => Turns
  BY DEF ArmedInv
<1>3. OwnAnswer => AnswerIsOwn
  BY DEF OwnAnswer, AnswerIsOwn
<1> QED
  BY <1>1, <1>2, <1>3, InitArmed, NextArmed, NextOwnAnswer, PTL DEF Spec

-----------------------------------------------------------------------------
(* The line, with late replies.                                            *)

\* What late replies can have left on the line.
Backlog == delays * LargestResponse

\* Between two exchanges only late replies are on the line; in an exchange,
\* the reply to its own request besides.
Line ==
    /\ late <= Backlog /\ lag <= Backlog
    /\ late <= input + wire
    /\ (\A u \in Users : calls[u].step # "read") => input + wire <= Backlog
    /\ \A u \in Users : calls[u].step = "read" => input + wire <= Backlog + ResponseSize(calls[u])

LineInv == ArmedInv /\ Line

LEMMA Sizes ==
    /\ LargestResponse \in Nat
    /\ \A call : ResponseSize(call) \in 1..LargestResponse
BY SerialAssumption DEF LargestResponse, ResponseSize

LEMMA Product == \A d, n \in Nat : d * n \in Nat /\ (d + 1) * n = d * n + n
OBVIOUS

\* A reply that comes late adds to the backlog; nothing else does.
LEMMA BacklogGrows ==
    ASSUME DriverTypeOK, delays' \in {delays, delays + 1}
    PROVE  /\ Backlog \in Nat /\ Backlog' \in Nat
           /\ delays' = delays => Backlog' = Backlog
           /\ delays' = delays + 1 => Backlog' = Backlog + LargestResponse
<1>1. delays \in Nat /\ LargestResponse \in Nat
  BY Sizes, SerialAssumption DEF DriverTypeOK
<1>2. LargestResponse' = LargestResponse
  BY DEF LargestResponse
<1>3. /\ delays * LargestResponse \in Nat
      /\ (delays + 1) * LargestResponse = delays * LargestResponse + LargestResponse
  BY <1>1, Product
<1>4. CASE delays' = delays
  BY <1>1, <1>2, <1>3, <1>4 DEF Backlog
<1>5. CASE delays' = delays + 1
  <2>1. Backlog' = (delays + 1) * LargestResponse
    BY <1>2, <1>5 DEF Backlog
  <2>2. delays + 1 # delays
    BY <1>1
  <2> QED
    BY <1>1, <1>3, <1>5, <2>1, <2>2 DEF Backlog
<1> QED
  BY <1>4, <1>5

\* Where an exchange leaves its call.
LEMMA WriteReads ==
    ASSUME DriverTypeOK, NEW u \in Users, SerialWrite(u)
    PROVE  /\ calls[u].step = "write" /\ calls'[u].step = "read"
           /\ ResponseSize(calls'[u]) = ResponseSize(calls[u])
<1>1. /\ calls \in [Users -> Call] /\ calls[u] \in Call /\ calls[u].step = "write"
      /\ calls' = [calls EXCEPT ![u] = [calls[u] EXCEPT !.step = "read"]]
  BY DEF DriverTypeOK, SerialWrite
<1>2. calls'[u].step = "read" /\ calls'[u].phase = calls[u].phase
  BY <1>1, StepChanges
<1> QED
  BY <1>1, <1>2 DEF ResponseSize

LEMMA OthersDoNotRead ==
    ASSUME DriverTypeOK, NEW u \in Users,
           SerialWriteFails(u) \/ SerialReadFails(u) \/ SerialRead(u)
    PROVE  calls'[u].step # "read"
<1>1. calls \in [Users -> Call] /\ calls[u] \in Call
  BY DEF DriverTypeOK
<1>2. CASE SerialWriteFails(u) \/ SerialReadFails(u)
  <2>1. calls'[u] \in {Failed(calls[u]), Over(calls[u], "threw")}
    BY <1>1, <1>2 DEF SerialWriteFails, SerialReadFails
  <2> QED
    BY <1>1, <2>1, OverCall, FailedCall
<1>3. CASE SerialRead(u)
  <2>1. calls'[u] \in {[Over(calls[u], "write") EXCEPT !.phase = "status"],
                       Over(calls[u], "write"), Over(calls[u], "returned")}
    BY <1>1, <1>3 DEF SerialRead, Accept
  <2>2. /\ Over(calls[u], "write") \in Call /\ Over(calls[u], "write").step = "write"
        /\ Over(calls[u], "returned").step = "returned"
    BY <1>1, OverCall
  <2>3. [Over(calls[u], "write") EXCEPT !.phase = "status"].step = "write"
    BY <2>2 DEF Call
  <2> QED
    BY <2>1, <2>2, <2>3
<1> QED
  BY <1>2, <1>3

\* Only one thread is in an exchange.
LEMMA ExchangeAlone ==
    ASSUME ArmedInv, NEW u \in Users, Exchange(u)
    PROVE  \A v \in Users \ {u} : calls[v].step # "read" /\ calls'[v] = calls[v]
<1>1. Busy(u) /\ \A v \in Users \ {u} : calls'[v] = calls[v]
  BY ExchangeCalls DEF ArmedInv, TypeOK
<1> QED
  BY <1>1 DEF ArmedInv, Turns, ManagerCalling, BackgroundCalling, NoThread, Busy, Users

LEMMA ExchangeLine ==
    ASSUME LineInv, NEW u \in Users, Exchange(u)
    PROVE  Line'
<1>1. /\ wire \in Nat /\ input \in Nat /\ late \in Nat /\ lag \in Nat /\ delays \in Nat
      /\ DriverTypeOK
  BY SerialAssumption DEF LineInv, ArmedInv, TypeOK, DriverTypeOK
<1>2. PICK n \in Nat, most \in Nat :
        n = ResponseSize(calls[u]) /\ most = LargestResponse /\ 0 < n /\ n <= most
  BY Sizes
<1>3. delays' \in {delays, delays + 1}
  BY DEF Exchange, SerialWrite, SerialWriteFails, SerialReadFails, SerialRead
<1>4. PICK b \in Nat, c \in Nat :
        /\ b = Backlog /\ c = Backlog'
        /\ delays' = delays => c = b
        /\ delays' = delays + 1 => c = b + most
  BY <1>1, <1>2, <1>3, BacklogGrows
<1>5. \A v \in Users \ {u} : calls[v].step # "read" /\ calls'[v] = calls[v]
  BY ExchangeAlone DEF LineInv
<1>6. /\ late <= b /\ lag <= b /\ late <= input + wire
      /\ calls[u].step # "read" => input + wire <= b
      /\ calls[u].step = "read" => input + wire <= b + n
  BY <1>2, <1>4, <1>5 DEF LineInv, Line
<1>7. SUFFICES /\ late' <= c /\ lag' <= c /\ late' <= input' + wire'
               /\ calls'[u].step # "read" => input' + wire' <= c
               /\ calls'[u].step = "read" => /\ input' + wire' <= c + n
                                             /\ ResponseSize(calls'[u]) = n
  <2>1. ASSUME NEW v \in Users, calls'[v].step = "read" PROVE v = u
    BY <1>5, <2>1
  <2>2. ASSUME NEW v \in Users, calls'[v].step = "read"
        PROVE  input' + wire' <= c + ResponseSize(calls[v])'
    <3>1. v = u
      BY <2>1, <2>2
    <3>2. ResponseSize(calls[v])' = n
      BY <1>7, <2>2, <3>1 DEF ResponseSize
    <3> QED
      BY <1>7, <2>2, <3>1, <3>2
  <2>3. (\A v \in Users : calls'[v].step # "read") => input' + wire' <= c
    BY <1>7
  <2>4. late' <= Backlog' /\ lag' <= Backlog' /\ late' <= input' + wire'
    BY <1>4, <1>7
  <2>5. (\A v \in Users : calls'[v].step # "read") => input' + wire' <= Backlog'
    BY <1>4, <2>3
  <2>6. \A v \in Users : calls'[v].step = "read" =>
          input' + wire' <= Backlog' + ResponseSize(calls[v])'
    BY <1>4, <2>2
  <2> QED
    BY <2>4, <2>5, <2>6 DEF Line
<1>8. CASE SerialWrite(u)
  <2>1. calls[u].step # "read" /\ calls'[u].step = "read" /\ ResponseSize(calls'[u]) = n
    BY <1>1, <1>2, <1>8, WriteReads
  <2>2. /\ late' = input + wire /\ input' = input /\ lag' = lag /\ delays' = delays
        /\ wire' \in {wire, wire + n}
    BY <1>2, <1>8 DEF SerialWrite
  <2>3. c = b /\ input + wire <= b
    BY <1>4, <1>6, <2>1, <2>2
  <2>4. input' + wire' <= b + n /\ input + wire <= input' + wire'
    <3>1. input' = input /\ (wire' = wire \/ wire' = wire + n)
      BY <2>2
    <3>2. CASE wire' = wire
      BY <1>1, <2>3, <3>1, <3>2
    <3>3. CASE wire' = wire + n
      BY <1>1, <2>3, <3>1, <3>3
    <3> QED
      BY <3>1, <3>2, <3>3
  <2>5. lag' <= c
    BY <1>6, <2>2, <2>3
  <2> QED
    BY <2>1, <2>2, <2>3, <2>4, <2>5
<1>9. CASE SerialWriteFails(u)
  <2>1. calls[u].step # "read" /\ UNCHANGED <<late, input, wire, lag, delays>>
    BY <1>9 DEF SerialWriteFails, lineVars
  <2>2. calls'[u].step # "read"
    BY <1>1, <1>9, OthersDoNotRead
  <2> QED
    BY <1>1, <1>4, <1>6, <2>1, <2>2
<1>10. CASE SerialReadFails(u)
  <2>1. /\ calls[u].step = "read" /\ input' = 0 /\ wire' = wire /\ lag' = lag
        /\ late' = IF late < input THEN 0 ELSE late - input
        /\ IF wire = 0 THEN delays' = delays ELSE delays' = delays + 1
    BY <1>10 DEF SerialReadFails, Remainder
  <2>2. calls'[u].step # "read"
    BY <1>1, <1>10, OthersDoNotRead
  <2>3. CASE wire = 0
    BY <1>1, <1>4, <1>6, <2>1, <2>2, <2>3
  <2>4. CASE wire # 0
    <3>1. c = b + most
      BY <1>4, <2>1, <2>4
    <3> QED
      BY <1>1, <1>2, <1>6, <2>1, <2>2, <3>1
  <2> QED
    BY <2>3, <2>4
<1>11. CASE SerialRead(u)
  <2>1. /\ calls[u].step = "read" /\ input >= n /\ input' = input - n /\ wire' = wire
        /\ late' = (IF late < n THEN 0 ELSE late - n) /\ lag' = late /\ delays' = delays
    BY <1>2, <1>11 DEF SerialRead, Remainder
  <2>2. calls'[u].step # "read"
    BY <1>1, <1>11, OthersDoNotRead
  <2> QED
    BY <1>1, <1>2, <1>4, <1>6, <2>1, <2>2
<1> QED
  BY <1>8, <1>9, <1>10, <1>11 DEF Exchange

\* Steps that leave the line alone, but may call the driver.
LEMMA UntouchedLine ==
    ASSUME Line, UNCHANGED <<late, lag, input, wire, delays>>,
           \A u \in Users : /\ calls'[u].step = "read" => calls'[u] = calls[u]
                            /\ calls[u].step = "read" => calls'[u] = calls[u]
    PROVE  Line'
<1>1. Backlog' = Backlog
  BY DEF Backlog, LargestResponse
<1>2. (\A u \in Users : calls'[u].step # "read") => (\A u \in Users : calls[u].step # "read")
  OBVIOUS
<1>3. ASSUME NEW u \in Users, calls'[u].step = "read"
      PROVE  input' + wire' <= Backlog + ResponseSize(calls[u])'
  <2>1. ResponseSize(calls[u])' = ResponseSize(calls[u])
    BY <1>3 DEF ResponseSize
  <2> QED
    BY <1>3, <2>1 DEF Line
<1> QED
  BY <1>1, <1>2, <1>3 DEF Line

LEMMA EnvironmentLine ==
    ASSUME LineInv, Environment
    PROVE  Line'
<1>1. /\ UNCHANGED <<calls, lag, delays>>
      /\ wire \in Nat /\ input \in Nat /\ late \in Nat
  BY EnvironmentTyped DEF LineInv, ArmedInv, TypeOK, DriverTypeOK
<1>2. CASE Activates \/ PowerCycle
  <2>1. UNCHANGED <<late, input, wire>>
    BY <1>2 DEF Activates, PowerCycle, lineVars
  <2> QED
    BY <1>1, <2>1, UntouchedLine DEF LineInv
<1>3. CASE Arrive \/ ReplyLost
  <2>1. /\ late' <= late /\ late' <= input' + wire' /\ input' + wire' <= input + wire
        /\ input' + wire' \in Nat /\ late' \in Nat
    <3>1. CASE Arrive
      BY <1>1, <3>1 DEF Arrive, LineInv, Line
    <3>2. CASE ReplyLost
      BY <1>1, <3>2 DEF ReplyLost, Lesser
    <3> QED
      BY <1>3, <3>1, <3>2
  <2>2. PICK b \in Nat : b = Backlog /\ b = Backlog'
    <3>1. Backlog' = Backlog /\ Backlog \in Nat
      BY <1>1, BacklogGrows DEF LineInv, ArmedInv, TypeOK
    <3> QED
      BY <3>1
  <2>3. late' <= b /\ lag' <= b
    BY <1>1, <2>1, <2>2 DEF LineInv, Line
  <2>4. (\A u \in Users : calls'[u].step # "read") => input' + wire' <= b
    BY <1>1, <2>1, <2>2 DEF LineInv, Line
  <2>5. ASSUME NEW u \in Users, calls'[u].step = "read"
        PROVE  input' + wire' <= b + ResponseSize(calls[u])'
    <3>1. PICK n \in Nat : n = ResponseSize(calls[u]) /\ n = ResponseSize(calls[u])'
      BY <1>1, Sizes DEF ResponseSize
    <3>2. input + wire <= b + n
      BY <1>1, <2>2, <2>5, <3>1 DEF LineInv, Line
    <3> QED
      BY <1>1, <2>1, <3>1, <3>2
  <2> QED
    BY <2>1, <2>2, <2>3, <2>4, <2>5 DEF Line
<1> QED
  BY <1>2, <1>3 DEF Environment

LEMMA CallingLine ==
    ASSUME LineInv, CallingSteps
    PROVE  Line'
<1>1. DriverTypeOK /\ "number" \in Targets /\ writeCommand \in Targets
  BY DEF LineInv, ArmedInv, TypeOK, Targets
<1>2. PICK u \in Users, op \in {"activate", "deactivate", "set", "get"}, target \in Targets :
        Begin(u, op, target) /\ ~Busy(u)
  BY <1>1 DEF CallingSteps, Activate, ActivateAfterReset, Join, BackgroundSets,
              BackgroundResets, BackgroundActivates, BackgroundGets, BeginPlain, Users,
              LineInv, ArmedInv, Turns, ManagerCalling, BackgroundCalling, Busy, Returned
<1>3. /\ calls'[u].step = "write" /\ \A v \in Users \ {u} : calls'[v] = calls[v]
      /\ UNCHANGED <<wire, input, late, lag, delays>>
  BY <1>1, <1>2, BeginCalls
<1>4. calls[u].step # "read" /\ calls'[u].step # "read"
  BY <1>2, <1>3 DEF Busy
<1> QED
  BY <1>3, <1>4, UntouchedLine DEF LineInv

LEMMA NextLine == LineInv /\ [Next]_vars => LineInv'
<1> SUFFICES ASSUME LineInv, [Next]_vars PROVE LineInv'
  OBVIOUS
<1>1. ArmedInv'
  BY NextArmed DEF LineInv
<1>2. CASE QuietSteps \/ UNCHANGED vars
  <2>1. UNCHANGED <<calls, wire, input, late, lag, delays>>
    BY <1>2, QuietIsQuiet DEF vars, driverVars, lineVars
  <2> QED
    BY <1>1, <2>1, UntouchedLine DEF LineInv
<1>3. CASE DriverSteps
  BY <1>1, <1>3, ExchangeLine DEF DriverSteps, LineInv
<1> QED
  BY <1>1, <1>2, <1>3, NextCases, CallingLine, EnvironmentLine DEF LineInv

LEMMA InitLine == Init => LineInv
<1> SUFFICES ASSUME Init PROVE LineInv
  OBVIOUS
<1>1. /\ late = 0 /\ lag = 0 /\ input = 0 /\ wire = 0 /\ delays = 0
      /\ \A u \in Users : calls[u].step # "read"
  BY DEF Init, DriverInit
<1>2. Backlog = 0
  BY <1>1, Sizes DEF Backlog
<1> QED
  BY <1>1, <1>2, InitArmed DEF LineInv, Line

\* However many replies come late, what stands before the reply to a request is
\* at most those: nothing that is lost, cut or sent again shifts the answers.
THEOREM LagStaysBounded == Spec => []LagIsBounded
<1>1. LineInv => LagIsBounded
  BY DEF LineInv, Line, Backlog, LagIsBounded
<1> QED
  BY <1>1, InitLine, NextLine, PTL DEF Spec

-----------------------------------------------------------------------------
(* The gripper after on_deactivate().                                      *)

\* More bytes than were late in the exchange of on_deactivate() mean that its
\* request has reached the gripper.
Off ==
    /\ \A u \in Users : calls[u].op = "deactivate" => calls[u].phase = "command"
    /\ manager = "deactivate" /\ calls["manager"].step = "read" /\ late < input + wire
         => ~gripper.active
    /\ manager = "deactivate" /\ Returned("manager") /\ lag = 0 => ~gripper.active
    /\ InactiveIsOff
    /\ manager \in {"join", "deactivate"} => lifecycle = "active"
    /\ lifecycle = "unconfigured" => background = "none"

OffInv == LineInv /\ Off

\* While the manager is in on_deactivate(), and after it, nobody else calls.
LEMMA ManagerAlone ==
    ASSUME Turns, NEW u \in Users, Busy(u), NoThread
    PROVE  u = "manager" /\ ManagerCalling
BY DEF Turns, NoThread, BackgroundCalling, Users

\* The step that writes the request of on_deactivate(), and the one that
\* reads its response.
LEMMA ExchangeOff ==
    ASSUME OffInv, NEW u \in Users, Exchange(u), UNCHANGED interfaceVars
    PROVE  Off'
<1>1. /\ Turns /\ DriverTypeOK /\ gripper \in Gripper
      /\ wire \in Nat /\ input \in Nat /\ late \in Nat
      /\ calls \in [Users -> Call] /\ calls[u] \in Call
  BY DEF OffInv, LineInv, ArmedInv, TypeOK, DriverTypeOK
<1>2. UNCHANGED <<lifecycle, manager, background>>
  BY DEF interfaceVars
<1>3. /\ Busy(u) /\ calls'[u].op = calls[u].op
      /\ \A v \in Users \ {u} : calls'[v] = calls[v]
  BY <1>1, ExchangeCalls
<1>4. calls[u].op = "deactivate" => calls'[u].phase = calls[u].phase
  <2>1. CASE SerialRead(u)
    <3>1. calls[u].op = "deactivate" => calls'[u] = Over(calls[u], "returned")
      BY <1>1, <2>1 DEF SerialRead, Accept, OffInv, Off
    <3> QED
      BY <1>1, <3>1, OverCall
  <2>2. CASE ~SerialRead(u)
    <3>1. calls'[u] \in {[calls[u] EXCEPT !.step = "read"], Over(calls[u], "threw"),
                         Failed(calls[u])}
      BY <1>1, <2>2 DEF Exchange, SerialWrite, SerialWriteFails, SerialReadFails
    <3>2. /\ [calls[u] EXCEPT !.step = "read"].phase = calls[u].phase
          /\ Over(calls[u], "threw").phase = calls[u].phase
      BY <1>1, StepChanges, OverCall
    <3>3. Failed(calls[u]).phase = calls[u].phase
      BY <1>1, FailedCall
    <3> QED
      BY <3>1, <3>2, <3>3
  <2> QED
    BY <2>1, <2>2
<1>5. \A v \in Users : calls'[v].op = "deactivate" => calls'[v].phase = "command"
  BY <1>3, <1>4 DEF OffInv, Off
<1>6. InactiveIsOff'
  <2>1. background = "joined" => manager \in {"reset", "activate", "deactivate"}
    BY <1>1, <1>3, ManagerAlone DEF NoThread, ManagerCalling
  <2>2. manager = "deactivate" => lifecycle = "active"
    BY DEF OffInv, Off
  <2> QED
    BY <1>2, <2>1, <2>2 DEF InactiveIsOff
<1>7. CASE manager # "deactivate"
  BY <1>2, <1>5, <1>6, <1>7 DEF Off, OffInv
<1>8. CASE manager = "deactivate"
  <2>1. u = "manager" /\ calls[u].op = "deactivate" /\ calls[u].phase = "command"
    BY <1>1, <1>3, <1>8, ManagerAlone DEF Turns, ManagerCalling, OffInv, Off
  <2>2. CASE SerialWrite(u)
    <3>1. calls'[u].step = "read"
      BY <1>1, <2>2, WriteReads
    <3>2. Handles(calls[u]).active = FALSE
      BY <1>1, <2>1 DEF Handles, Gripper
    <3>3. late' = input' + wire' \/ gripper' = Handles(calls[u])
      BY <2>2 DEF SerialWrite
    <3>4. late' < input' + wire' => ~gripper'.active
      BY <1>1, <2>2, <3>2, <3>3 DEF SerialWrite
    <3> QED
      BY <1>2, <1>5, <1>6, <2>1, <3>1, <3>4 DEF Off, OffInv, Returned
  <2>3. CASE SerialRead(u)
    <3>1. /\ calls[u].step = "read" /\ gripper' = gripper /\ lag' = late /\ input # 0
      BY <1>1, <2>3, SerialAssumption DEF SerialRead, ResponseSize
    <3>2. calls'[u].step # "read"
      BY <1>1, <2>3, OthersDoNotRead
    <3>3. lag' = 0 => ~gripper'.active
      BY <1>1, <1>8, <2>1, <3>1 DEF OffInv, Off
    <3> QED
      BY <1>2, <1>5, <1>6, <2>1, <3>2, <3>3 DEF Off, OffInv
  <2>4. CASE SerialWriteFails(u) \/ SerialReadFails(u)
    <3>1. calls'[u] \in {Over(calls[u], "threw"), Failed(calls[u])}
      BY <1>1, <2>4 DEF SerialWriteFails, SerialReadFails
    <3>2. calls'[u].step \in {"write", "threw"}
      BY <1>1, <3>1, OverCall, FailedCall
    <3> QED
      BY <1>2, <1>5, <1>6, <2>1, <3>2 DEF Off, OffInv, Returned
  <2> QED
    BY <2>2, <2>3, <2>4 DEF Exchange
<1> QED
  BY <1>7, <1>8

LEMMA EnvironmentOff ==
    ASSUME OffInv, Environment, UNCHANGED interfaceVars
    PROVE  Off'
<1>1. /\ UNCHANGED <<calls, lag>>
      /\ gripper \in Gripper /\ wire \in Nat /\ input \in Nat /\ late \in Nat
  BY EnvironmentTyped
     DEF OffInv, LineInv, ArmedInv, TypeOK, DriverTypeOK
<1>2. UNCHANGED <<lifecycle, manager, background>>
  BY DEF interfaceVars
<1>3. ~gripper.active => ~gripper'.active
  BY <1>1 DEF Environment, Activates, PowerCycle, Arrive, ReplyLost, Gripper
<1>4. late' < input' + wire' => late < input + wire
  <2>1. CASE Activates \/ PowerCycle
    BY <2>1 DEF Activates, PowerCycle, lineVars
  <2>2. CASE Arrive
    BY <1>1, <2>2 DEF Arrive
  <2>3. CASE ReplyLost
    BY <1>1, <2>3 DEF ReplyLost, Lesser
  <2> QED
    BY <2>1, <2>2, <2>3 DEF Environment
<1> QED
  BY <1>1, <1>2, <1>3, <1>4 DEF OffInv, Off, Returned, InactiveIsOff

LEMMA CallingOff ==
    ASSUME OffInv, CallingSteps
    PROVE  Off'
<1>1. DriverTypeOK /\ "number" \in Targets /\ writeCommand \in Targets
  BY DEF OffInv, LineInv, ArmedInv, TypeOK, Targets
<1>2. PICK u \in Users, op \in {"activate", "deactivate", "set", "get"}, target \in Targets :
        /\ Begin(u, op, target)
        /\ lifecycle' = lifecycle
        /\ \/ /\ u = "manager" /\ manager' \in {"reset", "activate", "deactivate"}
              /\ manager' = "deactivate" => manager = "join"
              /\ background' = background \/ manager = "join"
           \/ /\ u = "background" /\ manager' = manager
              /\ background \notin {"none", "joined"}
  <2>1. CASE Activate
    BY <1>1, <2>1 DEF Activate, BeginPlain, Users
  <2>2. CASE ActivateAfterReset
    BY <1>1, <2>2 DEF ActivateAfterReset, BeginPlain, Users
  <2>3. CASE Join
    BY <1>1, <2>3 DEF Join, BeginPlain, Users
  <2>4. CASE BackgroundSets \/ BackgroundResets \/ BackgroundActivates \/ BackgroundGets
    BY <1>1, <2>4 DEF BackgroundSets, BackgroundResets, BackgroundActivates, BackgroundGets,
                      BeginPlain, Users
  <2> QED
    BY <2>1, <2>2, <2>3, <2>4 DEF CallingSteps
<1>3. /\ calls'[u].step = "write" /\ calls'[u].op = op
      /\ \A v \in Users \ {u} : calls'[v] = calls[v]
  BY <1>1, <1>2, BeginCalls
<1>4. op = "deactivate" => calls'[u].phase = "command"
  BY <1>1, <1>2 DEF Begin, DriverTypeOK
<1>5. \A v \in Users : calls'[v].op = "deactivate" => calls'[v].phase = "command"
  BY <1>3, <1>4 DEF OffInv, Off
<1>6. CASE u = "manager"
  BY <1>2, <1>3, <1>5, <1>6 DEF Off, OffInv, Returned, InactiveIsOff
<1>7. CASE u # "manager"
  <2>1. ~ManagerCalling /\ lifecycle = "active" /\ manager' = manager /\ lifecycle' = lifecycle
    BY <1>2, <1>7 DEF OffInv, LineInv, ArmedInv, Turns, NoThread
  <2> QED
    BY <1>5, <2>1 DEF Off, OffInv, InactiveIsOff, ManagerCalling
<1> QED
  BY <1>6, <1>7

LEMMA QuietOff ==
    ASSUME OffInv, QuietSteps
    PROVE  Off'
<1>1. UNCHANGED <<calls, gripper, input, wire, late, lag>>
  BY QuietIsQuiet DEF driverVars, lineVars
<1>2. manager' = "deactivate" => manager = "deactivate"
  BY DEF QuietSteps, Configure, StartThread, Deactivate, Deactivated, TransitionFails,
         ReadRequest, ReadClearCmd, ReadAnswer, ReadClearResponse, Update, Write,
         BackgroundEnds, BackgroundGoesOn, BackgroundSkips, BackgroundClears,
         BackgroundResponds, BackgroundStores, BackgroundCatches, ServiceWaits, ServiceAsks, ServiceAnswers
<1>3. /\ lifecycle' = "inactive" /\ background' = "joined" /\ manager' \notin {"reset", "activate"}
           => \/ lifecycle = "inactive" /\ background = "joined"
                 /\ manager \notin {"reset", "activate"}
              \/ manager = "deactivate" /\ Returned("manager")
      /\ manager' \in {"join", "deactivate"} => lifecycle' = "active"
      /\ lifecycle' = "unconfigured" => background' = "none"
  <2> USE DEF OffInv, Off
  <2>1. CASE Configure
    BY <2>1 DEF Configure
  <2>2. CASE StartThread \/ Deactivate \/ Deactivated \/ TransitionFails
    BY <2>2 DEF StartThread, Deactivate, Deactivated, TransitionFails
  <2>3. CASE ReadRequest \/ ReadClearCmd \/ ReadAnswer \/ ReadClearResponse \/ Update \/ Write
    BY <2>3 DEF ReadRequest, ReadClearCmd, ReadAnswer, ReadClearResponse, Update, Write
  <2>4. CASE \/ BackgroundEnds \/ BackgroundGoesOn \/ BackgroundSkips \/ BackgroundClears
             \/ BackgroundResponds \/ BackgroundStores \/ BackgroundCatches
    <3>1. /\ background' # "joined" /\ background \notin {"none", "joined"}
          /\ UNCHANGED <<manager, lifecycle>>
      BY <2>4 DEF BackgroundEnds, BackgroundGoesOn, BackgroundSkips, BackgroundClears,
                  BackgroundResponds, BackgroundStores, BackgroundCatches
    <3> QED
      BY <3>1
  <2>5. CASE ServiceWaits \/ ServiceAsks \/ ServiceAnswers
    BY <2>5 DEF ServiceWaits, ServiceAsks, ServiceAnswers
  <2> QED
    BY <2>1, <2>2, <2>3, <2>4, <2>5 DEF QuietSteps
<1> QED
  BY <1>1, <1>2, <1>3 DEF OffInv, Off, Returned, InactiveIsOff

LEMMA NextOff == OffInv /\ [Next]_vars => OffInv'
<1> SUFFICES ASSUME OffInv, [Next]_vars PROVE OffInv'
  OBVIOUS
<1>1. LineInv'
  BY NextLine DEF OffInv
<1>2. CASE UNCHANGED vars
  BY <1>1, <1>2 DEF OffInv, Off, Returned, InactiveIsOff, vars, driverVars, lineVars
<1>3. CASE DriverSteps
  BY <1>1, <1>3, ExchangeOff DEF DriverSteps, OffInv
<1> QED
  BY <1>1, <1>2, <1>3, NextCases, QuietOff, CallingOff, EnvironmentOff DEF OffInv

\* Unless a late reply stood before the one it took, the gripper is not active
\* after on_deactivate(), whatever the thread was doing and whatever was lost.
THEOREM InactiveGripperIsOff == Spec => []InactiveIsOff
<1>1. Init => OffInv
  <2> SUFFICES ASSUME Init PROVE OffInv
    OBVIOUS
  <2>1. /\ background = "none" /\ manager = "idle" /\ lifecycle = "unconfigured"
        /\ \A u \in Users : calls[u].op = "get"
    BY DEF Init, DriverInit
  <2> QED
    BY <2>1, InitLine DEF OffInv, Off, InactiveIsOff
<1>2. OffInv => InactiveIsOff
  BY DEF OffInv, Off
<1> QED
  BY <1>1, <1>2, NextOff, PTL DEF Spec
=============================================================================
