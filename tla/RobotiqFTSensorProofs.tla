------------------------ MODULE RobotiqFTSensorProofs ------------------------
(***************************************************************************)
(* Theorems about RobotiqFTSensor, for every value of its constants.       *)
(***************************************************************************)
EXTENDS RobotiqFTSensor, TLAPS

\* The parts of the driver that a pc belongs to are those of one state; an inactive
\* component runs nothing.
Located ==
    /\ lifecycle = "inactive" => thread = "none" /\ pc = "idle"
    /\ pc \in {"boot", "jam", "stop", "firmware", "failed"} => state = "INIT"
    /\ pc = "await" => state = "START_STREAM"

\* A plug-in takes an unplugging before it.
Typed ==
    /\ TypeOK
    /\ Located
    /\ plug <= faults + (IF plugged THEN 1 ELSE 0)

\* What is left of the silence that watchdog and retries allow.
Spent == IF validStream THEN validTimer ELSE ValidMax + 1 + retries

\* A host in RQ_STATE_RUN has been silent for no longer than the watchdog and the
\* retries have counted.
Counted ==
    /\ silent > 0 => lifecycle # "activating" /\ (state = "RUN" \/ pc = "returned")
    /\ validStream /\ validTimer = 0 /\ ~newMessage => state = "RUN" /\ pc # "returned"
    /\ state = "RUN" /\ pc \in {"idle", "machine"} => silent <= Spent
    /\ state = "RUN" /\ pc = "returned" /\ ~newMessage => silent < Spent
    /\ silent <= MaxSilence

\* Once the process shuts down, a callback can only come back from its wait.
Returning ==
    ~running /\ lifecycle # "activating" =>
        pc \in {"idle", "failed"} \/ (pc = "returned" /\ state = "INIT")

\* Where a call in progress may have decoded something.
Begun ==
    /\ pc = "idle" \/ (pc = "machine" /\ state # "INIT") => ~fresh
    /\ pc = "returned" /\ state = "INIT" /\ lifecycle # "activating" /\ running => ~fresh

\* A message that waits is of the call in progress, unless nothing was handed out
\* yet, or nothing will be.
Waiting ==
    /\ lifecycle = "activating" \/ state \in {"READ_INFO", "START_STREAM"} => first
    /\ newMessage => fresh \/ first \/ (~running /\ lifecycle # "activating")

\* The listen that decodes a message takes the request for a zero down first.
Zeroed == fresh => ~zeroFlag

\* What the properties of the readings rest on.
Decoded == Returning /\ Begun /\ Waiting /\ Zeroed

-----------------------------------------------------------------------------
(* Type correctness.                                                       *)

\* A listen keeps the types, and a timer goes up to one past its maximum.
LEMMA ListenType ==
    ASSUME Typed, NEW what, Listen(what)
    PROVE  /\ streamDetected' \in BOOLEAN /\ validStream' \in BOOLEAN /\ newMessage' \in BOOLEAN
           /\ zeroFlag' \in BOOLEAN /\ fresh' \in BOOLEAN
           /\ detectionTimer' \in 0..(DetectionMax + 1) /\ validTimer' \in 0..(ValidMax + 1)
           /\ data' \in Plugs
<1>1. Tick(detectionTimer, DetectionMax) \in 0..(DetectionMax + 1)
  BY SensorAssumption DEF Tick, Typed, TypeOK
<1>2. Tick(validTimer, ValidMax) \in 0..(ValidMax + 1)
  BY SensorAssumption DEF Tick, Typed, TypeOK
<1>3. 0 \in 0..(DetectionMax + 1) /\ 0 \in 0..(ValidMax + 1)
  BY SensorAssumption
<1>4. detectionTimer' \in 0..(DetectionMax + 1) /\ validTimer' \in 0..(ValidMax + 1)
  BY <1>1, <1>2, <1>3 DEF Listen
<1> QED
  BY <1>4 DEF Listen, Typed, TypeOK

LEMMA InitTyped == Init => Typed
<1> SUFFICES ASSUME Init PROVE Typed
  OBVIOUS
<1>1. {fd, data, buffer, plug} \subseteq Plugs /\ faults \in 0..MaxFaults
  BY SensorAssumption DEF Init, Plugs
<1>2. /\ listens \in 0..BootListens /\ retries \in 0..(MaxRetries - 1)
      /\ detectionTimer \in 0..(DetectionMax + 1) /\ validTimer \in 0..(ValidMax + 1)
      /\ silent \in 0..(MaxSilence + 1) /\ calls \in 0..3
  BY SensorAssumption DEF Init, MaxSilence
<1>3. plug <= faults + (IF plugged THEN 1 ELSE 0)
  BY DEF Init
<1>4. /\ sensor \in {"command", "stream", "stopping"} /\ state \in States
      /\ zeroFlag \in BOOLEAN /\ newMessage \in BOOLEAN /\ plugged \in BOOLEAN
      /\ pc = "idle" /\ lifecycle = "inactive" /\ thread = "none"
  BY DEF Init, States
<1> QED
  BY <1>1, <1>2, <1>3, <1>4 DEF Init, Typed, TypeOK, Located

LEMMA NextTyped == Typed /\ [Next]_vars => Typed'
<1> SUFFICES ASSUME Typed, [Next]_vars PROVE Typed'
  OBVIOUS
<1> USE DEF hostVars, comVars, sensorVars, outVars
<1>1. CASE PlugIn
  BY <1>1, SensorAssumption DEF PlugIn, Typed, TypeOK, Located, Plugs
<1>2. CASE Unplug
  <2>1. plugged' \in BOOLEAN
    BY <1>2 DEF Unplug
  <2>2. plug' <= faults' + (IF plugged' THEN 1 ELSE 0)
    BY <1>2, SensorAssumption DEF Unplug, Typed, TypeOK
  <2> QED
    BY <1>2, <2>1, <2>2, SensorAssumption DEF Unplug, Typed, TypeOK, Located
<1>3. CASE SensorResets
  BY <1>3, SensorAssumption DEF SensorResets, Typed, TypeOK, Located, Plugs
<1>4. CASE SensorStops
  BY <1>4 DEF SensorStops, Typed, TypeOK, Located
<1>5. ASSUME NEW what \in Heard, BootListen(what) PROVE Typed'
  <2>1. listens' \in 0..BootListens
    BY <1>5, SensorAssumption DEF BootListen, Typed, TypeOK
  <2> QED
    BY <1>5, <2>1, ListenType DEF BootListen, Typed, TypeOK, Located
<1>6. ASSUME NEW what \in Heard, BootLastListen(what) PROVE Typed'
  <2>1. listens' \in 0..BootListens
    BY <1>6, SensorAssumption DEF BootLastListen
  <2> QED
    BY <1>6, <2>1, ListenType DEF BootLastListen, Typed, TypeOK, Located
<1>7. ASSUME NEW what \in Heard, StopListen(what) PROVE Typed'
  BY <1>7, ListenType DEF StopListen, Typed, TypeOK, Located
<1>8. ASSUME NEW what \in Heard, AwaitStream(what) PROVE Typed'
  BY <1>8, ListenType DEF AwaitStream, Typed, TypeOK, Located, States
<1>9. ASSUME NEW what \in Heard, Run(what) PROVE Typed'
  <2>1. retries' \in 0..(MaxRetries - 1)
    BY <1>9, SensorAssumption DEF Run, Typed, TypeOK
  <2> QED
    BY <1>9, <2>1, ListenType DEF Run, In, Typed, TypeOK, Located, States
<1>10. CASE OpenPort
  BY <1>10 DEF OpenPort, In, Typed, TypeOK, Located
<1>11. CASE OpenPortFails
  BY <1>11, SensorAssumption DEF OpenPortFails, In, Typed, TypeOK, Located, Plugs
<1>12. CASE Jam
  BY <1>12 DEF Jam, Typed, TypeOK, Located
<1>13. CASE FirmwareAnswered
  BY <1>13 DEF FirmwareAnswered, Typed, TypeOK, Located, States
<1>14. CASE FirmwareNotAnswered
  BY <1>14, SensorAssumption DEF FirmwareNotAnswered, Typed, TypeOK, Located, Plugs
<1>15. CASE ReadInfo
  BY <1>15 DEF ReadInfo, In, Typed, TypeOK, Located, States
<1>16. CASE StartStream
  BY <1>16 DEF StartStream, In, Typed, TypeOK, Located, States
<1>17. CASE Wait
  BY <1>17 DEF Wait, Typed, TypeOK, Located
<1>18. CASE Activate
  BY <1>18, SensorAssumption DEF Activate, Typed, TypeOK, Located, MaxSilence
<1>19. CASE NextCall
  <2>1. fresh' \in BOOLEAN
    BY <1>19 DEF NextCall
  <2> QED
    BY <1>19, <2>1 DEF NextCall, Typed, TypeOK, Located
<1>20. CASE Activated
  <2>1. fresh' \in BOOLEAN
    BY <1>20 DEF Activated
  <2> QED
    BY <1>20, <2>1, SensorAssumption DEF Activated, Typed, TypeOK, Located, Plugs
<1>21. CASE Initialized
  <2>1. fresh' \in BOOLEAN
    BY <1>21 DEF Initialized
  <2> QED
    BY <1>21, <2>1 DEF Initialized, Typed, TypeOK, Located
<1>22. CASE SpinBegins
  BY <1>22 DEF SpinBegins, Typed, TypeOK, Located
<1>23. CASE Callback
  BY <1>23 DEF Callback, Typed, TypeOK, Located
<1>24. CASE HandOver
  <2>1. silent' \in 0..(MaxSilence + 1)
    BY <1>24, SensorAssumption DEF HandOver, Typed, TypeOK, MaxSilence
  <2>2. fresh' \in BOOLEAN /\ first' \in BOOLEAN /\ newMessage' \in BOOLEAN
    BY <1>24 DEF HandOver, GotNewMessage, Typed, TypeOK
  <2> QED
    BY <1>24, <2>1, <2>2 DEF HandOver, Typed, TypeOK, Located
<1>25. CASE SetZero
  BY <1>25 DEF SetZero, Typed, TypeOK, Located
<1>26. CASE ReceiverCallback
  <2>1. zeroFlag' \in BOOLEAN
    BY <1>26 DEF ReceiverCallback, GetCommand, Typed, TypeOK
  <2> QED
    BY <1>26, <2>1 DEF ReceiverCallback, Typed, TypeOK, Located
<1>27. CASE Deactivate
  BY <1>27 DEF Deactivate, Typed, TypeOK, Located
<1>28. CASE Join
  BY <1>28 DEF Join, Typed, TypeOK, Located
<1>29. CASE Shutdown
  <2>1. running' \in BOOLEAN
    BY <1>29 DEF Shutdown
  <2> QED
    BY <1>29, <2>1 DEF Shutdown, Typed, TypeOK, Located
<1>30. CASE UNCHANGED vars
  BY <1>30 DEF vars, Typed, TypeOK, Located
<1> QED
  BY <1>1, <1>2, <1>3, <1>4, <1>5, <1>6, <1>7, <1>8, <1>9, <1>10, <1>11, <1>12, <1>13, <1>14,
     <1>15, <1>16, <1>17, <1>18, <1>19, <1>20, <1>21, <1>22, <1>23, <1>24, <1>25, <1>26, <1>27,
     <1>28, <1>29, <1>30 DEF Next

\* The variables keep their types; in particular no plug-in is counted that the
\* bound on faults does not leave room for.
THEOREM TypeCorrect == Spec => []TypeOK
<1>1. Typed => TypeOK
  BY DEF Typed
<1> QED
  BY <1>1, InitTyped, NextTyped, PTL DEF Spec

-----------------------------------------------------------------------------
(* The silence of a callback in RQ_STATE_RUN.                              *)

LEMMA InitCounted == Init => Counted
BY SensorAssumption DEF Init, Counted, MaxSilence

\* A listen without a message counts: the watchdog runs on, or it has run out.
LEMMA ListenCounts ==
    ASSUME Typed, NEW what, Listen(what)
    PROVE  /\ newMessage => newMessage'
           /\ what = "message" => newMessage' /\ validStream'
           /\ what # "message" /\ validStream' => validTimer' = validTimer + 1 /\ validStream
           /\ what # "message" /\ validStream /\ ~validStream' => validTimer = ValidMax + 1
<1>1. /\ newMessage => newMessage'
      /\ what = "message" => newMessage' /\ validStream'
      /\ what # "message" => (validStream' <=> validStream /\ validTimer <= ValidMax)
      /\ what # "message" => validTimer' = Tick(validTimer, ValidMax)
  BY DEF Listen
<1>2. validTimer \in 0..(ValidMax + 1) /\ ValidMax \in Nat
  BY SensorAssumption DEF Typed, TypeOK
<1> QED
  BY <1>1, <1>2 DEF Tick

\* A listen outside RQ_STATE_RUN, where nothing has been silent.
LEMMA ListenElsewhere ==
    ASSUME Typed, Counted, NEW what, Listen(what), UNCHANGED <<lifecycle, silent, retries>>,
           state # "RUN", pc # "returned"
    PROVE  Counted'
<1>1. silent = 0 /\ silent' = 0
  BY DEF Counted, Typed, TypeOK, MaxSilence
<1>2. validStream' /\ validTimer' = 0 => newMessage'
  BY ListenCounts DEF Typed, TypeOK
<1>3. validTimer' \in 0..(ValidMax + 1) /\ retries' \in Nat /\ ValidMax \in Nat
  BY ListenType, SensorAssumption DEF Typed, TypeOK
<1>4. 0 <= Spent' /\ (~newMessage' => 0 < Spent')
  BY <1>2, <1>3 DEF Spent
<1>5. 0 <= MaxSilence
  BY SensorAssumption DEF MaxSilence
<1> QED
  BY <1>1, <1>2, <1>4, <1>5 DEF Counted, MaxSilence

LEMMA RunCounted ==
    ASSUME Typed, Counted, NEW what, Run(what)
    PROVE  Counted'
<1>1. /\ Listen(what) /\ state = "RUN" /\ pc = "machine" /\ pc' = "returned"
      /\ UNCHANGED <<lifecycle, silent>>
      /\ ~validStream' /\ retries + 1 < MaxRetries => retries' = retries + 1 /\ state' = state
      /\ ~validStream' /\ retries + 1 >= MaxRetries => state' = "INIT"
  BY SensorAssumption DEF Run, In, outVars, hostVars, Typed, TypeOK
<1>2. silent \in Nat /\ silent <= Spent /\ silent <= MaxSilence
      /\ (silent > 0 => lifecycle # "activating")
  BY <1>1, SensorAssumption DEF Counted, Typed, TypeOK, MaxSilence
<1>3. retries \in Nat /\ validTimer \in 0..(ValidMax + 1) /\ ValidMax \in Nat
  BY SensorAssumption DEF Typed, TypeOK
<1>4. validStream' /\ validTimer' = 0 => newMessage'
  BY <1>1, <1>3, ListenCounts
<1>5. ASSUME state' = "RUN", ~newMessage' PROVE silent' < Spent'
  <2>1. what # "message"
    BY <1>1, <1>5, ListenCounts
  <2>2. CASE validStream'
    BY <1>1, <1>2, <1>3, <2>1, <2>2, ListenCounts DEF Spent
  <2>3. CASE ~validStream'
    <3>1. retries' = retries + 1
      BY <1>1, <1>3, <1>5, <2>3, SensorAssumption
    <3>2. silent <= ValidMax + 1 + retries
      BY <1>1, <1>2, <1>3, <2>1, <2>3, ListenCounts DEF Spent
    <3> QED
      BY <1>1, <1>2, <1>3, <2>3, <3>1, <3>2 DEF Spent
  <2> QED
    BY <2>2, <2>3
<1> QED
  BY <1>1, <1>2, <1>4, <1>5 DEF Counted, MaxSilence

\* A callback that hands out nothing adds one to the silence, and there is room.
LEMMA HandOverCounted ==
    ASSUME Typed, Counted, HandOver
    PROVE  Counted'
<1>1. /\ pc = "returned" /\ pc' = "idle" /\ lifecycle # "activating"
      /\ UNCHANGED <<lifecycle, state, retries, validStream, validTimer>>
  BY DEF HandOver, hostVars
<1>2. /\ silent \in Nat /\ retries \in 0..(MaxRetries - 1) /\ validTimer \in 0..(ValidMax + 1)
      /\ ValidMax \in Nat /\ MaxRetries \in Nat /\ silent <= MaxSilence
  BY SensorAssumption DEF Typed, TypeOK, Counted, MaxSilence
<1>3. Spent \in Nat /\ Spent <= MaxSilence /\ Spent' = Spent /\ MaxSilence \in Nat
  BY <1>1, <1>2 DEF Spent, MaxSilence
<1>4. CASE state = "RUN" /\ newMessage
  <2>1. silent' = 0
    BY <1>4 DEF HandOver
  <2> QED
    BY <1>1, <1>3, <1>4, <2>1 DEF Counted, MaxSilence
<1>5. CASE state = "RUN" /\ ~newMessage
  <2>1. silent < Spent /\ silent' = silent + 1
    BY <1>1, <1>2, <1>3, <1>5 DEF HandOver, GotNewMessage, Counted, MaxSilence
  <2> QED
    BY <1>1, <1>2, <1>3, <1>5, <2>1 DEF Counted, MaxSilence
<1>6. CASE state # "RUN"
  <2>1. silent' = 0 /\ newMessage' = newMessage
    BY <1>6 DEF HandOver
  <2> QED
    BY <1>1, <1>3, <1>6, <2>1 DEF Counted, MaxSilence
<1> QED
  BY <1>4, <1>5, <1>6

LEMMA NextCounted == Typed /\ Counted /\ [Next]_vars => Counted'
<1> SUFFICES ASSUME Typed, Counted, [Next]_vars PROVE Counted'
  OBVIOUS
<1> USE DEF hostVars, comVars, sensorVars, outVars
<1>1. CASE PlugIn \/ Unplug \/ SensorResets \/ SensorStops
  BY <1>1 DEF PlugIn, Unplug, SensorResets, SensorStops, Counted, Spent, MaxSilence
<1>2. ASSUME NEW what \in Heard, BootListen(what) \/ BootLastListen(what) \/ StopListen(what)
      PROVE  Counted'
  BY <1>2, ListenElsewhere DEF BootListen, BootLastListen, StopListen, Typed, Located
<1>3. ASSUME NEW what \in Heard, AwaitStream(what) PROVE Counted'
  BY <1>3, ListenElsewhere DEF AwaitStream, Typed, Located
<1>4. ASSUME NEW what \in Heard, Run(what) PROVE Counted'
  BY <1>4, RunCounted
<1>5. CASE OpenPort \/ OpenPortFails \/ Jam \/ FirmwareAnswered \/ FirmwareNotAnswered
  BY <1>5 DEF OpenPort, OpenPortFails, Jam, FirmwareAnswered, FirmwareNotAnswered, In, Counted,
              Spent, MaxSilence, Typed, Located
<1>6. CASE ReadInfo \/ Wait
  BY <1>6 DEF ReadInfo, Wait, In, Counted, Spent, MaxSilence, Typed, Located
<1>7. CASE StartStream
  <2>1. silent = 0 /\ (validStream /\ validTimer = 0 => newMessage)
    BY <1>7, SensorAssumption DEF StartStream, In, Counted, Typed, TypeOK, MaxSilence
  <2>2. validTimer \in Nat /\ retries \in Nat /\ ValidMax \in Nat
    BY SensorAssumption DEF Typed, TypeOK
  <2>3. 0 <= Spent /\ (~newMessage => 0 < Spent)
    BY <2>1, <2>2 DEF Spent
  <2> QED
    BY <1>7, <2>1, <2>3 DEF StartStream, In, Counted, Spent, MaxSilence
<1>8. CASE Activate
  <2>1. Spent' = Spent /\ 0 <= Spent /\ 0 <= MaxSilence
    BY <1>8, SensorAssumption DEF Activate, Spent, Typed, TypeOK, MaxSilence
  <2> QED
    BY <1>8, <2>1, SensorAssumption DEF Activate, Counted, Spent, MaxSilence
<1>9. CASE NextCall \/ Activated \/ Initialized
  <2>1. silent = 0 /\ 0 <= Spent
    BY <1>9, SensorAssumption
       DEF NextCall, Activated, Initialized, Counted, Spent, Typed, TypeOK, MaxSilence
  <2> QED
    BY <1>9, <2>1 DEF NextCall, Activated, Initialized, Counted, Spent, MaxSilence
<1>10. CASE SpinBegins \/ Callback \/ SetZero \/ ReceiverCallback \/ Shutdown
  BY <1>10 DEF SpinBegins, Callback, SetZero, ReceiverCallback, Shutdown, Counted, Spent, MaxSilence
<1>11. CASE HandOver
  BY <1>11, HandOverCounted
<1>12. CASE Deactivate \/ Join
  BY <1>12 DEF Deactivate, Join, Counted, Spent, MaxSilence
<1>13. CASE UNCHANGED vars
  BY <1>13 DEF vars, Counted, Spent, MaxSilence
<1> QED
  BY <1>1, <1>2, <1>3, <1>4, <1>5, <1>6, <1>7, <1>8, <1>9, <1>10, <1>11, <1>12, <1>13 DEF Next

\* The driver leaves RQ_STATE_RUN before the callbacks have been silent for longer
\* than the watchdog and the retries allow.
THEOREM SilenceStaysBounded == Spec => []SilenceIsBounded
<1>1. Typed /\ Counted => SilenceIsBounded
  BY DEF Counted, SilenceIsBounded
<1> QED
  BY <1>1, InitTyped, NextTyped, InitCounted, NextCounted, PTL DEF Spec

-----------------------------------------------------------------------------
(* The readings handed out.                                                *)

LEMMA InitDecoded == Init => Decoded
BY DEF Init, Decoded, Returning, Begun, Waiting, Zeroed

\* What a listen does to a message that waits.
LEMMA ListenDecodes ==
    ASSUME Decoded, NEW what, Listen(what)
    PROVE  /\ newMessage' => fresh' \/ newMessage
           /\ fresh => fresh'
           /\ fresh' => fresh \/ what = "message"
           /\ ~zeroFlag'
BY DEF Listen

\* A listen that leads nowhere else than to the pc's of its own state, or back.
LEMMA ListenKeeps ==
    ASSUME Typed, Decoded, NEW what, Listen(what), pc # "idle", pc # "returned", pc # "failed",
           UNCHANGED <<running, lifecycle, first>>,
           pc' \notin {"idle", "machine"},
           pc' = "returned" => state' # "INIT",
           state' \in {"READ_INFO", "START_STREAM"} => first
    PROVE  Decoded'
<1>1. running \/ lifecycle = "activating"
  BY DEF Decoded, Returning
<1>2. Returning'
  BY <1>1 DEF Returning
<1>3. Begun'
  BY DEF Begun
<1>4. newMessage' => fresh' \/ first \/ (~running /\ lifecycle # "activating")
  BY ListenDecodes DEF Decoded, Waiting
<1>5. Waiting'
  BY <1>4 DEF Decoded, Waiting
<1>6. Zeroed'
  BY ListenDecodes DEF Zeroed
<1> QED
  BY <1>2, <1>3, <1>5, <1>6 DEF Decoded

LEMMA RunDecoded ==
    ASSUME Typed, Decoded, NEW what, Run(what)
    PROVE  Decoded'
<1>1. /\ Listen(what) /\ pc = "machine" /\ state = "RUN" /\ pc' = "returned"
      /\ state' \in {"RUN", "INIT"} /\ UNCHANGED <<running, lifecycle, first>>
      /\ state' = "INIT" => ~validStream'
  BY DEF Run, In, hostVars, outVars
<1>2. running \/ lifecycle = "activating"
  BY <1>1 DEF Decoded, Returning
<1>3. ~fresh
  BY <1>1 DEF Decoded, Begun
<1>4. state' = "INIT" => ~fresh'
  BY <1>1, <1>3, ListenDecodes, ListenCounts
<1>5. Returning' /\ Begun'
  BY <1>1, <1>2, <1>4 DEF Returning, Begun
<1>6. newMessage' => fresh' \/ first \/ (~running /\ lifecycle # "activating")
  BY <1>1, ListenDecodes DEF Decoded, Waiting
<1>7. Waiting'
  BY <1>1, <1>6 DEF Decoded, Waiting
<1>8. Zeroed'
  BY <1>1, ListenDecodes DEF Zeroed
<1> QED
  BY <1>5, <1>7, <1>8 DEF Decoded

LEMMA HandOverDecoded ==
    ASSUME Typed, Decoded, HandOver
    PROVE  Decoded'
<1>1. /\ pc = "returned" /\ pc' = "idle" /\ lifecycle # "activating" /\ ~fresh'
      /\ UNCHANGED <<lifecycle, running, state>>
  BY DEF HandOver, hostVars
<1>2. Returning' /\ Begun' /\ Zeroed'
  BY <1>1 DEF Returning, Begun, Zeroed
<1>3. CASE state = "RUN" /\ newMessage
  <2>1. ~newMessage'
    BY <1>3 DEF HandOver, GotNewMessage
  <2> QED
    BY <1>1, <1>2, <1>3, <2>1 DEF Decoded, Waiting
<1>4. CASE state = "RUN" /\ ~newMessage
  <2>1. ~newMessage'
    BY <1>4 DEF HandOver, GotNewMessage
  <2> QED
    BY <1>1, <1>2, <1>4, <2>1 DEF Decoded, Waiting
<1>5. CASE state # "RUN"
  <2>1. newMessage' = newMessage /\ first' = first
    BY <1>5 DEF HandOver
  <2>2. fresh => first \/ ~running
    <3>1. CASE state = "INIT"
      BY <1>1, <3>1 DEF Decoded, Begun
    <3>2. CASE state \in {"READ_INFO", "START_STREAM"}
      BY <3>2 DEF Decoded, Waiting
    <3> QED
      BY <1>5, <3>1, <3>2 DEF Typed, TypeOK, States
  <2> QED
    BY <1>1, <1>2, <2>1, <2>2 DEF Decoded, Waiting
<1> QED
  BY <1>3, <1>4, <1>5

LEMMA NextDecoded == Typed /\ Decoded /\ [Next]_vars => Decoded'
<1> SUFFICES ASSUME Typed, Decoded, [Next]_vars PROVE Decoded'
  OBVIOUS
<1> USE DEF hostVars, comVars, sensorVars, outVars
<1>1. CASE PlugIn \/ Unplug \/ SensorResets \/ SensorStops
  BY <1>1 DEF PlugIn, Unplug, SensorResets, SensorStops, Decoded, Returning, Begun, Waiting, Zeroed
<1>2. ASSUME NEW what \in Heard, BootListen(what) \/ BootLastListen(what) \/ StopListen(what)
      PROVE  Decoded'
  BY <1>2, ListenKeeps DEF BootListen, BootLastListen, StopListen, Typed, Located
<1>3. ASSUME NEW what \in Heard, AwaitStream(what) PROVE Decoded'
  <2>1. state = "START_STREAM" /\ first
    BY <1>3 DEF AwaitStream, Typed, Located, Decoded, Waiting
  <2> QED
    BY <1>3, <2>1, ListenKeeps DEF AwaitStream
<1>4. ASSUME NEW what \in Heard, Run(what) PROVE Decoded'
  BY <1>4, RunDecoded
<1>5. CASE OpenPort \/ OpenPortFails \/ Jam \/ FirmwareAnswered \/ FirmwareNotAnswered
  BY <1>5 DEF OpenPort, OpenPortFails, Jam, FirmwareAnswered, FirmwareNotAnswered, In,
              Typed, Located, Decoded, Returning, Begun, Waiting, Zeroed
<1>6. CASE ReadInfo \/ StartStream
  BY <1>6 DEF ReadInfo, StartStream, In, Decoded, Returning, Begun, Waiting, Zeroed
<1>7. CASE Wait
  BY <1>7 DEF Wait, Typed, Located, Decoded, Returning, Begun, Waiting, Zeroed
<1>8. CASE Activate
  <2>1. first' /\ fresh' = fresh /\ zeroFlag' = zeroFlag /\ lifecycle' = "activating"
    BY <1>8 DEF Activate
  <2>2. ~fresh
    BY <1>8 DEF Activate, Typed, Located, Decoded, Begun
  <2> QED
    BY <2>1, <2>2 DEF Decoded, Returning, Begun, Waiting, Zeroed
<1>9. CASE NextCall \/ Activated \/ Initialized
  <2>1. first /\ ~fresh' /\ first' = first
    BY <1>9 DEF NextCall, Activated, Initialized, Decoded, Waiting
  <2> QED
    BY <1>9, <2>1 DEF NextCall, Activated, Initialized, Decoded, Returning, Begun, Waiting, Zeroed
<1>10. CASE Callback \/ SpinBegins
  BY <1>10 DEF Callback, SpinBegins, Decoded, Returning, Begun, Waiting, Zeroed
<1>11. CASE HandOver
  BY <1>11, HandOverDecoded
<1>12. CASE SetZero \/ ReceiverCallback
  BY <1>12 DEF SetZero, ReceiverCallback, Decoded, Returning, Begun, Waiting, Zeroed
<1>13. CASE Deactivate \/ Join
  BY <1>13 DEF Deactivate, Join, Decoded, Returning, Begun, Waiting, Zeroed
<1>14. CASE Shutdown
  <2>1. ~running' /\ running /\ pc' = pc /\ (pc = "idle" \/ pc = "failed")
    BY <1>14 DEF Shutdown
  <2>2. newMessage => fresh \/ first \/ lifecycle # "activating"
    BY DEF Decoded, Waiting
  <2> QED
    BY <1>14, <2>1, <2>2 DEF Shutdown, Decoded, Returning, Begun, Waiting, Zeroed
<1>15. CASE UNCHANGED vars
  BY <1>15 DEF vars, Decoded, Returning, Begun, Waiting, Zeroed
<1> QED
  BY <1>1, <1>2, <1>3, <1>4, <1>5, <1>6, <1>7, <1>8, <1>9, <1>10, <1>11, <1>12, <1>13, <1>14,
     <1>15 DEF Next

\* Handing out a reading takes a message.
LEMMA HandingOut ==
    ASSUME Typed, [Next]_vars, HandsOut
    PROVE  newMessage
<1>1. HandOver
  BY DEF HandsOut, Next, vars, PlugIn, Unplug, SensorResets, SensorStops, BootListen,
         BootLastListen, StopListen, AwaitStream, Run, In, OpenPort, OpenPortFails, Jam,
         FirmwareAnswered, FirmwareNotAnswered, ReadInfo, StartStream, Wait, Activate, NextCall,
         Activated, Initialized, SpinBegins, Callback, SetZero, ReceiverCallback, Deactivate,
         Join, Shutdown
<1>2. silent \in Nat
  BY SensorAssumption DEF Typed, TypeOK, MaxSilence
<1>3. silent > MaxSilence => silent # 0
  BY <1>2, SensorAssumption DEF MaxSilence
<1> QED
  BY <1>1, <1>2, <1>3 DEF HandsOut, HandOver, GotNewMessage

\* What is handed out was decoded in the same callback, except for the first
\* reading after a connection or an activation.
THEOREM LateReadingsAreFirst == Spec => LateOnlyFirst
<1>1. Typed /\ Decoded /\ [Next]_vars => [HandsOut => fresh \/ first]_vars
  <2> SUFFICES ASSUME Typed, Decoded, [Next]_vars, HandsOut PROVE fresh \/ first
    OBVIOUS
  <2>1. newMessage /\ pc = "returned" /\ state = "RUN" /\ lifecycle # "activating"
    BY HandingOut DEF HandsOut
  <2>2. running
    BY <2>1 DEF Decoded, Returning
  <2> QED
    BY <2>1, <2>2 DEF Decoded, Waiting
<1> QED
  BY <1>1, InitTyped, NextTyped, InitDecoded, NextDecoded, PTL DEF Spec, LateOnlyFirst

\* Nothing decoded after a request for a zero is handed out without it.
THEOREM ZeroesAreInForce == Spec => ZeroInForce
<1>1. Decoded => [HandsOut /\ fresh => ~zeroFlag]_vars
  BY DEF Decoded, Zeroed
<1> QED
  BY <1>1, InitTyped, NextTyped, InitDecoded, NextDecoded, PTL DEF Spec, ZeroInForce
=============================================================================
