----------------------- MODULE SimulatedGripperProofs -----------------------
(***************************************************************************)
(* Theorems about SimulatedGripper, for every value of its constants: any  *)
(* commands, curves, restarts and losses.                                  *)
(***************************************************************************)
EXTENDS SimulatedGripper, FiniteSetTheorems, TLAPS

Positions == [Axes -> Int]

SimStatus == [lastId : Int, mode : Nat, activated : BOOLEAN, goTo : BOOLEAN, stopped : BOOLEAN,
              actual : Positions]

\* The command is one that was sent under its identifier.
WasSent(c) == c.id \in DOMAIN sent /\ sent[c.id] = c

Typed ==
    /\ sent \in Seq(Shape)
    /\ commandTopic \in Seq(Shape)
    /\ status \in SimStatus /\ reported \in SimStatus
    /\ actual \in Positions /\ target \in Positions /\ speeds \in Positions

\* While the gripper follows a motion, its target is what the command it names asked
\* for.
FollowsCommand ==
    status.activated /\ status.goTo =>
        /\ status.lastId \in DOMAIN sent
        /\ \A axis \in Axes : target[axis] = Grain * Asked(sent[status.lastId])[axis]

ReportsCommand ==
    reported.activated /\ reported.goTo => reported.lastId \in DOMAIN sent

Settles ==
    /\ Typed
    /\ \A i \in DOMAIN commandTopic : WasSent(commandTopic[i])
    /\ FollowsCommand
    /\ ReportsCommand
    /\ SettledIsAsked

-----------------------------------------------------------------------------
(* What a command asks for.                                                *)

LEMMA AskedType ==
    ASSUME NEW c \in Shape
    PROVE  /\ Asked(c) = [axis \in Axes |-> Asked(c)[axis]]
           /\ \A axis \in Axes : Asked(c)[axis] \in 0..MaxRaw
<1>1. ModeScissor(c.mode) \in 0..MaxRaw
  BY RegisterAssumption DEF ModeScissor
<1>2. /\ c.a \in 0..MaxRaw /\ c.b \in 0..MaxRaw /\ c.scissor \in 0..MaxRaw
      /\ Rest \in 0..MaxRaw
  BY RegisterAssumption DEF Shape
<1>3. PICK x \in 0..MaxRaw, y \in 0..MaxRaw, z \in 0..MaxRaw :
         Asked(c) = [a |-> x, b |-> y, scissor |-> z]
  BY <1>1, <1>2 DEF Asked
<1> QED
  BY <1>3 DEF Axes

\* A position of the register is reported as it is.
LEMMA RoundedExact ==
    ASSUME NEW x \in 0..MaxRaw PROVE Rounded(Grain * x) = x
<1>1. (2 * x) % 2 = 0 /\ (2 * x) \div 2 = x
  BY RegisterAssumption
<1> QED
  BY <1>1, RegisterAssumption DEF Rounded, Grain

LEMMA RoundedType == ASSUME NEW x \in Int PROVE Rounded(x) \in Int
BY RegisterAssumption DEF Rounded, Grain

-----------------------------------------------------------------------------
(* A curve has one value at every point, however its segment is looked for. *)

\* A number has a least one of its kind among the first n.
LEMMA LeastOf ==
    ASSUME NEW n \in Nat, NEW S \in SUBSET (1..n), S # {}
    PROVE  \E k \in S : \A j \in S : k <= j
<1> DEFINE T == {1..k : k \in S}
           R == StrictSubsetOrdering(1..n)
<1>1. IsFiniteSet(1..n)
  BY FS_Interval
<1>2. IsWellFoundedOn(R, SUBSET (1..n))
  BY <1>1, FS_FiniteSubsetsOfFinite, FS_StrictSubsetOrderingWellFounded
<1>3. T \subseteq SUBSET (1..n) /\ T # {}
  <2>1. \A k \in S : k \in 1..n /\ 1..k \subseteq 1..n
    OBVIOUS
  <2> QED
    BY <2>1
<1> HIDE DEF R, T
<1>4. PICK x \in T : \A y \in T : ~ (<<y, x>> \in R)
  BY <1>2, <1>3, WFMin
<1>5. PICK k \in S : x = 1..k
  BY <1>4 DEF T
<1>6. ASSUME NEW j \in S, j < k PROVE FALSE
  <2>1. 1..j \in T /\ 1..j \in SUBSET (1..n) /\ 1..k \in SUBSET (1..n)
    BY DEF T
  <2>2. 1..j \subseteq 1..k /\ k \in 1..k /\ k \notin 1..j
    BY <1>6
  <2>3. <<1..j, 1..k>> \in R
    BY <2>1, <2>2 DEF R, StrictSubsetOrdering
  <2> QED
    BY <1>4, <1>5, <2>1, <2>3
<1>7. \A j \in S : k <= j
  BY <1>6
<1> QED
  BY <1>7

LEMMA CurveTyped ==
    ASSUME NEW curve \in Curve, Accepted(curve)
    PROVE  /\ Len(curve.inputs) \in Nat /\ Len(curve.inputs) >= 2
           /\ \A k \in 1..Len(curve.inputs) : curve.inputs[k] \in Int /\ curve.outputs[k] \in Int
<1>1. curve.inputs \in Seq(Int) /\ curve.outputs \in Seq(Int)
  BY DEF Curve
<1>2. Len(curve.inputs) >= 2 /\ Len(curve.inputs) = Len(curve.outputs)
  BY DEF Accepted
<1> QED
  BY <1>1, <1>2

\* The inputs of a curve increase, not from one to the next only.
LEMMA Increasing ==
    ASSUME NEW curve \in Curve, Accepted(curve),
           NEW i \in 1..Len(curve.inputs), NEW j \in 1..Len(curve.inputs), i < j
    PROVE  curve.inputs[i] < curve.inputs[j]
<1> DEFINE n == Len(curve.inputs)
           x == curve.inputs
           S == {k \in 1..n : i < k /\ ~(x[i] < x[k])}
<1>1. n \in Nat /\ \A k \in 1..n : x[k] \in Int
  BY DEF Curve
<1>2. \A k \in 2..n : x[k - 1] < x[k]
  BY DEF Accepted
<1> SUFFICES ASSUME S # {} PROVE FALSE
  BY <1>1
<1>3. PICK k \in S : \A l \in S : k <= l
  BY <1>1, LeastOf
<1>4. k - 1 \notin S
  <2>1. k \in Nat
    BY <1>1
  <2>2. ~(k <= k - 1)
    BY <2>1
  <2> HIDE DEF S
  <2> QED
    BY <1>3, <2>2
<1>5. k \in 2..n /\ x[k - 1] < x[k]
  BY <1>1, <1>2
<1>6. i = k - 1 \/ x[i] < x[k - 1]
  <2>1. k - 1 \in 1..n /\ i < k /\ i \in Nat /\ k \in Nat
    BY <1>1, <1>3, <1>5
  <2>2. i < k - 1 => x[i] < x[k - 1]
    BY <1>4, <2>1
  <2> HIDE DEF x, n, S
  <2> QED
    BY <2>1, <2>2
<1>7. ~(x[i] < x[k]) /\ i \in 1..n /\ k - 1 \in 1..n
  BY <1>3, <1>5
<1>8. x[i] \in Int /\ x[k - 1] \in Int /\ x[k] \in Int
  BY <1>1, <1>5, <1>7
<1> HIDE DEF x, S, n
<1> QED
  BY <1>5, <1>6, <1>7, <1>8

\* The breakpoint interpolate() stops at.
LEMMA NotBelow ==
    ASSUME NEW curve \in Curve, Accepted(curve), NEW at \in Int,
           Grain * curve.inputs[1] < at, at < Grain * curve.inputs[Len(curve.inputs)]
    PROVE  \E i \in 2..Len(curve.inputs) :
              Grain * curve.inputs[i - 1] < at /\ at <= Grain * curve.inputs[i]
<1> DEFINE n == Len(curve.inputs)
           x == curve.inputs
           S == {k \in 1..n : at <= Grain * x[k]}
<1>1. n \in Nat /\ n >= 2 /\ \A k \in 1..n : x[k] \in Int
  BY CurveTyped
<1>2. n \in S /\ 1 \notin S
  BY <1>1 DEF Grain
<1>3. PICK k \in S : \A l \in S : k <= l
  BY <1>1, <1>2, LeastOf
<1>4. k \in 2..n /\ k - 1 \in 1..n /\ k - 1 \notin S
  BY <1>1, <1>2, <1>3
<1>5. Grain * x[k - 1] < at
  BY <1>1, <1>4 DEF Grain
<1> QED
  BY <1>3, <1>4, <1>5

\* The breakpoint evaluate() finds.
LEMMA FirstAbove ==
    ASSUME NEW curve \in Curve, Accepted(curve), NEW at \in Int,
           Grain * curve.inputs[1] < at, at < Grain * curve.inputs[Len(curve.inputs)]
    PROVE  \E i \in 2..Len(curve.inputs) :
              Grain * curve.inputs[i - 1] <= at /\ at < Grain * curve.inputs[i]
<1> DEFINE n == Len(curve.inputs)
           x == curve.inputs
           S == {k \in 1..n : at < Grain * x[k]}
<1>1. n \in Nat /\ n >= 2 /\ \A k \in 1..n : x[k] \in Int
  BY CurveTyped
<1>2. n \in S /\ 1 \notin S
  BY <1>1 DEF Grain
<1>3. PICK k \in S : \A l \in S : k <= l
  BY <1>1, <1>2, LeastOf
<1>4. k \in 2..n /\ k - 1 \in 1..n /\ k - 1 \notin S
  BY <1>1, <1>2, <1>3
<1>5. Grain * x[k - 1] <= at
  BY <1>1, <1>4 DEF Grain
<1> QED
  BY <1>3, <1>4, <1>5

\* The end of one segment is the beginning of the next one.
LEMMA SegmentsMeet ==
    ASSUME NEW curve \in Curve, Accepted(curve), NEW i \in 2..Len(curve.inputs),
           i + 1 \in 2..Len(curve.inputs)
    PROVE  SameAngle(Between(curve, i - 1, i, Grain * curve.inputs[i]),
                     Between(curve, i, i + 1, Grain * curve.inputs[i]))
<1> DEFINE y == curve.outputs[i]
           d == Grain * (curve.inputs[i] - curve.inputs[i - 1])
           e == Grain * (curve.inputs[i + 1] - curve.inputs[i])
           p == Between(curve, i - 1, i, Grain * curve.inputs[i])
           q == Between(curve, i, i + 1, Grain * curve.inputs[i])
           z == curve.outputs[i - 1]
<1>1. /\ y \in Int /\ z \in Int /\ d \in Int /\ e \in Int /\ curve.outputs[i + 1] \in Int
      /\ curve.inputs[i - 1] \in Int /\ curve.inputs[i] \in Int
  <2>1. /\ Len(curve.inputs) \in Nat
        /\ \A k \in 1..Len(curve.inputs) : curve.inputs[k] \in Int /\ curve.outputs[k] \in Int
    BY CurveTyped
  <2>2. i - 1 \in 1..Len(curve.inputs) /\ i \in 1..Len(curve.inputs)
        /\ i + 1 \in 1..Len(curve.inputs)
    BY <2>1
  <2>3. /\ curve.inputs[i - 1] \in Int /\ curve.inputs[i] \in Int /\ curve.inputs[i + 1] \in Int
        /\ y \in Int /\ z \in Int /\ curve.outputs[i + 1] \in Int
    BY <2>1, <2>2
  <2>4. \A u, v \in Int : Grain * (u - v) \in Int
    BY DEF Grain
  <2> QED
    BY <2>3, <2>4
<1>2. Grain * curve.inputs[i] - Grain * curve.inputs[i - 1] = d
  BY <1>1 DEF Grain
<1>3. p = <<z * d + d * (y - z), d>>
  BY <1>2 DEF Between
<1>4. Grain * curve.inputs[i] - Grain * curve.inputs[i] = 0
  BY <1>1 DEF Grain
<1>5. q = <<y * e + 0 * (curve.outputs[i + 1] - y), e>>
  BY <1>4 DEF Between
<1> HIDE DEF y, z, d, e, p, q
<1>6. p = <<y * d, d>>
  BY <1>1, <1>3
<1>7. q = <<y * e, e>>
  BY <1>1, <1>5
<1>8. (y * d) * e = (y * e) * d
  BY <1>1
<1> QED
  BY <1>6, <1>7, <1>8 DEF SameAngle, p, q

\* interpolate() of the simulated backend and PiecewiseLinearMap::evaluate() of the
\* publisher look for different breakpoints and find the same angle.
THEOREM CurvesAgree ==
    ASSUME NEW curve \in Curve, Accepted(curve), NEW at \in Int
    PROVE  SameAngle(Interpolate(curve, at), Evaluate(curve, at))
<1> DEFINE n == Len(curve.inputs)
           x == curve.inputs
<1>1. n \in Nat /\ n >= 2 /\ \A k \in 1..n : x[k] \in Int
  BY CurveTyped
<1>2. CASE at <= Grain * x[1]
  BY <1>2 DEF Interpolate, Evaluate, SameAngle
<1>3. CASE ~(at <= Grain * x[1]) /\ at >= Grain * x[n]
  BY <1>3 DEF Interpolate, Evaluate, SameAngle
<1>4. CASE ~(at <= Grain * x[1]) /\ ~(at >= Grain * x[n])
  <2>1. Grain * x[1] < at /\ at < Grain * x[n]
    BY <1>1, <1>4 DEF Grain
  <2> DEFINE low == CHOOSE i \in 2..n : Grain * x[i - 1] < at /\ at <= Grain * x[i]
             up == CHOOSE i \in 2..n : Grain * x[i - 1] <= at /\ at < Grain * x[i]
  <2>2. low \in 2..n /\ Grain * x[low - 1] < at /\ at <= Grain * x[low]
    BY <2>1, NotBelow
  <2>3. up \in 2..n /\ Grain * x[up - 1] <= at /\ at < Grain * x[up]
    BY <2>1, FirstAbove
  <2>4. /\ Interpolate(curve, at) = Between(curve, low - 1, low, at)
        /\ Evaluate(curve, at) = Between(curve, up - 1, up, at)
    BY <1>4 DEF Interpolate, Evaluate
  <2> HIDE DEF low, up
  <2>5. \A i, j \in 1..n : i < j => x[i] < x[j]
    BY Increasing
  <2>6. low = up \/ low = up - 1
    <3>1. low \in 1..n /\ low - 1 \in 1..n /\ up \in 1..n /\ up - 1 \in 1..n
      BY <1>1, <2>2, <2>3
    <3>2. ASSUME low < up - 1 PROVE FALSE
      <4>1. x[low] < x[up - 1] /\ x[low] \in Int /\ x[up - 1] \in Int
        BY <1>1, <2>5, <3>1, <3>2
      <4> QED
        BY <2>2, <2>3, <4>1 DEF Grain
    <3>3. ASSUME up < low PROVE FALSE
      <4>1. x[up] <= x[low - 1] /\ x[up] \in Int /\ x[low - 1] \in Int
        <5>1. up = low - 1 \/ up < low - 1
          BY <3>1, <3>3
        <5> QED
          BY <1>1, <2>5, <3>1, <5>1
      <4> QED
        BY <2>2, <2>3, <4>1 DEF Grain
    <3> QED
      BY <3>1, <3>2, <3>3
  <2>7. CASE low = up
    <3>1. Interpolate(curve, at) = Evaluate(curve, at)
      BY <2>4, <2>7
    <3> QED
      BY <3>1 DEF SameAngle
  <2>8. CASE low = up - 1
    <3>1. x[low] \in Int /\ x[low - 1] \in Int
      BY <1>1, <2>2
    <3>2. at = Grain * x[low]
      BY <2>2, <2>3, <2>8, <3>1 DEF Grain
    <3>3. up = low + 1
      BY <2>2, <2>3, <2>8
    <3> QED
      BY <2>2, <2>3, <2>4, <3>2, <3>3, SegmentsMeet
  <2> QED
    BY <2>6, <2>7, <2>8
<1> QED
  BY <1>2, <1>3, <1>4
-----------------------------------------------------------------------------
(* The steps.                                                              *)

LEMMA InitSettles == Init => Settles
<1> SUFFICES ASSUME Init PROVE Settles
  OBVIOUS
<1>1. RestScissor \in 0..MaxRaw /\ Rest \in 0..MaxRaw /\ MaxRaw \in Nat
  BY RegisterAssumption
<1>2. AtRest \in Positions /\ [axis \in Axes |-> Grain * MaxRaw] \in Positions
  BY <1>1 DEF AtRest, Positions, Grain
<1>3. NewStatus \in SimStatus /\ NoStatus \in SimStatus
      /\ NewStatus.activated = FALSE /\ NoStatus.activated = FALSE
  <2>1. [axis \in Axes |-> 0] \in Positions
    BY DEF Positions
  <2>2. NewStatus \in SimStatus /\ NewStatus.activated = FALSE
    BY <2>1 DEF NewStatus, SimStatus, MODE_BASIC
  <2>3. NoStatus \in SimStatus
    BY <2>2 DEF NoStatus, SimStatus
  <2>4. NoStatus.activated = FALSE
    BY DEF NoStatus, NewStatus
  <2> QED
    BY <2>2, <2>3, <2>4
<1>4. /\ commandTopic = <<>> /\ sent = <<>>
      /\ status = NewStatus /\ reported = NoStatus /\ actual = AtRest /\ target = AtRest
      /\ speeds = [axis \in Axes |-> Grain * MaxRaw]
  BY DEF Init
<1>5. Typed
  BY <1>2, <1>3, <1>4 DEF Typed
<1> QED
  BY <1>3, <1>4, <1>5 DEF Settles, FollowsCommand, ReportsCommand, SettledIsAsked

\* A new command leaves the commands sent before as they are.
LEMMA SendSettles == ASSUME Settles, NEW shape \in Shapes, Send(shape) PROVE Settles'
<1> DEFINE n == Len(sent) + 1
           c == [shape EXCEPT !.id = n]
<1>1. /\ sent \in Seq(Shape) /\ commandTopic \in Seq(Shape) /\ n \in Nat /\ shape \in Shape
  BY RegisterAssumption DEF Settles, Typed
<1>2. c \in Shape /\ c.id = n
  BY <1>1 DEF Shape
<1>3. /\ sent' = Append(sent, c) /\ commandTopic' = Append(commandTopic, c)
      /\ UNCHANGED <<status, actual, target, speeds, reported>>
  BY DEF Send, simVars
<1> HIDE DEF c
<1>4. /\ sent' \in Seq(Shape) /\ commandTopic' \in Seq(Shape)
      /\ \A i \in DOMAIN sent : i \in DOMAIN sent' /\ sent'[i] = sent[i]
      /\ n \in DOMAIN sent' /\ sent'[n] = c
      /\ \A i \in DOMAIN commandTopic' : \/ commandTopic'[i] = c
                                         \/ i \in DOMAIN commandTopic /\ commandTopic'[i] = commandTopic[i]
  BY <1>1, <1>2, <1>3
<1>5. Typed'
  BY <1>3, <1>4 DEF Settles, Typed
<1>6. \A i \in DOMAIN commandTopic' : WasSent(commandTopic[i])'
  BY <1>2, <1>4 DEF Settles, WasSent
<1>7. FollowsCommand' /\ ReportsCommand'
  BY <1>3, <1>4 DEF Settles, FollowsCommand, ReportsCommand
<1>8. SettledIsAsked'
  BY <1>3, <1>4 DEF Settles, ReportsCommand, SettledIsAsked
<1> QED
  BY <1>5, <1>6, <1>7, <1>8 DEF Settles

LEMMA TailSent ==
    ASSUME Settles, commandTopic # <<>>
    PROVE  /\ Head(commandTopic) \in Shape /\ WasSent(Head(commandTopic))
           /\ Tail(commandTopic) \in Seq(Shape)
           /\ \A i \in DOMAIN Tail(commandTopic) : WasSent(Tail(commandTopic)[i])
<1>1. commandTopic \in Seq(Shape)
  BY DEF Settles, Typed
<1>2. /\ Head(commandTopic) = commandTopic[1] /\ 1 \in DOMAIN commandTopic
      /\ Tail(commandTopic) \in Seq(Shape)
      /\ \A i \in DOMAIN Tail(commandTopic) :
            Tail(commandTopic)[i] = commandTopic[i + 1] /\ i + 1 \in DOMAIN commandTopic
  BY <1>1
<1> QED
  BY <1>1, <1>2 DEF Settles

\* The status names the command that is executed, and a motion sets its target.
LEMMA ReceiveSettles == ASSUME Settles, ReceiveCommand PROVE Settles'
<1>1. PICK c \in Shape : c = Head(commandTopic) /\ WasSent(c)
  BY TailSent DEF ReceiveCommand
<1>2. /\ status' = [status EXCEPT !.lastId = c.id, !.mode = c.mode, !.goTo = c.goTo,
                                  !.activated = c.activate, !.stopped = ~(c.activate /\ c.goTo)]
      /\ target' = IF ~c.activate THEN target
                   ELSE IF ~c.goTo THEN actual
                   ELSE [axis \in Axes |-> Grain * Asked(c)[axis]]
      /\ speeds' = IF c.activate /\ c.goTo THEN Speeds(c) ELSE speeds
      /\ UNCHANGED <<sent, actual, reported>> /\ commandTopic' = Tail(commandTopic)
  BY <1>1 DEF ReceiveCommand
<1>3. /\ c.id \in Nat /\ c.mode \in Nat /\ c.goTo \in BOOLEAN /\ c.activate \in BOOLEAN
      /\ c.speed \in Int /\ c.speedB \in Int
  BY DEF Shape
<1>4. status' \in SimStatus /\ status'.lastId = c.id /\ status'.goTo = c.goTo
      /\ status'.activated = c.activate
  <2>1. status \in SimStatus
    BY DEF Settles, Typed
  <2>2. PICK halts \in BOOLEAN : halts = ~(c.activate /\ c.goTo)
    OBVIOUS
  <2>3. status' = [status EXCEPT !.lastId = c.id, !.mode = c.mode, !.goTo = c.goTo,
                                 !.activated = c.activate, !.stopped = halts]
    BY <1>2, <2>2
  <2>4. c.id \in Int
    BY <1>3
  <2> QED
    BY <1>3, <2>1, <2>3, <2>4 DEF SimStatus
<1>5. Speeds(c) \in Positions
  <2>1. \A axis \in Axes : Speeds(c)[axis] \in Int
    BY <1>3 DEF Speeds, Axes
  <2>2. Speeds(c) = [axis \in Axes |-> Speeds(c)[axis]]
    BY DEF Speeds, Axes
  <2> QED
    BY <2>1, <2>2 DEF Positions
<1>6. [axis \in Axes |-> Grain * Asked(c)[axis]] \in Positions
  BY AskedType, RegisterAssumption DEF Positions, Grain
<1>7. Typed'
  <2>1. commandTopic' \in Seq(Shape)
    BY <1>2, TailSent DEF ReceiveCommand
  <2>2. target' \in Positions /\ speeds' \in Positions
    BY <1>2, <1>5, <1>6 DEF Settles, Typed
  <2> QED
    BY <1>2, <1>4, <2>1, <2>2 DEF Settles, Typed
<1>8. \A i \in DOMAIN commandTopic' : WasSent(commandTopic[i])'
  <2>1. \A i \in DOMAIN Tail(commandTopic) : WasSent(Tail(commandTopic)[i])
    BY TailSent DEF ReceiveCommand
  <2> QED
    BY <1>2, <2>1 DEF WasSent
<1>9. FollowsCommand'
  BY <1>1, <1>2, <1>4 DEF FollowsCommand, WasSent
<1>10. ReportsCommand' /\ SettledIsAsked'
  BY <1>2 DEF Settles, ReportsCommand, SettledIsAsked
<1> QED
  BY <1>7, <1>8, <1>9, <1>10 DEF Settles

\* What an update makes of the status it publishes.
LEMMA UpdateFields ==
    ASSUME Settles, NEW ticks \in {0, 1}, Update(ticks)
    PROVE  /\ actual' \in Positions /\ status' \in SimStatus /\ reported' \in SimStatus
           /\ status'.lastId = status.lastId
           /\ status'.activated = status.activated /\ status'.goTo = status.goTo
           /\ status.activated /\ status.goTo => status'.stopped = (actual' = target)
           /\ reported'.lastId = status.lastId /\ reported'.mode = status'.mode
           /\ reported'.activated = status.activated /\ reported'.goTo = status.goTo
           /\ reported'.stopped = status'.stopped
           /\ reported'.actual = [axis \in Axes |-> Rounded(actual'[axis])]
           /\ UNCHANGED <<commandTopic, sent, target, speeds>>
<1>1. /\ status \in SimStatus /\ actual \in Positions /\ target \in Positions
      /\ speeds \in Positions
  BY DEF Settles, Typed
<1>2. UNCHANGED <<commandTopic, sent, target, speeds>>
  BY DEF Update
<1>3. actual' \in Positions
  <2>1. \A axis \in Axes : Approach(actual[axis], target[axis], ticks * speeds[axis]) \in Int
    <3> SUFFICES ASSUME NEW axis \in Axes
                 PROVE  Approach(actual[axis], target[axis], ticks * speeds[axis]) \in Int
      OBVIOUS
    <3>1. actual[axis] \in Int /\ target[axis] \in Int /\ speeds[axis] \in Int
      BY <1>1 DEF Positions
    <3>2. ticks * speeds[axis] \in Int
      BY <3>1
    <3> QED
      BY <3>1, <3>2 DEF Approach
  <2> QED
    BY <1>1, <2>1 DEF Update, Positions
<1>4. /\ status' \in SimStatus /\ status'.lastId = status.lastId
      /\ status'.activated = status.activated /\ status'.goTo = status.goTo
      /\ status.activated /\ status.goTo => status'.stopped = (actual' = target)
  <2>1. CASE status.activated /\ status.goTo
    <3>1. status' = [status EXCEPT !.stopped = (actual' = target)]
      BY <2>1 DEF Update
    <3> QED
      BY <1>1, <3>1 DEF SimStatus
  <2>2. CASE ~(status.activated /\ status.goTo)
    BY <1>1, <2>2 DEF Update
  <2> QED
    BY <2>1, <2>2
<1>5. reported' = [status' EXCEPT !.actual = [axis \in Axes |-> Rounded(actual'[axis])]]
  BY DEF Update, PublishedStatus
<1>6. [axis \in Axes |-> Rounded(actual'[axis])] \in Positions
  BY <1>3, RoundedType DEF Positions
<1>7. /\ reported' \in SimStatus /\ reported'.lastId = status.lastId
      /\ reported'.mode = status'.mode
      /\ reported'.activated = status.activated /\ reported'.goTo = status.goTo
      /\ reported'.stopped = status'.stopped
      /\ reported'.actual = [axis \in Axes |-> Rounded(actual'[axis])]
  BY <1>4, <1>5, <1>6 DEF SimStatus
<1> QED
  BY <1>2, <1>3, <1>4, <1>7

\* An axis stops exactly at its target, and so a report of the end of a motion shows it.
LEMMA MotionEnds ==
    ASSUME Settles, NEW ticks \in {0, 1}, Update(ticks),
           reported'.activated, reported'.goTo, reported'.stopped
    PROVE  \E c \in Shape :
              /\ c = sent[status.lastId]
              /\ \A axis \in Axes : /\ actual'[axis] = Grain * Asked(c)[axis]
                                    /\ reported'.actual[axis] = Asked(c)[axis]
<1>1. PICK c \in Shape : c = sent[status.lastId]
  <2>1. sent \in Seq(Shape) /\ status.activated /\ status.goTo
    BY UpdateFields DEF Settles, Typed
  <2>2. status.lastId \in DOMAIN sent
    BY <2>1 DEF Settles, FollowsCommand
  <2> QED
    BY <2>1, <2>2
<1>2. actual' = target /\ \A axis \in Axes : target[axis] = Grain * Asked(c)[axis]
  BY <1>1, UpdateFields DEF Settles, FollowsCommand
<1>3. \A axis \in Axes : Rounded(actual'[axis]) = Asked(c)[axis]
  BY <1>2, AskedType, RoundedExact
<1> QED
  BY <1>1, <1>2, <1>3, UpdateFields

LEMMA UpdateSettles == ASSUME Settles, NEW ticks \in {0, 1}, Update(ticks) PROVE Settles'
<1>1. Typed'
  BY UpdateFields DEF Settles, Typed
<1>2. \A i \in DOMAIN commandTopic' : WasSent(commandTopic[i])'
  BY UpdateFields DEF Settles, WasSent
<1>3. FollowsCommand' /\ ReportsCommand'
  BY UpdateFields DEF Settles, FollowsCommand, ReportsCommand
<1>4. SettledIsAsked'
  <2> SUFFICES ASSUME reported'.activated, reported'.goTo, reported'.stopped
               PROVE  reported'.actual = Asked(sent'[reported'.lastId])
    BY DEF SettledIsAsked
  <2>1. PICK c \in Shape : /\ c = sent[status.lastId]
                           /\ \A axis \in Axes : reported'.actual[axis] = Asked(c)[axis]
    BY MotionEnds
  <2>2. reported'.actual = [axis \in Axes |-> Asked(c)[axis]]
    BY <2>1, UpdateFields DEF SimStatus, Positions
  <2> QED
    BY <2>1, <2>2, AskedType, UpdateFields
<1> QED
  BY <1>1, <1>2, <1>3, <1>4 DEF Settles

\* What the report says stays said, whatever becomes of the process.
LEMMA OthersSettle ==
    ASSUME Settles, Discard \/ SimRestarts \/ Relay \/ StatusCallback \/ Publish
    PROVE  Settles'
<1>1. CASE Discard
  <2>1. commandTopic' = Tail(commandTopic) /\ commandTopic # <<>>
        /\ UNCHANGED <<sent, status, actual, target, speeds, reported>>
    BY <1>1 DEF Discard, simVars
  <2>2. Typed'
    BY <2>1, TailSent DEF Settles, Typed
  <2>3. \A i \in DOMAIN commandTopic' : WasSent(commandTopic[i])'
    BY <2>1, TailSent DEF WasSent
  <2> QED
    BY <2>1, <2>2, <2>3 DEF Settles, FollowsCommand, ReportsCommand, SettledIsAsked
<1>2. CASE SimRestarts
  <2>1. /\ commandTopic' = <<>> /\ status' = NewStatus /\ actual' = AtRest /\ target' = AtRest
        /\ speeds' = [axis \in Axes |-> Grain * MaxRaw] /\ UNCHANGED <<sent, reported>>
    BY <1>2 DEF SimRestarts
  <2>2. AtRest \in Positions /\ [axis \in Axes |-> Grain * MaxRaw] \in Positions
    BY RegisterAssumption DEF AtRest, Positions, Grain
  <2>3. NewStatus \in SimStatus /\ NewStatus.activated = FALSE
    BY DEF NewStatus, SimStatus, Positions, MODE_BASIC
  <2>4. Typed'
    BY <2>1, <2>2, <2>3 DEF Settles, Typed
  <2> QED
    BY <2>1, <2>3, <2>4 DEF Settles, FollowsCommand, ReportsCommand, SettledIsAsked
<1>3. CASE Relay \/ StatusCallback \/ Publish
  <2>1. UNCHANGED <<commandTopic, sent, status, actual, target, speeds, reported>>
    BY <1>3 DEF Relay, PassOn, LosePassed, StatusCallback, Publish, simVars
  <2> QED
    BY <2>1 DEF Settles, Typed, WasSent, FollowsCommand, ReportsCommand, SettledIsAsked
<1> QED
  BY <1>1, <1>2, <1>3

LEMMA NextSettles == Settles /\ [Next]_vars => Settles'
<1> SUFFICES ASSUME Settles, [Next]_vars PROVE Settles'
  OBVIOUS
<1>1. CASE UNCHANGED vars
  BY <1>1 DEF vars, simVars, Settles, Typed, WasSent, FollowsCommand, ReportsCommand,
     SettledIsAsked
<1>2. CASE \E shape \in Shapes : Send(shape)
  BY <1>2, SendSettles
<1>3. CASE ReceiveCommand
  BY <1>3, ReceiveSettles
<1>4. CASE \E ticks \in {0, 1} : Update(ticks)
  BY <1>4, UpdateSettles
<1>5. CASE Discard \/ SimRestarts \/ Relay \/ StatusCallback \/ Publish
  BY <1>5, OthersSettle
<1> QED
  BY <1>1, <1>2, <1>3, <1>4, <1>5 DEF Next

\* A status of the simulation that reports an activated gripper at the end of a motion
\* shows the fingers and the scissor where the command it names asked them to go, for
\* any commands, speeds, losses and restarts: a motion ends at its own target, and no
\* command changes the target without its name coming into the status.
THEOREM EndsWhereAsked == Spec => []SettledIsAsked
<1>1. Settles => SettledIsAsked
  BY DEF Settles
<1> QED
  BY <1>1, InitSettles, NextSettles, PTL DEF Spec

-----------------------------------------------------------------------------
(* What the publisher shows.                                               *)

\* Of positions of the register, the publisher's mapping and the simulation's agree.
LEMMA MappingsAgree ==
    ASSUME NEW mode, NEW raw \in [Axes -> Int], NEW positions \in Positions,
           \A axis \in Axes : positions[axis] = Grain * raw[axis]
    PROVE  SameAngles(MapPose(mode, raw), JointTargets(mode, positions))
<1> SUFFICES ASSUME NEW axis \in Axes
             PROVE  SameAngle(MapPose(mode, raw)[axis], JointTargets(mode, positions)[axis])
  BY DEF SameAngles
<1> DEFINE finger == IF mode = MODE_PINCH THEN PinchCurve ELSE FingerCurve
           curve == IF axis = "scissor" THEN ScissorCurve ELSE finger
<1>1. curve \in Curve /\ Accepted(curve)
  BY CurveAssumption
<1>2. /\ MapPose(mode, raw)[axis] = Evaluate(curve, positions[axis])
      /\ JointTargets(mode, positions)[axis] = Interpolate(curve, positions[axis])
  BY DEF MapPose, JointTargets
<1>3. positions[axis] \in Int
  BY DEF Positions
<1> HIDE DEF curve
<1>4. SameAngle(Interpolate(curve, positions[axis]), Evaluate(curve, positions[axis]))
  BY <1>1, <1>3, CurvesAgree
<1> QED
  BY <1>2, <1>4 DEF SameAngle

LEMMA UpdateShown ==
    ASSUME Settles, NEW ticks \in {0, 1}, Update(ticks) PROVE SettledIsShown'
<1> SUFFICES ASSUME reported'.activated, reported'.goTo, reported'.stopped
             PROVE  SameAngles(MapPose(reported'.mode, reported'.actual), joints')
  BY DEF SettledIsShown
<1>1. joints' = JointTargets(reported'.mode, actual')
  BY UpdateFields DEF Update
<1>2. reported'.actual \in [Axes -> Int] /\ actual' \in Positions
  BY UpdateFields DEF SimStatus, Positions
<1>3. \A axis \in Axes : actual'[axis] = Grain * reported'.actual[axis]
  BY MotionEnds
<1> QED
  BY <1>1, <1>2, <1>3, MappingsAgree

LEMMA NextShown == Settles /\ SettledIsShown /\ [Next]_vars => SettledIsShown'
<1> SUFFICES ASSUME Settles, SettledIsShown, [Next]_vars PROVE SettledIsShown'
  OBVIOUS
<1>1. CASE \E ticks \in {0, 1} : Update(ticks)
  BY <1>1, UpdateShown
<1>2. CASE UNCHANGED <<reported, joints>>
  BY <1>2 DEF SettledIsShown
<1>3. \/ \E ticks \in {0, 1} : Update(ticks)
      \/ UNCHANGED <<reported, joints>>
  BY DEF Next, Send, Discard, ReceiveCommand, SimRestarts, Relay, PassOn, LosePassed, StatusCallback,
     Publish, vars, simVars
<1> QED
  BY <1>1, <1>2, <1>3

LEMMA InitShown == Init => SettledIsShown
BY DEF Init, SettledIsShown, NoStatus, NewStatus

\* What the publisher makes of a status at the end of a motion is where the
\* simulation's joints were sent with it, for any curves the two accept: the status
\* then carries the positions unrounded, and the two ways to look a curve up agree.
THEOREM PoseIsSimulated == Spec => []SettledIsShown
<1>1. Spec => []Settles
  BY InitSettles, NextSettles, PTL DEF Spec
<1> QED
  BY <1>1, InitShown, NextShown, PTL DEF Spec
=============================================================================
