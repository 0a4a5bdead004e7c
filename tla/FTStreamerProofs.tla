-------------------------- MODULE FTStreamerProofs --------------------------
(***************************************************************************)
(* Theorems about FTStreamer, for every value of its constants.            *)
(***************************************************************************)
EXTENDS FTStreamer, TLAPS

-----------------------------------------------------------------------------
(* Type correctness.                                                       *)

\* Where a worker holds an open connection.
Linked == worker \in {"report", "read", "recv", "samples", "publish"}

\* The types, the connection a linked worker has, and the samples a worker at
\* "samples" still holds; what is collected is counted.
Typed ==
    /\ TypeOK
    /\ Linked => connection \in Connections
    /\ worker = "samples" => samples # <<>>
    /\ Len(sums) = count
    /\ active # 0 => count < ZeroSampleCount
    /\ executor \in {"wait", "cancel"} => serving \in Generations

LEMMA InitTyped == Init => Typed
<1> SUFFICES ASSUME Init PROVE Typed
  OBVIOUS
<1>1. generation \in {0} \union Generations /\ active \in {0} \union Generations
  BY StreamerAssumption DEF Init, Generations
<1>2. /\ sums \in Seq(Sample) /\ samples \in Seq(Sample)
      /\ Len(sums) = 0
  BY DEF Init
<1>3. offset \in Offset
  BY DEF Init, Offset
<1>4. outcome \in [Generations -> Outcomes]
  BY DEF Init, Outcomes
<1>5. /\ count \in 0..ZeroSampleCount /\ count = Len(sums) /\ count < ZeroSampleCount
      /\ connection \in 0..MaxConnections /\ partial \in 0..MaxConnections
  BY <1>2, StreamerAssumption DEF Init
<1> QED
  BY <1>1, <1>2, <1>3, <1>4, <1>5 DEF Init, Typed, TypeOK, Linked

\* A chunk parses into a sequence of samples, with an end for each frame.
LEMMA ReceiveType ==
    ASSUME Typed, Receive
    PROVE  /\ samples' \in Seq(Sample) /\ partial' \in 0..MaxConnections
           /\ worker' \in {"read", "samples"}
           /\ worker' = "samples" => samples' # <<>>
<1>1. connection \in Connections /\ partial \in 0..MaxConnections
  BY DEF Typed, TypeOK, Receive, Linked
<1>2. PICK n \in 0..MaxChunk, begins \in BOOLEAN :
        /\ samples' = [i \in 1..n |-> <<IF i = 1 /\ partial # 0 THEN partial ELSE connection,
                                        connection>>]
        /\ partial' = IF n = 0 /\ partial # 0 THEN partial
                      ELSE IF begins THEN connection ELSE 0
        /\ worker' = IF n = 0 THEN "read" ELSE "samples"
  BY DEF Receive
<1>3. n \in Nat
  BY StreamerAssumption
<1>4. (IF partial # 0 THEN partial ELSE connection) \in Connections
  BY <1>1, StreamerAssumption DEF Connections
<1>5. \A i \in 1..n : <<IF i = 1 /\ partial # 0 THEN partial ELSE connection, connection>>
                       \in Sample
  BY <1>1, <1>4 DEF Sample
<1>6. samples' \in [1..n -> Sample]
  BY <1>2, <1>5
<1>7. samples' \in Seq(Sample) /\ Len(samples') = n
  BY <1>3, <1>6
<1>8. partial' \in 0..MaxConnections
  BY <1>1, <1>2, StreamerAssumption DEF Connections
<1> QED
  BY <1>2, <1>7, <1>8

\* What a step of the worker makes of the samples it holds.
LEMMA TailType ==
    ASSUME Typed, worker = "samples"
    PROVE  /\ Head(samples) \in Sample /\ Tail(samples) \in Seq(Sample)
           /\ AfterSample(Tail(samples)) \in {"read", "samples"}
           /\ AfterSample(Tail(samples)) = "samples" => Tail(samples) # <<>>
BY DEF Typed, TypeOK, AfterSample

LEMMA CollectType ==
    ASSUME Typed, NEW sample \in Sample, Collect(sample)
    PROVE  /\ sums' \in Seq(Sample) /\ Len(sums') = count'
           /\ count' \in 0..ZeroSampleCount
           /\ active' \in {0} \union Generations /\ completed' \in {0} \union Generations
           /\ active' # 0 => count' < ZeroSampleCount
           /\ offset' \in Offset
           /\ UNCHANGED <<generation, closed>>
<1>1. sums' \in Seq(Sample) /\ Len(sums') = Len(sums) + 1 /\ count' = count + 1
  BY DEF Collect, Typed, TypeOK
<1>2. count \in Nat /\ count < ZeroSampleCount /\ active \in Generations
  BY StreamerAssumption DEF Collect, Typed, TypeOK
<1>3. CASE count + 1 < ZeroSampleCount
  BY <1>1, <1>2, <1>3, StreamerAssumption DEF Collect, Typed, TypeOK
<1>4. CASE ~(count + 1 < ZeroSampleCount)
  <2>1. offset' = [generation |-> active, samples |-> sums'] /\ completed' = active /\ active' = 0
    BY <1>4 DEF Collect
  <2>2. offset' \in Offset
    BY <1>1, <1>2, <2>1 DEF Offset
  <2> QED
    BY <1>1, <1>2, <2>1, <2>2, StreamerAssumption DEF Collect, Typed
<1> QED
  BY <1>3, <1>4

LEMMA NextTyped == Typed /\ [Next]_vars => Typed'
<1> SUFFICES ASSUME Typed, [Next]_vars PROVE Typed'
  OBVIOUS
<1> USE DEF zeroingVars, workerVars, executorVars
<1>1. CASE LoopTest
  BY <1>1 DEF LoopTest, Typed, TypeOK, Linked
<1>2. CASE Connect
  <2>1. connection' \in Connections /\ connection' \in 0..MaxConnections
    BY <1>2, StreamerAssumption DEF Connect, Typed, TypeOK, Connections
  <2>2. worker' = "report" /\ partial' = 0 /\ partial' \in 0..MaxConnections
    BY <1>2, StreamerAssumption DEF Connect
  <2>3. UNCHANGED <<zeroingVars, samples, wrench, executorVars, outcome, strays>>
    BY <1>2 DEF Connect
  <2> QED
    BY <2>1, <2>2, <2>3 DEF Typed, TypeOK, Linked
<1>3. CASE ReportConnected
  <2>1. count' \in 0..ZeroSampleCount /\ sums' \in Seq(Sample) /\ Len(sums') = count'
    BY <1>3, StreamerAssumption DEF ReportConnected, ResetProgress, Typed, TypeOK
  <2>2. active # 0 => count' < ZeroSampleCount
    BY <1>3, StreamerAssumption DEF ReportConnected, ResetProgress, Typed
  <2> QED
    BY <1>3, <2>1, <2>2 DEF ReportConnected, ResetProgress, Typed, TypeOK, Linked
<1>4. CASE StreamFails
  BY <1>4 DEF StreamFails, Typed, TypeOK, Linked
<1>5. CASE PauseEnds
  BY <1>5 DEF PauseEnds, Typed, TypeOK, Linked
<1>6. CASE ReadTest
  BY <1>6 DEF ReadTest, Typed, TypeOK, Linked
<1>7. CASE Receive
  <2>1. /\ samples' \in Seq(Sample) /\ partial' \in 0..MaxConnections
        /\ worker' \in {"read", "samples"}
        /\ worker' = "samples" => samples' # <<>>
    BY <1>7, ReceiveType
  <2>2. worker = "recv" /\ UNCHANGED <<zeroingVars, connection, wrench, executorVars, outcome, strays>>
    BY <1>7 DEF Receive
  <2> QED
    BY <2>1, <2>2 DEF Typed, TypeOK, Linked
<1>8. CASE CollectSample
  <2>1. Collect(Head(samples)) /\ Head(samples) \in Sample /\ Tail(samples) \in Seq(Sample)
    BY <1>8, TailType DEF CollectSample
  <2>2. /\ sums' \in Seq(Sample) /\ Len(sums') = count'
        /\ count' \in 0..ZeroSampleCount
        /\ active' \in {0} \union Generations /\ completed' \in {0} \union Generations
        /\ active' # 0 => count' < ZeroSampleCount
        /\ offset' \in Offset
        /\ UNCHANGED <<generation, closed>>
    BY <2>1, CollectType
  <2>3. worker' \in {"read", "samples"} /\ (worker' = "samples" => samples' # <<>>)
    BY <1>8, TailType DEF CollectSample
  <2> QED
    BY <1>8, <2>1, <2>2, <2>3 DEF CollectSample, Typed, TypeOK, Linked
<1>9. CASE CorrectSample
  BY <1>9, TailType DEF CorrectSample, Typed, TypeOK, Linked, Offset
<1>10. CASE SkipSample
  BY <1>10, TailType DEF SkipSample, Typed, TypeOK, Linked
<1>11. CASE PublishWrench
  BY <1>11 DEF PublishWrench, AfterSample, Typed, TypeOK, Linked
<1>12. CASE CallZero
  <2>1. generation + 1 \in Generations
    BY <1>12, StreamerAssumption DEF CallZero, Typed, TypeOK, Generations
  <2>2. outcome' \in [Generations -> Outcomes]
    BY <1>12 DEF CallZero, Typed, TypeOK, Outcomes
  <2> QED
    BY <1>12, <2>1, <2>2, StreamerAssumption DEF CallZero, Request, Typed, TypeOK, Linked
<1>13. CASE WaitReturns
  <2>1. outcome' \in [Generations -> Outcomes]
    BY <1>13 DEF WaitReturns, Typed, TypeOK, Outcomes
  <2> QED
    BY <1>13, <2>1 DEF WaitReturns, Typed, TypeOK, Linked
<1>14. CASE WaitGivesUp
  BY <1>14 DEF WaitGivesUp, Typed, TypeOK, Linked
<1>15. CASE CancelZero
  <2>1. outcome' \in [Generations -> Outcomes]
    BY <1>15 DEF CancelZero, Typed, TypeOK, Outcomes
  <2> QED
    BY <1>15, <2>1 DEF CancelZero, CancelActive, Typed, TypeOK, Linked
<1>16. CASE Interrupt
  BY <1>16 DEF Interrupt, Typed, TypeOK, Linked
<1>17. CASE StopWorker
  BY <1>17 DEF StopWorker, Typed, TypeOK, Linked
<1>18. CASE CloseZeroing
  BY <1>18 DEF CloseZeroing, Typed, TypeOK, Linked
<1>19. CASE JoinWorker
  BY <1>19 DEF JoinWorker, Typed, TypeOK, Linked
<1>20. CASE UNCHANGED vars
  BY <1>20 DEF vars, Typed, TypeOK, Linked
<1> QED
  BY <1>1, <1>2, <1>3, <1>4, <1>5, <1>6, <1>7, <1>8, <1>9, <1>10, <1>11, <1>12, <1>13, <1>14,
     <1>15, <1>16, <1>17, <1>18, <1>19, <1>20 DEF Next, WorkerNext, ExecutorAdvances

LEMMA AlwaysTyped == Spec => []Typed
<1>1. Init => Typed
  BY InitTyped
<1>2. Typed /\ [Next]_vars => Typed'
  BY NextTyped
<1> QED
  BY <1>1, <1>2, PTL DEF Spec

\* Every variable keeps its type, and a count never exceeds the number of
\* samples asked for.
THEOREM TypeCorrect == Spec => []TypeOK
<1>1. Typed => TypeOK
  BY DEF Typed
<1> QED
  BY <1>1, AlwaysTyped, PTL

-----------------------------------------------------------------------------
(* OffsetIsOneCollection.  What makes it inductive: every frame a linked   *)
(* worker holds, and every sample it has added up, is of its connection,   *)
(* as the parser drops the frame that a reconnection cut, and              *)
(* reset_progress() what was added up before it.                           *)

\* The samples of s are whole frames of connection c.
WholeFrames(s, c) == \A i \in DOMAIN s : s[i] = <<c, c>>

OneConnection ==
    /\ Linked => partial \in {0, connection} /\ WholeFrames(samples, connection)
    /\ Linked /\ worker # "report" /\ active # 0 => WholeFrames(sums, connection)
    /\ worker \in {"report", "read", "recv"} => samples = <<>>
    /\ ~Linked => samples = <<>>
    /\ OffsetIsOneCollection

LEMMA InitOneConnection == Init => OneConnection
BY DEF Init, OneConnection, Linked, OffsetIsOneCollection

\* A chunk completes frames of the worker's connection.
LEMMA ReceiveFrames ==
    ASSUME Typed, OneConnection, Receive
    PROVE  /\ partial' \in {0, connection} /\ WholeFrames(samples', connection)
           /\ worker' = "read" => samples' = <<>>
<1>1. partial \in {0, connection}
  BY DEF OneConnection, Receive, Linked
<1>2. PICK n \in 0..MaxChunk, begins \in BOOLEAN :
        /\ samples' = [i \in 1..n |-> <<IF i = 1 /\ partial # 0 THEN partial ELSE connection,
                                        connection>>]
        /\ partial' = IF n = 0 /\ partial # 0 THEN partial
                      ELSE IF begins THEN connection ELSE 0
        /\ worker' = IF n = 0 THEN "read" ELSE "samples"
  BY DEF Receive
<1>3. WholeFrames(samples', connection)
  BY <1>1, <1>2 DEF WholeFrames
<1>4. partial' \in {0, connection}
  BY <1>1, <1>2
<1>5. CASE n = 0
  <2>1. samples' \in Seq(Sample) /\ DOMAIN samples' = 1..0
    BY <1>2, <1>5, ReceiveType
  <2> QED
    BY <1>3, <1>4, <2>1
<1>6. CASE n # 0
  BY <1>2, <1>3, <1>4, <1>6
<1> QED
  BY <1>5, <1>6

\* A sample of the connection, added to sums of the connection, leaves sums of
\* the connection; the last one makes an offset of it.
LEMMA CollectFrames ==
    ASSUME Typed, OneConnection, worker = "samples", Collect(Head(samples))
    PROVE  /\ active' # 0 => WholeFrames(sums', connection)
           /\ OffsetIsOneCollection'
<1>1. /\ Head(samples) = <<connection, connection>>
      /\ sums \in Seq(Sample) /\ active # 0 /\ connection \in Connections
  BY DEF Typed, TypeOK, OneConnection, WholeFrames, Linked, Collect
<1>2. Head(samples) \in Sample
  BY TailType
<1>3. WholeFrames(sums, connection)
  BY <1>1 DEF OneConnection, Linked
<1>4. WholeFrames(sums', connection)
  <2>1. sums' = Append(sums, <<connection, connection>>) /\ <<connection, connection>> \in Sample
    BY <1>1, <1>2 DEF Collect
  <2>2. ASSUME NEW i \in DOMAIN sums' PROVE sums'[i] = <<connection, connection>>
    BY <1>1, <1>3, <2>1 DEF WholeFrames
  <2> QED
    BY <2>2 DEF WholeFrames
<1>5. CASE count + 1 < ZeroSampleCount
  BY <1>4, <1>5 DEF Collect, OneConnection, OffsetIsOneCollection
<1>6. CASE ~(count + 1 < ZeroSampleCount)
  <2>1. offset'.samples = sums' /\ count' = count + 1
    BY <1>6 DEF Collect
  <2>2. Len(sums') = count' /\ count' \in 0..ZeroSampleCount
    BY <1>2, CollectType
  <2>3. Len(sums') = ZeroSampleCount
    BY <1>6, <2>1, <2>2, StreamerAssumption DEF Typed, TypeOK
  <2>4. Connections' = Connections
    BY DEF Connections
  <2> QED
    BY <1>1, <1>4, <2>1, <2>3, <2>4 DEF WholeFrames, OffsetIsOneCollection
<1> QED
  BY <1>5, <1>6

LEMMA NextOneConnection == Typed /\ OneConnection /\ [Next]_vars => OneConnection'
<1> SUFFICES ASSUME Typed, OneConnection, [Next]_vars PROVE OneConnection'
  OBVIOUS
<1> USE DEF zeroingVars, workerVars, executorVars, WholeFrames
<1>1. CASE LoopTest
  BY <1>1 DEF LoopTest, OneConnection, Linked, OffsetIsOneCollection
<1>2. CASE Connect
  BY <1>2 DEF Connect, OneConnection, Linked, OffsetIsOneCollection
<1>3. CASE ReportConnected
  BY <1>3 DEF ReportConnected, ResetProgress, OneConnection, Linked, OffsetIsOneCollection
<1>4. CASE StreamFails
  BY <1>4 DEF StreamFails, OneConnection, Linked, OffsetIsOneCollection
<1>5. CASE PauseEnds
  BY <1>5 DEF PauseEnds, OneConnection, Linked, OffsetIsOneCollection
<1>6. CASE ReadTest
  BY <1>6 DEF ReadTest, OneConnection, Linked, OffsetIsOneCollection
<1>7. CASE Receive
  <2>1. worker = "recv" /\ worker' \in {"read", "samples"}
        /\ UNCHANGED <<zeroingVars, connection>>
    BY <1>7, ReceiveType DEF Receive
  <2>2. /\ partial' \in {0, connection} /\ WholeFrames(samples', connection)
        /\ worker' = "read" => samples' = <<>>
    BY <1>7, ReceiveFrames
  <2> QED
    BY <2>1, <2>2 DEF OneConnection, Linked, OffsetIsOneCollection
<1>8. CASE CollectSample
  <2>1. worker = "samples" /\ samples' = Tail(samples) /\ worker' = AfterSample(Tail(samples))
        /\ Collect(Head(samples)) /\ UNCHANGED <<connection, partial>>
    BY <1>8 DEF CollectSample
  <2>2. worker' \in {"read", "samples"} /\ (worker' = "read" => samples' = <<>>)
    BY <2>1 DEF AfterSample
  <2>3. WholeFrames(samples', connection) /\ partial' \in {0, connection}
    BY <2>1 DEF Typed, TypeOK, OneConnection, Linked
  <2>4. (active' # 0 => WholeFrames(sums', connection)) /\ OffsetIsOneCollection'
    BY <2>1, CollectFrames
  <2> QED
    BY <2>1, <2>2, <2>3, <2>4 DEF OneConnection, Linked
<1>9. CASE CorrectSample
  <2>1. WholeFrames(samples', connection)
    BY <1>9 DEF CorrectSample, Typed, TypeOK, OneConnection, Linked
  <2> QED
    BY <1>9, <2>1 DEF CorrectSample, OneConnection, Linked, OffsetIsOneCollection
<1>10. CASE SkipSample
  <2>1. WholeFrames(samples', connection)
    BY <1>10 DEF SkipSample, Typed, TypeOK, OneConnection, Linked
  <2>2. worker' \in {"read", "samples"} /\ (worker' = "read" => samples' = <<>>)
    BY <1>10 DEF SkipSample, AfterSample
  <2> QED
    BY <1>10, <2>1, <2>2 DEF SkipSample, OneConnection, Linked, OffsetIsOneCollection
<1>11. CASE PublishWrench
  BY <1>11 DEF PublishWrench, AfterSample, OneConnection, Linked, OffsetIsOneCollection
<1>12. CASE CallZero
  BY <1>12 DEF CallZero, Request, OneConnection, Linked, OffsetIsOneCollection
<1>13. CASE WaitReturns \/ WaitGivesUp \/ Interrupt \/ StopWorker \/ JoinWorker
  BY <1>13 DEF WaitReturns, WaitGivesUp, Interrupt, StopWorker, JoinWorker, OneConnection,
     Linked, OffsetIsOneCollection
<1>14. CASE CancelZero
  BY <1>14 DEF CancelZero, CancelActive, OneConnection, Linked, OffsetIsOneCollection
<1>15. CASE CloseZeroing
  BY <1>15 DEF CloseZeroing, OneConnection, Linked, OffsetIsOneCollection
<1>16. CASE UNCHANGED vars
  BY <1>16 DEF vars, OneConnection, Linked, OffsetIsOneCollection
<1> QED
  BY <1>1, <1>2, <1>3, <1>4, <1>5, <1>6, <1>7, <1>8, <1>9, <1>10, <1>11, <1>12, <1>13, <1>14,
     <1>15, <1>16 DEF Next, WorkerNext, ExecutorAdvances

\* No offset mixes samples of two connections, or holds one whose frame was put
\* together across a reconnection.
THEOREM OffsetsAreWhole == Spec => []OffsetIsOneCollection
<1>1. OneConnection => OffsetIsOneCollection
  BY DEF OneConnection
<1> QED
  BY <1>1, AlwaysTyped, InitOneConnection, NextOneConnection, PTL DEF Spec

-----------------------------------------------------------------------------
(* SuccessIsApplied and NoOrphanCollection: the generations are in order.  *)

Ordered ==
    /\ offset.generation = completed
    /\ completed <= generation
    /\ active # 0 => active = generation /\ completed < active
    /\ worker = "publish" => wrench = completed
    /\ executor \in {"wait", "cancel"} => serving = generation
    /\ \A g \in Generations :
          /\ g > generation => outcome[g] = "none"
          /\ outcome[g] = "ok" => g <= completed
          /\ outcome[g] = "failed" => active # g

LEMMA InitOrdered == Init => Ordered
BY StreamerAssumption DEF Init, Ordered, Generations

LEMMA NextOrdered == Typed /\ Ordered /\ [Next]_vars => Ordered'
<1> SUFFICES ASSUME Typed, Ordered, [Next]_vars PROVE Ordered'
  OBVIOUS
<1> USE DEF zeroingVars, workerVars, executorVars, Generations
<1>1. /\ generation \in Nat /\ active \in Nat /\ completed \in Nat /\ MaxGenerations \in Nat
      /\ outcome \in [Generations -> Outcomes]
  BY StreamerAssumption DEF Typed, TypeOK
<1>2. CASE LoopTest \/ Connect \/ StreamFails \/ PauseEnds \/ ReadTest
  BY <1>2 DEF LoopTest, Connect, StreamFails, PauseEnds, ReadTest, Ordered
<1>3. CASE ReportConnected
  BY <1>3 DEF ReportConnected, ResetProgress, Ordered
<1>4. CASE Receive
  BY <1>4, ReceiveType DEF Receive, Ordered
<1>5. CASE CollectSample
  <2>1. worker' # "publish" /\ Collect(Head(samples))
        /\ UNCHANGED <<executor, serving, outcome>>
    BY <1>5, TailType DEF CollectSample
  <2>2. CASE count + 1 < ZeroSampleCount
    BY <2>1, <2>2 DEF Collect, Ordered
  <2>3. CASE ~(count + 1 < ZeroSampleCount)
    BY <1>1, <2>1, <2>3 DEF Collect, Ordered
  <2> QED
    BY <2>2, <2>3
<1>6. CASE CorrectSample
  BY <1>6 DEF CorrectSample, Ordered
<1>7. CASE SkipSample
  BY <1>7, TailType DEF SkipSample, Ordered
<1>8. CASE PublishWrench
  BY <1>8 DEF PublishWrench, AfterSample, Ordered
<1>9. CASE CallZero
  <2>1. generation + 1 \in Generations
    BY <1>1, <1>9 DEF CallZero
  <2> QED
    BY <1>1, <1>9, <2>1 DEF CallZero, Request, Ordered
<1>10. CASE WaitReturns
  BY <1>1, <1>10 DEF WaitReturns, Typed, Ordered
<1>11. CASE WaitGivesUp \/ Interrupt \/ StopWorker \/ JoinWorker
  BY <1>11 DEF WaitGivesUp, Interrupt, StopWorker, JoinWorker, Ordered
<1>12. CASE CancelZero
  BY <1>1, <1>12 DEF CancelZero, CancelActive, Typed, Ordered
<1>13. CASE CloseZeroing
  BY <1>1, <1>13 DEF CloseZeroing, Ordered
<1>14. CASE UNCHANGED vars
  BY <1>14 DEF vars, Ordered
<1> QED
  BY <1>2, <1>3, <1>4, <1>5, <1>6, <1>7, <1>8, <1>9, <1>10, <1>11, <1>12, <1>13, <1>14
     DEF Next, WorkerNext, ExecutorAdvances

LEMMA AlwaysOrdered == Spec => []Ordered
BY AlwaysTyped, InitOrdered, NextOrdered, PTL DEF Spec

\* The offset of a request that was answered with success is in force, unless a
\* later one is.
THEOREM SuccessesAreApplied == Spec => []SuccessIsApplied
<1>1. Typed /\ Ordered => SuccessIsApplied
  BY StreamerAssumption DEF Typed, TypeOK, Ordered, SuccessIsApplied, Generations
<1> QED
  BY <1>1, AlwaysTyped, AlwaysOrdered, PTL

\* No answered request leaves its collection active.
THEOREM NoOrphans == Spec => []NoOrphanCollection
<1>1. Typed /\ Ordered => NoOrphanCollection
  BY StreamerAssumption DEF Typed, TypeOK, Ordered, NoOrphanCollection, Generations
<1> QED
  BY <1>1, AlwaysTyped, AlwaysOrdered, PTL

-----------------------------------------------------------------------------
(* OneStrayWrench.                                                         *)

\* The stray wrench is corrected before its collection begins.
StrayBefore ==
    /\ strays <= 1
    /\ active # 0 /\ worker = "publish" => strays = 0

\* At most one wrench is published while a collection is active.
THEOREM OneStray == Spec => []OneStrayWrench
<1>1. Init => StrayBefore
  BY DEF Init, StrayBefore
<1>2. ASSUME Typed, StrayBefore, [Next]_vars
      PROVE  StrayBefore'
  <2> USE DEF zeroingVars, workerVars, executorVars
  <2>1. CASE LoopTest \/ Connect \/ StreamFails \/ PauseEnds \/ ReadTest
    BY <1>2, <2>1 DEF LoopTest, Connect, StreamFails, PauseEnds, ReadTest, StrayBefore
  <2>2. CASE ReportConnected
    BY <1>2, <2>2 DEF ReportConnected, StrayBefore
  <2>3. CASE Receive
    BY <1>2, <2>3, ReceiveType DEF Receive, StrayBefore
  <2>4. CASE CollectSample
    BY <1>2, <2>4, TailType DEF CollectSample, StrayBefore
  <2>5. CASE CorrectSample \/ SkipSample
    BY <1>2, <2>5 DEF CorrectSample, SkipSample, StrayBefore
  <2>6. CASE PublishWrench
    BY <1>2, <2>6 DEF PublishWrench, AfterSample, StrayBefore
  <2>7. CASE CallZero
    BY <1>2, <2>7 DEF CallZero, StrayBefore
  <2>8. CASE WaitReturns \/ WaitGivesUp \/ Interrupt \/ StopWorker \/ JoinWorker
    BY <1>2, <2>8 DEF WaitReturns, WaitGivesUp, Interrupt, StopWorker, JoinWorker, StrayBefore
  <2>9. CASE CancelZero
    BY <1>2, <2>9 DEF CancelZero, CancelActive, StrayBefore
  <2>10. CASE CloseZeroing
    BY <1>2, <2>10 DEF CloseZeroing, StrayBefore
  <2>11. CASE UNCHANGED vars
    BY <1>2, <2>11 DEF vars, StrayBefore
  <2> QED
    BY <1>2, <2>1, <2>2, <2>3, <2>4, <2>5, <2>6, <2>7, <2>8, <2>9, <2>10, <2>11
       DEF Next, WorkerNext, ExecutorAdvances
<1>3. StrayBefore => OneStrayWrench
  BY DEF StrayBefore, OneStrayWrench
<1> QED
  BY <1>1, <1>2, <1>3, AlwaysTyped, PTL DEF Spec
=============================================================================
