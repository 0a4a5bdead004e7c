----------------------------- MODULE FTStreamer -----------------------------
(***************************************************************************)
(* The force-torque streamer robotiq_ft_streamer: a worker thread reads    *)
(* samples from a TCP stream that breaks and comes back, corrects them by  *)
(* a software offset and publishes them; the executor thread serves the    *)
(* zero requests, one at a time (rclpy.spin), and shuts the node down.     *)
(* They share the ZeroingManager, whose methods hold one lock.             *)
(*                                                                         *)
(* A collection is known by its generation.  A sample is the pair of the   *)
(* connections its frame began and ended on; a sum is the sequence of what *)
(* was added up, which is what its mean is about.                          *)
(***************************************************************************)
EXTENDS Integers, Sequences

CONSTANTS
    ZeroSampleCount,  \* zero_sample_count
    MaxChunk,         \* bound: frames that end in one recv()
    MaxConnections,   \* bound: connections the stream accepts
    MaxGenerations    \* bound: collections requested

ASSUME StreamerAssumption ==
    /\ ZeroSampleCount \in Nat \ {0} /\ MaxChunk \in Nat
    /\ MaxConnections \in Nat /\ MaxGenerations \in Nat \ {0}

VARIABLES
    generation,  \* _generation
    active,      \* _active_generation, or 0
    count,       \* _sample_count
    sums,        \* _sums: the samples added up
    offset,      \* _offset: what it is the mean of, and whose collection
    completed,   \* _completed.generation, or 0
    closed,      \* _closed
    worker,      \* the worker's next step
    connection,  \* the number of connections so far
    partial,     \* SampleParser._buffer: where its incomplete frame began, or 0
    samples,     \* the samples of the last chunk still to be handled
    wrench,      \* generation of the offset in the wrench about to be published
    stopEvent,   \* _stop_event
    executor,    \* the main thread's next step
    serving,     \* the generation the zero service waits for
    outcome,     \* history: what became of each generation
    strays       \* history: wrenches published while the latest collection is active

zeroingVars == <<generation, active, count, sums, offset, completed, closed>>
workerVars == <<worker, connection, partial, samples, wrench>>
executorVars == <<stopEvent, executor, serving>>
vars == <<zeroingVars, workerVars, executorVars, outcome, strays>>

Generations == 1..MaxGenerations
Connections == 1..MaxConnections
Sample == Connections \X Connections
Offset == [generation : {0} \union Generations, samples : Seq(Sample)]
Outcomes == {"none", "startup", "waiting", "ok", "failed"}

TypeOK ==
    /\ generation \in {0} \union Generations
    /\ active \in {0} \union Generations /\ completed \in {0} \union Generations
    /\ count \in 0..ZeroSampleCount
    /\ sums \in Seq(Sample) /\ samples \in Seq(Sample)
    /\ offset \in Offset
    /\ worker \in {"top", "connect", "report", "read", "recv", "samples", "publish",
                   "pause", "ended"}
    /\ connection \in 0..MaxConnections /\ partial \in 0..MaxConnections
    /\ wrench \in {0} \union Generations
    /\ executor \in {"spin", "wait", "cancel", "interrupted", "close", "join", "destroyed"}
    /\ serving \in {0} \union Generations
    /\ stopEvent \in BOOLEAN /\ closed \in BOOLEAN
    /\ outcome \in [Generations -> Outcomes]
    /\ strays \in Nat

\* With startup_zero, the constructor requests the first collection.
Init ==
    /\ generation \in {0, 1} /\ active = generation
    /\ count = 0 /\ sums = <<>>
    /\ offset = [generation |-> 0, samples |-> <<>>]
    /\ completed = 0 /\ closed = FALSE
    /\ worker = "top" /\ connection = 0 /\ partial = 0 /\ samples = <<>> /\ wrench = 0
    /\ stopEvent = FALSE /\ executor = "spin" /\ serving = 0
    /\ outcome = [g \in Generations |-> IF g = generation THEN "startup" ELSE "none"]
    /\ strays = 0

-----------------------------------------------------------------------------
(* ZeroingManager: each method is one step, under its lock.                *)

Request ==
    /\ generation' = generation + 1 /\ active' = generation + 1
    /\ count' = 0 /\ sums' = <<>>
    /\ UNCHANGED <<offset, completed, closed>>

\* Fault for ResetProgress: the sums of the lost connection are kept.
ResetProgressCountOnly ==
    /\ count' = IF active = 0 THEN count ELSE 0
    /\ UNCHANGED <<generation, active, sums, offset, completed, closed>>

ResetProgress ==
    /\ count' = IF active = 0 THEN count ELSE 0
    /\ sums' = IF active = 0 THEN sums ELSE <<>>
    /\ UNCHANGED <<generation, active, offset, completed, closed>>

\* Fault for Collect: the number of samples is tested with <=.
CollectOneTooMany(sample) ==
    /\ active # 0
    /\ sums' = Append(sums, sample)
    /\ count' = count + 1
    /\ IF count + 1 <= ZeroSampleCount THEN UNCHANGED <<active, offset, completed>>
       ELSE /\ offset' = [generation |-> active, samples |-> sums']
            /\ completed' = active
            /\ active' = 0
    /\ UNCHANGED <<generation, closed>>

\* Adds a sample to the active collection, and completes it with the last one.
Collect(sample) ==
    /\ active # 0
    /\ sums' = Append(sums, sample)
    /\ count' = count + 1
    /\ IF count + 1 < ZeroSampleCount THEN UNCHANGED <<active, offset, completed>>
       ELSE /\ offset' = [generation |-> active, samples |-> sums']
            /\ completed' = active
            /\ active' = 0
    /\ UNCHANGED <<generation, closed>>

\* Fault for CancelActive: it only wakes the waiters.
CancelActiveNothing(g) == g = serving /\ UNCHANGED zeroingVars

\* cancel()
CancelActive(g) ==
    /\ active' = IF active = g THEN 0 ELSE active
    /\ UNCHANGED <<generation, count, sums, offset, completed, closed>>

-----------------------------------------------------------------------------
(* The worker thread: FTStreamClient.run().                                *)

\* while not stop_event.is_set()
LoopTest ==
    /\ worker = "top"
    /\ worker' = IF stopEvent THEN "ended" ELSE "connect"
    /\ UNCHANGED <<zeroingVars, connection, partial, samples, wrench, executorVars, outcome, strays>>

\* Fault for Connect: the incomplete frame of the last connection stays.
ConnectKeepsFrame ==
    /\ worker = "connect" /\ connection < MaxConnections
    /\ worker' = "report" /\ connection' = connection + 1
    /\ UNCHANGED <<zeroingVars, partial, samples, wrench, executorVars, outcome, strays>>

\* The connection opens, and the parser drops the incomplete frame.
Connect ==
    /\ worker = "connect" /\ connection < MaxConnections
    /\ worker' = "report" /\ connection' = connection + 1 /\ partial' = 0
    /\ UNCHANGED <<zeroingVars, samples, wrench, executorVars, outcome, strays>>

ReportConnected ==
    /\ worker = "report" /\ worker' = "read"
    /\ ResetProgress
    /\ UNCHANGED <<connection, partial, samples, wrench, executorVars, outcome, strays>>

\* create_connection() or recv() fails, the stream ends or becomes stale: the
\* socket is closed, and the worker pauses unless it is to stop.
StreamFails ==
    /\ worker \in {"connect", "recv"}
    /\ worker' = IF stopEvent THEN "top" ELSE "pause"
    /\ UNCHANGED <<zeroingVars, connection, partial, samples, wrench, executorVars, outcome, strays>>

\* stop_event.wait(reconnect_delay)
PauseEnds ==
    /\ worker = "pause" /\ worker' = "top"
    /\ UNCHANGED <<zeroingVars, connection, partial, samples, wrench, executorVars, outcome, strays>>

\* while not stop_event.is_set(), in _read_connection(); at the end the socket
\* is closed.
ReadTest ==
    /\ worker = "read"
    /\ worker' = IF stopEvent THEN "top" ELSE "recv"
    /\ UNCHANGED <<zeroingVars, connection, partial, samples, wrench, executorVars, outcome, strays>>

\* A chunk in which n frames end, the first of them perhaps begun in an earlier
\* chunk, and after them perhaps another begins.  With n = 0 it is also a recv()
\* that times out.
Receive ==
    /\ worker = "recv"
    /\ \E n \in 0..MaxChunk, begins \in BOOLEAN :
        /\ samples' = [i \in 1..n |-> <<IF i = 1 /\ partial # 0 THEN partial ELSE connection,
                                        connection>>]
        /\ partial' = IF n = 0 /\ partial # 0 THEN partial
                      ELSE IF begins THEN connection ELSE 0
        /\ worker' = IF n = 0 THEN "read" ELSE "samples"
    /\ UNCHANGED <<zeroingVars, connection, wrench, executorVars, outcome, strays>>

\* The worker goes on with the chunk, or reads again.
AfterSample(rest) == IF rest = <<>> THEN "read" ELSE "samples"

\* process() consumes the sample.
CollectSample ==
    /\ worker = "samples"
    /\ Collect(Head(samples))
    /\ samples' = Tail(samples) /\ worker' = AfterSample(Tail(samples))
    /\ UNCHANGED <<connection, partial, wrench, executorVars, outcome, strays>>

\* Fault for CorrectSample: it also corrects, and publishes, samples that are
\* being collected.
CorrectAnySample ==
    /\ worker = "samples"
    /\ wrench' = offset.generation
    /\ samples' = Tail(samples) /\ worker' = "publish"
    /\ UNCHANGED <<zeroingVars, connection, partial, executorVars, outcome, strays>>

\* process() corrects the sample, and _publish_due() lets it through.
CorrectSample ==
    /\ worker = "samples" /\ active = 0
    /\ wrench' = offset.generation
    /\ samples' = Tail(samples) /\ worker' = "publish"
    /\ UNCHANGED <<zeroingVars, connection, partial, executorVars, outcome, strays>>

\* process() corrects the sample, and _publish_due() does not let it through.
SkipSample ==
    /\ worker = "samples" /\ active = 0
    /\ samples' = Tail(samples) /\ worker' = AfterSample(Tail(samples))
    /\ UNCHANGED <<zeroingVars, connection, partial, wrench, executorVars, outcome, strays>>

PublishWrench ==
    /\ worker = "publish" /\ worker' = AfterSample(samples)
    /\ wrench' = 0
    /\ strays' = IF active # 0 THEN strays + 1 ELSE strays
    /\ UNCHANGED <<zeroingVars, connection, partial, samples, executorVars, outcome>>

-----------------------------------------------------------------------------
(* The executor thread.                                                    *)

\* The zero service is called: request().
CallZero ==
    /\ executor = "spin" /\ generation < MaxGenerations
    /\ Request
    /\ executor' = "wait" /\ serving' = generation + 1
    /\ outcome' = [outcome EXCEPT ![generation + 1] = "waiting"]
    /\ strays' = 0
    /\ UNCHANGED <<workerVars, stopEvent>>

\* Fault for WaitReturns: any completed collection will do.
WaitReturnsAny ==
    /\ executor = "wait" /\ ~closed /\ completed # 0
    /\ executor' = "spin" /\ serving' = 0
    /\ outcome' = [outcome EXCEPT ![serving] = "ok"]
    /\ UNCHANGED <<zeroingVars, workerVars, stopEvent, strays>>

\* wait() finds its generation completed, and the service answers success.
WaitReturns ==
    /\ executor = "wait" /\ ~closed /\ completed = serving
    /\ executor' = "spin" /\ serving' = 0
    /\ outcome' = [outcome EXCEPT ![serving] = "ok"]
    /\ UNCHANGED <<zeroingVars, workerVars, stopEvent, strays>>

\* Fault for WaitGivesUp: there is no deadline.
WaitGivesUpSuperseded ==
    /\ executor = "wait"
    /\ completed # serving
    /\ closed \/ active # serving
    /\ executor' = "cancel"
    /\ UNCHANGED <<zeroingVars, workerVars, stopEvent, serving, outcome, strays>>

\* wait() returns None: closed or, its generation not being completed, not
\* active any more or out of time.  The deadline may pass at any moment.
WaitGivesUp ==
    /\ executor = "wait"
    /\ closed \/ completed # serving
    /\ executor' = "cancel"
    /\ UNCHANGED <<zeroingVars, workerVars, stopEvent, serving, outcome, strays>>

\* The service cancels its generation and answers failure.
CancelZero ==
    /\ executor = "cancel"
    /\ CancelActive(serving)
    /\ executor' = "spin" /\ serving' = 0
    /\ outcome' = [outcome EXCEPT ![serving] = "failed"]
    /\ UNCHANGED <<workerVars, stopEvent, strays>>

\* The node is told to stop; an interrupted service gives no answer.
Interrupt ==
    /\ executor \in {"spin", "wait", "cancel"}
    /\ executor' = "interrupted" /\ serving' = 0
    /\ UNCHANGED <<zeroingVars, workerVars, stopEvent, outcome, strays>>

\* Fault for StopWorker: destroy_node() does not set the event.
StopWorkerForgets ==
    /\ executor = "interrupted" /\ executor' = "close"
    /\ UNCHANGED <<zeroingVars, workerVars, stopEvent, serving, outcome, strays>>

\* destroy_node(): _stop_event.set()
StopWorker ==
    /\ executor = "interrupted" /\ executor' = "close"
    /\ stopEvent' = TRUE
    /\ UNCHANGED <<zeroingVars, workerVars, serving, outcome, strays>>

\* destroy_node(): _zeroing.close()
CloseZeroing ==
    /\ executor = "close" /\ executor' = "join"
    /\ closed' = TRUE /\ active' = 0
    /\ UNCHANGED <<generation, count, sums, offset, completed, workerVars, stopEvent, serving,
                   outcome, strays>>

\* destroy_node(): the worker is joined.  Its longest blocking call is shorter
\* than the time the join allows.
JoinWorker ==
    /\ executor = "join" /\ worker = "ended"
    /\ executor' = "destroyed"
    /\ UNCHANGED <<zeroingVars, workerVars, stopEvent, serving, outcome, strays>>

-----------------------------------------------------------------------------

WorkerNext ==
    \/ LoopTest \/ Connect \/ ReportConnected \/ StreamFails \/ PauseEnds \/ ReadTest
    \/ Receive \/ CollectSample \/ CorrectSample \/ SkipSample \/ PublishWrench

\* What the executor thread does by itself.
ExecutorAdvances ==
    WaitReturns \/ WaitGivesUp \/ CancelZero \/ StopWorker \/ CloseZeroing \/ JoinWorker

Next == WorkerNext \/ ExecutorAdvances \/ CallZero \/ Interrupt

Spec == Init /\ [][Next]_vars

\* Both threads run: the worker's blocking calls have timeouts, and wait() has
\* a deadline.  Nobody has to call the service, and the stream may stay silent.
FairSpec == Spec /\ WF_vars(WorkerNext) /\ WF_vars(ExecutorAdvances)

-----------------------------------------------------------------------------
(* Properties.                                                             *)

\* An offset is the mean of as many samples as the node is configured for, all
\* of them whole frames of one and the same connection: what was collected
\* before a reconnection, or parsed across one, never gets into it.
OffsetIsOneCollection ==
    offset.generation # 0 =>
        /\ Len(offset.samples) = ZeroSampleCount
        /\ \E c \in Connections : \A i \in DOMAIN offset.samples : offset.samples[i] = <<c, c>>

\* Once the service has answered success, its offset or a later one is in force,
\* for the stored offset and for every wrench that is still to be published.
SuccessIsApplied ==
    \A g \in Generations : outcome[g] = "ok" =>
        /\ offset.generation >= g
        /\ worker = "publish" => wrench >= g

\* The service leaves no collection behind: after a failed request the wrenches
\* are published again, whatever the stream did.
NoOrphanCollection ==
    \A g \in Generations : outcome[g] \in {"ok", "failed"} => active # g

\* Zeroing suppresses publication, but for the one wrench that was corrected
\* before the request and is published after it.
OneStrayWrench == strays <= 1

\* The zero service answers, even when the stream is silent, unless the node is
\* told to stop.
EveryZeroAnswered == (executor = "wait") ~> (executor \in {"spin", "interrupted"})

\* destroy_node() returns: the worker ends whatever the stream does.
ShutdownCompletes == (executor = "interrupted") ~> (executor = "destroyed")

\* README: "The previous offset remains active if the request fails."
FailedZeroKeepsOffset ==
    \A g \in Generations : outcome[g] = "failed" => offset.generation # g
=============================================================================
