-------------------------- MODULE Robotiq2FDriver --------------------------
(***************************************************************************)
(* The driver of the 2F gripper: DefaultDriver, DefaultSerial, the serial  *)
(* line and the gripper.  An operation of the driver is a sequence of      *)
(* exchanges; an exchange writes a request and reads as many bytes as its  *)
(* reply has, and is tried again when they do not come in time.            *)
(*                                                                         *)
(* Nothing in the driver is locked: an operation belongs to the thread     *)
(* that calls it, and two threads that call at once would interleave.      *)
(* Bytes are only counted.  A byte is late when the request it answers     *)
(* was written before the latest request.  What the driver makes of late   *)
(* bytes depends on where its replies overlap, and may be anything.  Of a  *)
(* position it matters only whether it is a number that was commanded.     *)
(***************************************************************************)
EXTENDS Integers

CONSTANTS
    MaxRetries,         \* kMaxRetries
    WriteResponseSize,  \* kWriteResponseSize
    ReadResponseSize,   \* kReadResponseSize
    MaxFaults,          \* bound: lost requests and replies, port errors, power cycles
    MaxDelays           \* bound: replies that come after the timeout

ASSUME SerialAssumption ==
    /\ MaxRetries \in Nat \ {0}
    /\ WriteResponseSize \in Nat \ {0} /\ ReadResponseSize \in Nat \ {0}
    /\ MaxFaults \in Nat /\ MaxDelays \in Nat

VARIABLES
    gripper,          \* the gripper: external
    wire,             \* bytes of replies under way
    input,            \* bytes in the input buffer of the port
    late,             \* how many of these bytes, the first ones, are late
    reply,            \* the status the gripper answered last
    calls,            \* the operation each thread has called
    activated,        \* history: activate() has returned since the last deactivate()
    lag,              \* history: how many late bytes stood before the end of the last response
    faults, delays    \* history: for the bounds

lineVars == <<wire, input, late, reply>>
driverVars == <<gripper, lineVars, calls, activated, lag, faults, delays>>

\* The thread that runs read(), write() and the transitions, and background_task().
Users == {"manager", "background"}
GripperStatuses == {"reset", "inProgress", "completed"}
Targets == {"number", "indeterminate"}
\* rACT and gSTA.
Gripper == [active : BOOLEAN, status : GripperStatuses]
Call == [op : {"activate", "deactivate", "set", "get"},
         phase : {"command", "status"},
         step : {"write", "read", "returned", "threw"},
         retries : 0..MaxRetries - 1, target : Targets]

DriverTypeOK ==
    /\ gripper \in Gripper
    /\ wire \in Nat /\ input \in Nat /\ late \in Nat
    /\ reply \in GripperStatuses
    /\ calls \in [Users -> Call]
    /\ activated \in BOOLEAN /\ lag \in Nat
    /\ faults \in 0..MaxFaults /\ delays \in 0..MaxDelays

DriverInit ==
    /\ gripper \in {g \in Gripper : g.active = (g.status # "reset")}
    /\ wire = 0 /\ input = 0 /\ late = 0
    /\ reply = gripper.status
    /\ calls = [u \in Users |-> [op |-> "get", phase |-> "status", step |-> "returned",
                                 retries |-> 0, target |-> "number"]]
    /\ activated = FALSE /\ lag = 0 /\ faults = 0 /\ delays = 0

Busy(u) == calls[u].step \in {"write", "read"}
Returned(u) == calls[u].step = "returned"
Threw(u) == calls[u].step = "threw"

-----------------------------------------------------------------------------
(* Operations: how a thread calls one.  They take their steps below.       *)

Begin(u, op, target) ==
    /\ calls' = [calls EXCEPT ![u] =
                   [op |-> op, phase |-> IF op = "get" THEN "status" ELSE "command",
                    step |-> "write", retries |-> 0, target |-> target]]
    /\ activated' = (activated /\ op # "deactivate")
    /\ UNCHANGED <<gripper, lineVars, lag, faults, delays>>

\* The operations without a target.
BeginPlain(u, op) == Begin(u, op, "number")

-----------------------------------------------------------------------------
(* The gripper.                                                            *)

\* Registers { 0x0100, 0, 0 }, { 0, 0, 0 } and 0x09 with a position: rACT
\* starts the activation when it rises, and a reset when it is cleared.
Handles(call) ==
    IF call.phase = "status" THEN gripper
    ELSE IF call.op = "deactivate"
         THEN [gripper EXCEPT !.active = FALSE, !.status = "reset"]
         ELSE [gripper EXCEPT
                 !.active = TRUE,
                 !.status = IF gripper.active THEN @ ELSE "inProgress"]

Activates ==
    /\ gripper.status = "inProgress"
    /\ gripper' = [gripper EXCEPT !.status = "completed"]
    /\ UNCHANGED <<lineVars, calls, activated, lag, faults, delays>>

PowerCycle ==
    /\ faults < MaxFaults /\ faults' = faults + 1
    /\ gripper' = [gripper EXCEPT !.active = FALSE, !.status = "reset"]
    /\ UNCHANGED <<lineVars, calls, activated, lag, delays>>

-----------------------------------------------------------------------------
(* The line: bytes arrive in their order, in any portions, or are lost.    *)

Lesser(a, b) == IF a < b THEN a ELSE b
Remainder(a, b) == IF a < b THEN 0 ELSE a - b

Arrive ==
    /\ \E n \in 1..wire : wire' = wire - n /\ input' = input + n
    /\ UNCHANGED <<gripper, late, reply, calls, activated, lag, faults, delays>>

ReplyLost ==
    /\ wire > 0 /\ faults < MaxFaults /\ faults' = faults + 1
    /\ wire' = 0
    /\ late' = Lesser(late, input)
    /\ UNCHANGED <<gripper, input, reply, calls, activated, lag, delays>>

-----------------------------------------------------------------------------
(* An exchange: send(), DefaultSerial::write() and read().                 *)

ResponseSize(call) == IF call.phase = "status" THEN ReadResponseSize ELSE WriteResponseSize

\* The request is written and answered, or lost.  The input buffer is not emptied.
SerialWrite(u) ==
    /\ calls[u].step = "write"
    /\ calls' = [calls EXCEPT ![u].step = "read"]
    /\ late' = input + wire
    /\ \/ /\ gripper' = Handles(calls[u])
          /\ reply' = IF calls[u].phase = "status" THEN gripper.status ELSE reply
          /\ wire' = wire + ResponseSize(calls[u])
          /\ UNCHANGED faults
       \/ /\ faults < MaxFaults /\ faults' = faults + 1
          /\ UNCHANGED <<gripper, reply, wire>>
    /\ UNCHANGED <<input, activated, lag, delays>>

\* The exchange is over; send() counts its attempts in a local variable.
Over(call, step) == [call EXCEPT !.step = step, !.retries = 0]

\* Fault for Failed: deactivate() does not look at the response.
FailedReturns(call) ==
    IF call.retries + 1 < MaxRetries
    THEN [call EXCEPT !.retries = @ + 1, !.step = "write"]
    ELSE Over(call, IF call.op = "deactivate" THEN "returned" ELSE "threw")

\* The catch block of send(): another attempt, or an empty response, on
\* which every operation throws.
Failed(call) ==
    IF call.retries + 1 = MaxRetries THEN Over(call, "threw")
    ELSE [call EXCEPT !.retries = @ + 1, !.step = "write"]

\* write() transmits too few bytes, or throws what send() does not catch.
SerialWriteFails(u) ==
    /\ calls[u].step = "write"
    /\ faults < MaxFaults /\ faults' = faults + 1
    /\ calls' \in {[calls EXCEPT ![u] = Failed(@)], [calls EXCEPT ![u] = Over(@, "threw")]}
    /\ UNCHANGED <<gripper, lineVars, activated, lag, delays>>

\* Fault for SerialReadFails: the bytes that came are left in the buffer.
SerialReadFailsLeavesBytes(u) ==
    /\ calls[u].step = "read" /\ input < ResponseSize(calls[u])
    /\ IF wire = 0 THEN UNCHANGED delays
       ELSE delays < MaxDelays /\ delays' = delays + 1
    /\ calls' = [calls EXCEPT ![u] = Failed(@)]
    /\ UNCHANGED <<gripper, lineVars, activated, lag, faults>>

\* read() times out, or throws what send() does not catch.  The bytes that
\* came are gone; those under way will come late.
SerialReadFails(u) ==
    /\ calls[u].step = "read" /\ input < ResponseSize(calls[u])
    /\ IF wire = 0 THEN UNCHANGED delays
       ELSE delays < MaxDelays /\ delays' = delays + 1
    /\ \/ calls' = [calls EXCEPT ![u] = Failed(@)] /\ UNCHANGED faults
       \/ /\ faults < MaxFaults /\ faults' = faults + 1
          /\ calls' = [calls EXCEPT ![u] = Over(@, "threw")]
    /\ input' = 0 /\ late' = Remainder(late, input)
    /\ UNCHANGED <<gripper, wire, reply, activated, lag>>

\* Fault for StillWaiting: the loop waits for COMPLETED.
StillWaitingForCompletion(status) == status # "completed"

\* activate() asks for the status again.
StillWaiting(status) == status = "inProgress"

\* What follows a response: update_status() stores gripper_status_, which only
\* activate() reads, at once, and the rest of the operation.
Accept(u) ==
    LET call == calls[u] IN
    IF call.phase = "command"
    THEN /\ calls' = IF call.op = "activate"
                     THEN [calls EXCEPT ![u] = [Over(call, "write") EXCEPT !.phase = "status"]]
                     ELSE [calls EXCEPT ![u] = Over(call, "returned")]
         /\ UNCHANGED activated
    ELSE \E status \in IF late = 0 THEN {reply} ELSE GripperStatuses :
            LET waits == call.op = "activate" /\ StillWaiting(status)
            IN  /\ calls' = IF waits
                            THEN [calls EXCEPT ![u] = Over(call, "write")]
                            ELSE [calls EXCEPT ![u] = Over(call, "returned")]
                /\ activated' = (activated \/ (call.op = "activate" /\ ~waits))

\* All bytes of a response are there: neither their checksum nor what they
\* say about the request is looked at.
SerialRead(u) ==
    /\ calls[u].step = "read" /\ input >= ResponseSize(calls[u])
    /\ input' = input - ResponseSize(calls[u])
    /\ late' = Remainder(late, ResponseSize(calls[u])) /\ lag' = late
    /\ Accept(u)
    /\ UNCHANGED <<gripper, wire, reply, faults, delays>>

Exchange(u) ==
    SerialWrite(u) \/ SerialWriteFails(u) \/ SerialReadFails(u) \/ SerialRead(u)

Environment == Activates \/ PowerCycle \/ Arrive \/ ReplyLost
=============================================================================
