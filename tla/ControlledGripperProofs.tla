----------------------- MODULE ControlledGripperProofs -----------------------
(***************************************************************************)
(* Theorems about ControlledGripper, for every value of its constants: any *)
(* number of requests of any kind, any backend that keeps the contract.    *)
(***************************************************************************)
EXTENDS ControlledGripper, TLAPS

(***************************************************************************)
(* The steps below are those of a system that does more than               *)
(* ControlledGripper: a command that is published may find any of those    *)
(* before it lost, not only the oldest of a full topic, and no outage is   *)
(* counted.  What holds of these steps holds of the controller over its    *)
(* contract (NextIsOpen), and over the driver itself (GripperStackProofs). *)
(***************************************************************************)
PublishLossy(o) ==
    /\ op[o].pc = "publish"
    /\ \/ /\ stage = "spinning"
          /\ \E kept \in Backend!Remainders(commandTopic) :
                commandTopic' = Append(kept, op[o].command)
       \/ stage # "spinning" /\ commandTopic' = commandTopic
    /\ op' = [op EXCEPT ![o] =
            CASE @.phase = "stop" -> Ended(@, "done", "ok")
              [] @.phase = "halt" -> [@ EXCEPT !.pc = "finish"]
              [] OTHER            -> [@ EXCEPT !.pc = "wait"]]
    /\ UNCHANGED <<statusTopic, nodeVars>>

AdvancesLossy(o) ==
    \/ Begin(o) \/ CheckFails(o) \/ Check(o) \/ CopyLast(o)
    \/ AssignId(o) \/ Remember(o) \/ PublishLossy(o)
    \/ Finish(o) \/ Release(o)

ControllerLossy ==
    /\ \/ ReceiveStatus
       \/ \E o \in Ops : Call(o) \/ Cancel(o) \/ AdvancesLossy(o) \/ Ends(o)
       \/ SpinEnds \/ Destroy \/ RestartController
    /\ UNCHANGED backendOnly

AnyBackend == Backend!BackendNext /\ UNCHANGED <<nodeVars, op>>

openVars == <<controllerVars, backendOnly>>
OpenNext == ControllerLossy \/ AnyBackend

\* The locals of a request that decide where it goes.
Fields == {"kind", "pc", "phase", "goal", "command", "sent", "life", "connection",
           "cancelling", "result"}

\* Every request has its locals, and its kind fits its next step: what leads to a
\* wait or to ~BusyGuard is no stop, and a stop is known by its phase.
Shaped(o) ==
    /\ Fields \subseteq DOMAIN op[o]
    /\ op[o].kind \in Kinds \union {"none"}
    /\ op[o].pc # "idle" => op[o].kind # "none"
    /\ op[o].pc \in {"begin", "wait", "finish", "release"} => op[o].kind # "stop"
    /\ op[o].pc = "copy" => op[o].kind = "stop"
    /\ op[o].pc \in {"copy", "assign", "remember", "publish"} =>
          (op[o].kind = "stop" <=> op[o].phase = "stop")

AllShaped == DOMAIN op = Ops /\ \A o \in Ops : Shaped(o)

\* Request o moves on, keeping the flag it holds, or not holding it either way.
Keeps(o) ==
    /\ DOMAIN op' = Ops
    /\ \A p \in Ops \ {o} : op'[p] = op[p]
    /\ Shaped(o)'
    /\ Holds(o)' <=> Holds(o)
    /\ busy' = busy

LEMMA KeepsInductive ==
    ASSUME AllShaped, OneOperation, NEW o \in Ops, Keeps(o)
    PROVE  AllShaped' /\ OneOperation'
<1>1. \A p \in Ops : Holds(p)' <=> Holds(p)
  <2> TAKE p \in Ops
  <2>1. CASE p = o
    BY <2>1 DEF Keeps
  <2>2. CASE p # o
    BY <2>2 DEF Keeps, Holds
  <2> QED
    BY <2>1, <2>2
<1>2. OneOperation'
  BY <1>1 DEF OneOperation, Keeps
<1>3. ASSUME NEW p \in Ops, p # o PROVE Shaped(p)'
  BY <1>3 DEF Keeps, AllShaped, Shaped
<1>4. AllShaped'
  BY <1>3 DEF Keeps, AllShaped
<1> QED
  BY <1>2, <1>4

LEMMA InitHolds == Init => AllShaped /\ OneOperation
<1> SUFFICES ASSUME Init PROVE AllShaped /\ OneOperation
  OBVIOUS
<1>1. DOMAIN op = Ops /\ \A o \in Ops : op[o] = IdleOp
  BY DEF Init, ControllerInit
<1>2. Fields \subseteq DOMAIN IdleOp /\ IdleOp.kind = "none" /\ IdleOp.pc = "idle"
  BY DEF Fields, IdleOp
<1>3. AllShaped
  BY <1>1, <1>2 DEF AllShaped, Shaped
<1>4. \A o \in Ops : ~Holds(o)
  BY <1>1, <1>2 DEF Holds
<1>5. ~busy
  BY DEF Init, ControllerInit
<1> QED
  BY <1>3, <1>4, <1>5 DEF OneOperation

\* What is left of a request holds nothing.
LEMMA EndedShape ==
    ASSUME NEW r, NEW pc, NEW result
    PROVE  /\ Fields \subseteq DOMAIN Ended(r, pc, result)
           /\ Ended(r, pc, result).kind = r.kind
           /\ Ended(r, pc, result).pc = pc
BY DEF Ended, IdleOp, Fields

\* The exchange on busy_: the first to come gets the flag, the others end.
LEMMA BeginHolds ==
    ASSUME AllShaped, OneOperation, NEW o \in Ops, Begin(o)
    PROVE  AllShaped' /\ OneOperation'
<1>1. /\ op[o].pc = "begin" /\ op[o].kind \in Kinds /\ op[o].kind # "stop"
      /\ Fields \subseteq DOMAIN op[o] /\ DOMAIN op = Ops
  BY DEF Begin, AllShaped, Shaped, Kinds
<1>2. ~Holds(o)
  BY <1>1 DEF Holds
<1>3. CASE busy
  <2>1. op' = [op EXCEPT ![o] = Ended(op[o], "done", "busy")] /\ busy'
    BY <1>3 DEF Begin
  <2>2. op'[o] = Ended(op[o], "done", "busy")
    BY <1>1, <2>1
  <2>3. Fields \subseteq DOMAIN op'[o] /\ op'[o].kind = op[o].kind /\ op'[o].pc = "done"
    BY <2>2, EndedShape
  <2>4. Shaped(o)' /\ ~Holds(o)'
    BY <1>1, <2>3 DEF Shaped, Holds, Kinds
  <2>5. busy' = busy
    BY <1>3 DEF Begin
  <2>6. DOMAIN op' = Ops /\ \A p \in Ops \ {o} : op'[p] = op[p]
    BY <1>1, <2>1
  <2> QED
    BY <1>2, <2>4, <2>5, <2>6, KeepsInductive DEF Keeps
<1>4. CASE ~busy
  <2>1. op' = [op EXCEPT ![o] = [op[o] EXCEPT !.pc = "check"]] /\ busy'
    BY <1>4 DEF Begin
  <2>2. op'[o] = [op[o] EXCEPT !.pc = "check"]
    BY <1>1, <2>1
  <2>3. Fields \subseteq DOMAIN op'[o] /\ op'[o].kind = op[o].kind /\ op'[o].pc = "check"
    BY <1>1, <2>2 DEF Fields
  <2>4. Shaped(o)' /\ Holds(o)'
    BY <1>1, <2>3 DEF Shaped, Holds, Kinds
  <2>5. DOMAIN op' = Ops /\ \A p \in Ops \ {o} : op'[p] = op[p]
    BY <1>1, <2>1
  <2>6. \A p \in Ops \ {o} : ~Holds(p)' /\ Shaped(p)'
    BY <1>4, <2>5 DEF OneOperation, Holds, AllShaped, Shaped
  <2> QED
    BY <2>1, <2>4, <2>5, <2>6 DEF OneOperation, AllShaped
<1> QED
  BY <1>3, <1>4

\* ~BusyGuard: the one that holds the flag lowers it.
LEMMA ReleaseHolds ==
    ASSUME AllShaped, OneOperation, NEW o \in Ops, Release(o)
    PROVE  AllShaped' /\ OneOperation'
<1>1. /\ op[o].pc = "release" /\ op[o].kind \in Kinds /\ op[o].kind # "stop"
      /\ DOMAIN op = Ops
  BY DEF Release, AllShaped, Shaped, Kinds
<1>2. Holds(o)
  BY <1>1 DEF Holds, Kinds
<1>3. op' = [op EXCEPT ![o] = Ended(op[o], "done", op[o].result)] /\ ~busy'
  BY DEF Release
<1>4. op'[o] = Ended(op[o], "done", op[o].result)
  BY <1>1, <1>3
<1>5. Fields \subseteq DOMAIN op'[o] /\ op'[o].kind = op[o].kind /\ op'[o].pc = "done"
  BY <1>4, EndedShape
<1>6. Shaped(o)' /\ ~Holds(o)'
  BY <1>1, <1>5 DEF Shaped, Holds, Kinds
<1>7. DOMAIN op' = Ops /\ \A p \in Ops \ {o} : op'[p] = op[p]
  BY <1>1, <1>3
<1>8. \A p \in Ops \ {o} : ~Holds(p)' /\ Shaped(p)'
  BY <1>2, <1>7 DEF OneOperation, Holds, AllShaped, Shaped
<1> QED
  BY <1>3, <1>6, <1>7, <1>8 DEF OneOperation, AllShaped

-----------------------------------------------------------------------------
(* The steps of a request between the exchange and ~BusyGuard.             *)

\* A step that only changes locals of one request.
LEMMA Moved ==
    ASSUME AllShaped, NEW o \in Ops, NEW r, op' = [op EXCEPT ![o] = r]
    PROVE  op'[o] = r /\ DOMAIN op' = Ops /\ \A p \in Ops \ {o} : op'[p] = op[p]
BY DEF AllShaped

LEMMA CallKeeps == ASSUME AllShaped, ControllerAssumption, NEW o \in Ops, Call(o) PROVE Keeps(o)
<1>1. PICK kind \in KindsOf[o], goal \in Goals :
        op' = [op EXCEPT ![o].kind = kind, ![o].life = life,
                         ![o].goal = IF kind \in ActionKinds THEN goal ELSE @,
                         ![o].pc = IF kind = "stop" THEN "check" ELSE "begin"]
  BY DEF Call
<1>2. kind \in Kinds
  BY DEF ControllerAssumption
<1>3. Fields \subseteq DOMAIN op[o] /\ DOMAIN op = Ops /\ op[o].pc = "idle"
  BY DEF AllShaped, Shaped, Call
<1>4. /\ Fields \subseteq DOMAIN op'[o] /\ op'[o].kind = kind
      /\ op'[o].pc = (IF kind = "stop" THEN "check" ELSE "begin")
  BY <1>1, <1>3 DEF Fields
<1>5. DOMAIN op' = Ops /\ (\A p \in Ops \ {o} : op'[p] = op[p]) /\ busy' = busy
  BY <1>1, <1>3 DEF Call, nodeVars
<1>6. ~Holds(o) /\ ~Holds(o)'
  BY <1>3, <1>4 DEF Holds
<1>7. Shaped(o)'
  BY <1>2, <1>4 DEF Shaped, Kinds
<1> QED
  BY <1>5, <1>6, <1>7 DEF Keeps

LEMMA CancelKeeps == ASSUME AllShaped, NEW o \in Ops, Cancel(o) PROVE Keeps(o)
<1>1. op' = [op EXCEPT ![o].cancelling = TRUE] /\ busy' = busy
  BY DEF Cancel, nodeVars
<1>2. Fields \subseteq DOMAIN op[o] /\ DOMAIN op = Ops /\ Shaped(o)
  BY DEF AllShaped, Shaped
<1>3. /\ Fields \subseteq DOMAIN op'[o] /\ op'[o].kind = op[o].kind
      /\ op'[o].pc = op[o].pc /\ op'[o].phase = op[o].phase
  BY <1>1, <1>2 DEF Fields
<1>4. DOMAIN op' = Ops /\ \A p \in Ops \ {o} : op'[p] = op[p]
  BY <1>1, <1>2
<1>5. Shaped(o)' /\ (Holds(o)' <=> Holds(o))
  BY <1>2, <1>3 DEF Shaped, Holds
<1> QED
  BY <1>1, <1>4, <1>5 DEF Keeps

LEMMA CheckFailsKeeps == ASSUME AllShaped, NEW o \in Ops, CheckFails(o) PROVE Keeps(o)
<1>1. /\ op[o].pc = "check" /\ Fields \subseteq DOMAIN op[o] /\ op[o].kind \in Kinds
      /\ DOMAIN op = Ops /\ busy' = busy
  BY DEF CheckFails, AllShaped, Shaped, nodeVars
<1>2. CASE op[o].kind = "stop"
  <2>1. op' = [op EXCEPT ![o] = Ended(op[o], "done", "failed")]
    BY <1>2 DEF CheckFails
  <2>2. op'[o] = Ended(op[o], "done", "failed")
    BY <1>1, <2>1
  <2>3. Fields \subseteq DOMAIN op'[o] /\ op'[o].kind = op[o].kind /\ op'[o].pc = "done"
    BY <2>2, EndedShape
  <2>4. Shaped(o)' /\ ~Holds(o)' /\ ~Holds(o)
    BY <1>1, <1>2, <2>3 DEF Shaped, Holds
  <2> QED
    BY <1>1, <2>1, <2>4 DEF Keeps
<1>3. CASE op[o].kind # "stop"
  <2>1. op' = [op EXCEPT ![o] = [op[o] EXCEPT !.pc = "release",
                   !.result = IF op[o].kind \in ActionKinds THEN "aborted" ELSE "failed"]]
    BY <1>3 DEF CheckFails
  <2>2. op'[o] = [op[o] EXCEPT !.pc = "release",
                   !.result = IF op[o].kind \in ActionKinds THEN "aborted" ELSE "failed"]
    BY <1>1, <2>1
  <2>3. Fields \subseteq DOMAIN op'[o] /\ op'[o].kind = op[o].kind /\ op'[o].pc = "release"
    BY <1>1, <2>2 DEF Fields
  <2>4. Shaped(o)' /\ Holds(o)' /\ Holds(o)
    BY <1>1, <1>3, <2>3 DEF Shaped, Holds, Kinds
  <2> QED
    BY <1>1, <2>1, <2>4 DEF Keeps
<1> QED
  BY <1>2, <1>3

LEMMA CheckKeeps == ASSUME AllShaped, NEW o \in Ops, Check(o) PROVE Keeps(o)
<1>1. /\ op[o].pc = "check" /\ Fields \subseteq DOMAIN op[o] /\ op[o].kind \in Kinds
      /\ DOMAIN op = Ops /\ busy' = busy
  BY DEF Check, AllShaped, Shaped, nodeVars
<1>2. PICK command :
        op' = [op EXCEPT ![o].connection = current.connection_id,
                         ![o].phase = FirstPhase(op[o].kind),
                         ![o].command = command,
                         ![o].pc = IF op[o].kind = "stop" THEN "copy" ELSE "assign"]
  BY DEF Check
<1>3. /\ Fields \subseteq DOMAIN op'[o] /\ op'[o].kind = op[o].kind
      /\ op'[o].phase = FirstPhase(op[o].kind)
      /\ op'[o].pc = (IF op[o].kind = "stop" THEN "copy" ELSE "assign")
      /\ DOMAIN op' = Ops /\ \A p \in Ops \ {o} : op'[p] = op[p]
  BY <1>1, <1>2 DEF Fields
<1>4. op[o].kind = "stop" <=> FirstPhase(op[o].kind) = "stop"
  BY <1>1 DEF FirstPhase, Kinds
<1>5. Shaped(o)' /\ (Holds(o)' <=> Holds(o))
  BY <1>1, <1>3, <1>4 DEF Shaped, Holds, Kinds
<1> QED
  BY <1>1, <1>3, <1>5 DEF Keeps

\* CopyLast, AssignId, Remember: the command is completed.
LEMMA CommandKeeps ==
    ASSUME AllShaped, NEW o \in Ops, CopyLast(o) \/ AssignId(o) \/ Remember(o)
    PROVE  Keeps(o)
<1>1. Fields \subseteq DOMAIN op[o] /\ Shaped(o) /\ DOMAIN op = Ops /\ busy' = busy
  BY DEF CopyLast, AssignId, Remember, AllShaped, Shaped, nodeVars
<1>2. /\ op[o].pc \in {"copy", "assign", "remember"}
      /\ op'[o].pc \in {"assign", "remember", "publish"}
      /\ Fields \subseteq DOMAIN op'[o] /\ op'[o].kind = op[o].kind /\ op'[o].phase = op[o].phase
      /\ DOMAIN op' = Ops /\ \A p \in Ops \ {o} : op'[p] = op[p]
  <2>1. CASE CopyLast(o)
    BY <1>1, <2>1 DEF CopyLast, Fields
  <2>2. CASE AssignId(o)
    BY <1>1, <2>2 DEF AssignId, Fields
  <2>3. CASE Remember(o)
    BY <1>1, <2>3 DEF Remember, Goto, Fields
  <2> QED
    BY <2>1, <2>2, <2>3
<1>3. op[o].pc = "copy" => op[o].kind = "stop"
  BY <1>1 DEF Shaped
<1>4. Shaped(o)' /\ (Holds(o)' <=> Holds(o))
  BY <1>1, <1>2, <1>3 DEF Shaped, Holds
<1> QED
  BY <1>1, <1>2, <1>4 DEF Keeps

LEMMA PublishKeeps == ASSUME AllShaped, NEW o \in Ops, PublishLossy(o) PROVE Keeps(o)
<1>1. /\ op[o].pc = "publish" /\ Fields \subseteq DOMAIN op[o] /\ op[o].kind \in Kinds
      /\ op[o].kind = "stop" <=> op[o].phase = "stop"
      /\ DOMAIN op = Ops /\ busy' = busy
  BY DEF PublishLossy, AllShaped, Shaped, nodeVars
<1>2. CASE op[o].phase = "stop"
  <2>1. op' = [op EXCEPT ![o] = Ended(op[o], "done", "ok")]
    BY <1>2 DEF PublishLossy
  <2>2. op'[o] = Ended(op[o], "done", "ok")
    BY <1>1, <2>1
  <2>3. Fields \subseteq DOMAIN op'[o] /\ op'[o].kind = op[o].kind /\ op'[o].pc = "done"
    BY <2>2, EndedShape
  <2>4. Shaped(o)' /\ ~Holds(o)' /\ ~Holds(o)
    BY <1>1, <1>2, <2>3 DEF Shaped, Holds
  <2> QED
    BY <1>1, <2>1, <2>4 DEF Keeps
<1>3. CASE op[o].phase # "stop"
  <2>1. PICK pc \in {"finish", "wait"} : op' = [op EXCEPT ![o] = [op[o] EXCEPT !.pc = pc]]
    BY <1>3 DEF PublishLossy
  <2>2. op'[o] = [op[o] EXCEPT !.pc = pc]
    BY <1>1, <2>1
  <2>3. Fields \subseteq DOMAIN op'[o] /\ op'[o].kind = op[o].kind /\ op'[o].pc = pc
    BY <1>1, <2>2 DEF Fields
  <2>4. Shaped(o)' /\ Holds(o)' /\ Holds(o)
    BY <1>1, <1>3, <2>3 DEF Shaped, Holds, Kinds
  <2> QED
    BY <1>1, <2>1, <2>4 DEF Keeps
<1> QED
  BY <1>2, <1>3

\* A wait ends in a further command of the same request, or in its end.
LEMMA WaitKeeps ==
    ASSUME AllShaped, NEW o \in Ops, Ends(o)
    PROVE  Keeps(o)
<1>1. /\ op[o].pc = "wait" /\ Fields \subseteq DOMAIN op[o] /\ op[o].kind \in Kinds
      /\ op[o].kind # "stop" /\ DOMAIN op = Ops /\ busy' = busy
  BY DEF Ends, WaitFails, WaitSucceeds, WaitTimesOut, AllShaped, Shaped, nodeVars
<1> DEFINE GoesOn ==
      /\ op'[o].pc \in {"assign", "finish", "release"}
      /\ op'[o].pc = "assign" => op'[o].phase # "stop"
      /\ Fields \subseteq DOMAIN op'[o] /\ op'[o].kind = op[o].kind
      /\ DOMAIN op' = Ops /\ \A p \in Ops \ {o} : op'[p] = op[p]
<1>2. GoesOn
  <2>1. ASSUME NEW why, Abandon(o, why) PROVE GoesOn
    BY <1>1, <2>1 DEF Abandon, Fields
  <2>2. CASE WaitSucceeds(o)
    <3>1. CASE op[o].phase = "reset"
      BY <1>1, <2>2, <3>1 DEF WaitSucceeds, Fields
    <3>2. CASE op[o].phase # "reset"
      BY <1>1, <2>2, <3>2 DEF WaitSucceeds, Fields
    <3> QED
      BY <3>1, <3>2
  <2> QED
    BY <2>1, <2>2 DEF Ends, WaitFails, WaitTimesOut
<1>3. Shaped(o)' /\ Holds(o)' /\ Holds(o)
  BY <1>1, <1>2 DEF Shaped, Holds, Kinds
<1> QED
  BY <1>1, <1>2, <1>3 DEF Keeps

LEMMA FinishKeeps == ASSUME AllShaped, NEW o \in Ops, Finish(o) PROVE Keeps(o)
<1>1. /\ op[o].pc = "finish" /\ Fields \subseteq DOMAIN op[o] /\ op[o].kind \in Kinds
      /\ op[o].kind # "stop" /\ DOMAIN op = Ops /\ busy' = busy
  BY DEF Finish, AllShaped, Shaped, nodeVars
<1>2. /\ op'[o].pc = "release" /\ Fields \subseteq DOMAIN op'[o] /\ op'[o].kind = op[o].kind
      /\ DOMAIN op' = Ops /\ \A p \in Ops \ {o} : op'[p] = op[p]
  BY <1>1 DEF Finish, Fields
<1>3. Shaped(o)' /\ Holds(o)' /\ Holds(o)
  BY <1>1, <1>2 DEF Shaped, Holds, Kinds
<1> QED
  BY <1>1, <1>2, <1>3 DEF Keeps

-----------------------------------------------------------------------------
(* All steps.                                                              *)

\* A new process: nothing of the old one holds its flag.
LEMMA RestartHolds ==
    ASSUME AllShaped, RestartController
    PROVE  AllShaped' /\ OneOperation'
<1>1. op' = [o \in Ops |-> IF Underway(o) THEN Ended(op[o], "dead", "none") ELSE op[o]] /\ ~busy'
  BY DEF RestartController
<1>2. ASSUME NEW o \in Ops PROVE Shaped(o)' /\ ~Holds(o)'
  <2>1. CASE Underway(o)
    <3>1. op'[o] = Ended(op[o], "dead", "none")
      BY <1>1, <2>1
    <3>2. Fields \subseteq DOMAIN op'[o] /\ op'[o].kind = op[o].kind /\ op'[o].pc = "dead"
      BY <3>1, EndedShape
    <3> QED
      BY <2>1, <3>2 DEF AllShaped, Shaped, Holds, Underway
  <2>2. CASE ~Underway(o)
    <3>1. op'[o] = op[o]
      BY <1>1, <2>2
    <3> QED
      BY <2>2, <3>1 DEF AllShaped, Shaped, Holds, Underway
  <2> QED
    BY <2>1, <2>2
<1>3. AllShaped'
  BY <1>1, <1>2 DEF AllShaped
<1> QED
  BY <1>1, <1>2, <1>3 DEF OneOperation

LEMMA Stutters ==
    ASSUME AllShaped, OneOperation, UNCHANGED <<op, busy>>
    PROVE  AllShaped' /\ OneOperation'
BY DEF AllShaped, Shaped, OneOperation, Holds

LEMMA NextHolds == AllShaped /\ OneOperation /\ [OpenNext]_openVars => AllShaped' /\ OneOperation'
<1> SUFFICES ASSUME AllShaped, OneOperation, [OpenNext]_openVars PROVE AllShaped' /\ OneOperation'
  OBVIOUS
<1>1. ASSUME NEW o \in Ops, Call(o) \/ Cancel(o) \/ AdvancesLossy(o) \/ Ends(o)
      PROVE  AllShaped' /\ OneOperation'
  <2>1. CASE Begin(o)
    BY <2>1, BeginHolds
  <2>2. CASE Release(o)
    BY <2>2, ReleaseHolds
  <2>3. CASE ~Begin(o) /\ ~Release(o)
    <3>1. Keeps(o)
      BY <1>1, <2>3, ControllerAssumption, CallKeeps, CancelKeeps, CheckFailsKeeps, CheckKeeps,
         CommandKeeps, PublishKeeps, WaitKeeps, FinishKeeps DEF AdvancesLossy
    <3> QED
      BY <3>1, KeepsInductive
  <2> QED
    BY <2>1, <2>2, <2>3
<1>2. CASE ReceiveStatus \/ SpinEnds \/ Destroy
  <2>1. UNCHANGED <<op, busy>>
    BY <1>2 DEF ReceiveStatus, SpinEnds, Destroy
  <2> QED
    BY <2>1, Stutters
<1>3. CASE RestartController
  BY <1>3, RestartHolds
<1>4. CASE AnyBackend \/ UNCHANGED openVars
  <2>1. UNCHANGED <<op, busy>>
    BY <1>4 DEF AnyBackend, Backend!BackendNext, nodeVars, openVars, controllerVars
  <2> QED
    BY <2>1, Stutters
<1> QED
  BY <1>1, <1>2, <1>3, <1>4 DEF OpenNext, ControllerLossy

-----------------------------------------------------------------------------
(* Type correctness.                                                       *)

\* The types of the backend's variables that the controller's come to depend on.
Typed ==
    /\ TypeOK
    /\ lastId \in Nat /\ connectionId \in Nat /\ session \in Nat
    /\ gripper \in Gripper
    /\ executed \in Seq(Backend!Execution)

\* Losing elements leaves a sequence of the others, in their order.
LEMMA RemaindersAre ==
    ASSUME NEW S, NEW s \in Seq(S), NEW r \in Backend!Remainders(s)
    PROVE  /\ r \in Seq(S)
           /\ \E at \in [1..Len(r) -> 1..Len(s)] :
                 /\ \A i, j \in 1..Len(r) : i < j => at[i] < at[j]
                 /\ \A i \in 1..Len(r) : r[i] = s[at[i]]
<1>1. PICK n \in 0..Len(s) : r \in {[i \in 1..n |-> s[at[i]]] : at \in Backend!Choices(n, Len(s))}
  BY DEF Backend!Remainders
<1>2. PICK at \in Backend!Choices(n, Len(s)) : r = [i \in 1..n |-> s[at[i]]]
  BY <1>1
<1>3. n \in Nat /\ at \in [1..n -> 1..Len(s)] /\ \A i, j \in 1..n : i < j => at[i] < at[j]
  BY <1>2 DEF Backend!Choices
<1>4. \A i \in 1..n : s[at[i]] \in S
  BY <1>3
<1>5. r \in [1..n -> S]
  BY <1>2, <1>4
<1>6. r \in Seq(S) /\ Len(r) = n
  BY <1>3, <1>5
<1> QED
  BY <1>3, <1>6, <1>2

LEMMA PushType ==
    ASSUME NEW S, NEW topic \in Seq(S), NEW depth \in Nat \ {0}, NEW sample \in S
    PROVE  /\ Push(topic, depth, sample) \in Seq(S)
           /\ Backend!Push(topic, depth, sample) \in Seq(S)
<1>1. (IF Len(topic) < depth THEN topic ELSE Tail(topic)) \in Seq(S)
  OBVIOUS
<1> QED
  BY <1>1 DEF Push, Backend!Push

LEMMA Blanks ==
    /\ BlankCommand \in Command /\ BlankStatus \in Gripper /\ PoweredUp \in Gripper
    /\ Backend!BlankStatus \in Gripper /\ Backend!PoweredUp \in Gripper
    /\ Backend!InitialGrippers \subseteq Gripper
<1>1. 0 \in Modes /\ 0 \in Positions /\ 0 \in Nat
  BY DataAssumption
<1>2. BlankCommand \in Command
  BY <1>1 DEF BlankCommand, Command
<1>3. PoweredUp \in Gripper /\ Backend!PoweredUp \in Gripper
  BY <1>1 DEF PoweredUp, Backend!PoweredUp, Gripper, Initializations, Motions
<1>4. BlankStatus \in Gripper /\ Backend!BlankStatus \in Gripper
  BY <1>1 DEF BlankStatus, Backend!BlankStatus, PoweredUp, Backend!PoweredUp, Gripper,
              Initializations, Motions
<1>5. [Backend!PoweredUp EXCEPT !.activated = TRUE, !.initialization = "ready"] \in Gripper
  BY <1>1 DEF Backend!PoweredUp, Gripper, Initializations, Motions
<1> QED
  BY <1>2, <1>3, <1>4, <1>5 DEF Backend!InitialGrippers

LEMMA IdleType == IdleOp \in Op
<1>1. [mode |-> 0, position |-> 0] \in Goal
  BY DataAssumption DEF Goal
<1>2. [phase \in Phases |-> 0] \in [Phases -> Nat]
  OBVIOUS
<1> QED
  BY <1>1, <1>2, Blanks DEF IdleOp, Op, Pcs, Phases, Results

LEMMA EndedType ==
    ASSUME NEW r \in Op, NEW pc \in Pcs, NEW result \in Results
    PROVE  Ended(r, pc, result) \in Op
BY IdleType DEF Ended, Op

LEMMA LatchType ==
    ASSUME NEW g \in Gripper, NEW c \in Command
    PROVE  Backend!Latch(g, c) \in Gripper
<1> DEFINE initialization ==
        CASE ~c.activate -> "reset"
          [] ~g.activated -> "activating"
          [] g.activated /\ c.activate /\ g.initialization = "ready" /\ g.mode # c.mode
               -> "mode_change"
          [] OTHER -> g.initialization
<1>1. initialization \in Initializations
  BY DEF Gripper, Initializations
<1>2. (IF c.activate /\ c.go_to THEN "moving" ELSE "stopped") \in Motions
  BY DEF Motions
<1>3. /\ c.activate \in BOOLEAN /\ c.mode \in Modes /\ c.go_to \in BOOLEAN
      /\ c.position \in Positions /\ g.fault \in BOOLEAN
  BY DEF Command, Gripper
<1>4. (c.activate /\ g.fault) \in BOOLEAN
  OBVIOUS
<1> HIDE DEF initialization
<1>5. [activated |-> c.activate, mode |-> c.mode, go_to |-> c.go_to, requested |-> c.position,
       initialization |-> initialization,
       motion |-> IF c.activate /\ c.go_to THEN "moving" ELSE "stopped",
       fault |-> c.activate /\ g.fault] \in Gripper
  BY <1>1, <1>2, <1>3, <1>4 DEF Gripper
<1> QED
  BY <1>5 DEF Backend!Latch, initialization

LEMMA EvolutionsType ==
    ASSUME NEW g \in Gripper, NEW next \in Backend!Evolutions(g)
    PROVE  next \in Gripper
<1>1. next \in {[g EXCEPT !.initialization = "ready"], [g EXCEPT !.motion = "stopped"],
               [g EXCEPT !.fault = TRUE]}
  BY DEF Backend!Evolutions
<1> QED
  BY <1>1 DEF Gripper, Initializations, Motions

LEMMA InitTyped == Init => Typed
<1> SUFFICES ASSUME Init PROVE Typed
  OBVIOUS
<1>1. op \in [Ops -> Op]
  BY IdleType DEF Init, ControllerInit
<1>2. gripper \in Gripper /\ lastCommand \in Command
  BY Blanks DEF Init, ControllerInit, Backend!BackendInit
<1>3. /\ nextId \in Nat \ {0} /\ life \in Nat
      /\ current \in Status \union {NoStatus} /\ stage \in {"spinning", "stopped", "destroying"}
  BY DEF Init, ControllerInit
<1>5. busy \in BOOLEAN /\ haveCommand \in BOOLEAN
  <2>1. busy = FALSE /\ haveCommand = FALSE
    BY Zenon DEF Init, ControllerInit
  <2> QED
    BY <2>1
<1>4. /\ commandTopic \in Seq(Command) /\ statusTopic \in Seq(Status)
      /\ executed \in Seq(Backend!Execution)
      /\ lastId \in Nat /\ connectionId \in Nat /\ session \in Nat
  BY DEF Init, Backend!BackendInit
<1> QED
  BY <1>1, <1>2, <1>3, <1>4, <1>5 DEF Typed, TypeOK

\* A request whose record keeps its type keeps the type of `op`.
LEMMA OpType ==
    ASSUME Typed, NEW o \in Ops, NEW r \in Op, op' = [op EXCEPT ![o] = r]
    PROVE  op' \in [Ops -> Op]
BY DEF Typed, TypeOK

LEMMA CallType == ASSUME Typed, NEW o \in Ops, Call(o) PROVE op' \in [Ops -> Op]
<1>1. PICK kind \in KindsOf[o], goal \in Goals :
        op' = [op EXCEPT ![o].kind = kind, ![o].life = life,
                         ![o].goal = IF kind \in ActionKinds THEN goal ELSE @,
                         ![o].pc = IF kind = "stop" THEN "check" ELSE "begin"]
  BY DEF Call
<1>2. kind \in Kinds /\ goal \in Goal /\ life \in Nat /\ op[o] \in Op
  BY ControllerAssumption DEF Typed, TypeOK
<1>3. [op[o] EXCEPT !.kind = kind, !.life = life,
                    !.goal = IF kind \in ActionKinds THEN goal ELSE @,
                    !.pc = IF kind = "stop" THEN "check" ELSE "begin"] \in Op
  BY <1>2 DEF Op, Pcs
<1> QED
  BY <1>1, <1>3 DEF Typed, TypeOK

LEMMA CancelType == ASSUME Typed, NEW o \in Ops, Cancel(o) PROVE op' \in [Ops -> Op]
<1>1. op' = [op EXCEPT ![o].cancelling = TRUE] /\ op[o] \in Op
  BY DEF Cancel, Typed, TypeOK
<1>2. [op[o] EXCEPT !.cancelling = TRUE] \in Op
  BY <1>1 DEF Op
<1> QED
  BY <1>1, <1>2 DEF Typed, TypeOK

LEMMA BeginType == ASSUME Typed, NEW o \in Ops, Begin(o) PROVE op' \in [Ops -> Op]
<1>1. op[o] \in Op
  BY DEF Typed, TypeOK
<1>2. Ended(op[o], "done", "busy") \in Op
  BY <1>1, EndedType DEF Pcs, Results
<1>3. [op[o] EXCEPT !.pc = "check"] \in Op
  BY <1>1 DEF Op, Pcs
<1> QED
  BY <1>2, <1>3 DEF Begin, Typed, TypeOK

LEMMA CheckFailsType == ASSUME Typed, NEW o \in Ops, CheckFails(o) PROVE op' \in [Ops -> Op]
<1>1. op[o] \in Op
  BY DEF Typed, TypeOK
<1>2. Ended(op[o], "done", "failed") \in Op
  BY <1>1, EndedType DEF Pcs, Results
<1>3. [op[o] EXCEPT !.pc = "release",
                    !.result = IF op[o].kind \in ActionKinds THEN "aborted" ELSE "failed"] \in Op
  BY <1>1 DEF Op, Pcs, Results
<1> QED
  BY <1>2, <1>3 DEF CheckFails, Typed, TypeOK

LEMMA CheckType == ASSUME Typed, NEW o \in Ops, Check(o) PROVE op' \in [Ops -> Op]
<1>1. op[o] \in Op /\ current \in Status
  BY DEF Check, MayProceed, StatusUsable, Typed, TypeOK
<1>2. /\ current.connection_id \in Nat
      /\ current.gripper.activated \in BOOLEAN /\ current.gripper.mode \in Modes
  BY <1>1 DEF Status, Gripper
<1>3. KeepState(current.gripper) \in Command
  BY <1>2, Blanks DEF KeepState, Command
<1>4. MoveCommand(op[o].goal) \in Command
  BY <1>1, Blanks DEF MoveCommand, Command, Op, Goal
<1>5. PICK command \in Command :
        op' = [op EXCEPT ![o].connection = current.connection_id,
                         ![o].phase = FirstPhase(op[o].kind),
                         ![o].command = command,
                         ![o].pc = IF op[o].kind = "stop" THEN "copy" ELSE "assign"]
  BY <1>3, <1>4, Blanks DEF Check
<1>6. FirstPhase(op[o].kind) \in Phases
  BY <1>1 DEF FirstPhase, Phases
<1>7. [op[o] EXCEPT !.connection = current.connection_id,
                    !.phase = FirstPhase(op[o].kind),
                    !.command = command,
                    !.pc = IF op[o].kind = "stop" THEN "copy" ELSE "assign"] \in Op
  BY <1>1, <1>2, <1>6 DEF Op, Pcs
<1> QED
  BY <1>5, <1>7 DEF Typed, TypeOK

LEMMA CopyLastType == ASSUME Typed, NEW o \in Ops, CopyLast(o) PROVE op' \in [Ops -> Op]
<1>1. op[o] \in Op /\ lastCommand \in Command
  BY DEF Typed, TypeOK
<1>2. [(IF haveCommand THEN lastCommand ELSE op[o].command)
          EXCEPT !.go_to = FALSE, !.automatic_release = FALSE] \in Command
  BY <1>1 DEF Op, Command
<1>3. [op[o] EXCEPT !.command = [(IF haveCommand THEN lastCommand ELSE op[o].command)
                                    EXCEPT !.go_to = FALSE, !.automatic_release = FALSE],
                    !.pc = "assign"] \in Op
  BY <1>1, <1>2 DEF Op, Pcs
<1> QED
  BY <1>3 DEF CopyLast, Typed, TypeOK

LEMMA AssignIdType == ASSUME Typed, NEW o \in Ops, AssignId(o) PROVE op' \in [Ops -> Op]
<1>1. op[o] \in Op /\ nextId \in Nat /\ life \in Nat
  BY DEF Typed, TypeOK
<1>2. [op[o].command EXCEPT !.id = nextId, !.life = life] \in Command
  BY <1>1 DEF Op, Command
<1>3. [op[o].sent EXCEPT ![op[o].phase] = nextId] \in [Phases -> Nat]
  BY <1>1 DEF Op
<1>4. [op[o] EXCEPT !.command = [op[o].command EXCEPT !.id = nextId, !.life = life],
                    !.sent = [op[o].sent EXCEPT ![op[o].phase] = nextId],
                    !.pc = "remember"] \in Op
  BY <1>1, <1>2, <1>3 DEF Op, Pcs
<1>5. op' = [op EXCEPT ![o] = [op[o] EXCEPT
                    !.command = [op[o].command EXCEPT !.id = nextId, !.life = life],
                    !.sent = [op[o].sent EXCEPT ![op[o].phase] = nextId],
                    !.pc = "remember"]]
  <2>1. o \in DOMAIN op /\ {"command", "sent", "pc"} \subseteq DOMAIN op[o]
    BY <1>1 DEF Op, Typed, TypeOK
  <2>2. DOMAIN op[o].command = DOMAIN [op[o].command EXCEPT !.id = nextId]
    OBVIOUS
  <2>3. "id" \in DOMAIN op[o].command /\ "life" \in DOMAIN op[o].command
    BY <1>1 DEF Op, Command
  <2> QED
    BY <2>1, <2>2, <2>3 DEF AssignId
<1> QED
  BY <1>4, <1>5 DEF Typed, TypeOK

LEMMA RememberType == ASSUME Typed, NEW o \in Ops, Remember(o) PROVE op' \in [Ops -> Op]
<1>1. op[o] \in Op
  BY DEF Typed, TypeOK
<1>2. [op[o] EXCEPT !.pc = "publish"] \in Op
  BY <1>1 DEF Op, Pcs
<1> QED
  BY <1>2 DEF Remember, Goto, Typed, TypeOK

LEMMA PublishType == ASSUME Typed, NEW o \in Ops, PublishLossy(o) PROVE op' \in [Ops -> Op]
<1>1. op[o] \in Op
  BY DEF Typed, TypeOK
<1>2. Ended(op[o], "done", "ok") \in Op
  BY <1>1, EndedType DEF Pcs, Results
<1>3. [op[o] EXCEPT !.pc = "finish"] \in Op /\ [op[o] EXCEPT !.pc = "wait"] \in Op
  BY <1>1 DEF Op, Pcs
<1> QED
  BY <1>2, <1>3 DEF PublishLossy, Typed, TypeOK

LEMMA AbandonType ==
    ASSUME Typed, NEW o \in Ops, NEW why, Abandon(o, why)
    PROVE  op' \in [Ops -> Op]
<1> DEFINE halts == op[o].kind \in ActionKinds /\ why \notin {"disconnected", "reconnected"}
           command == IF halts THEN [op[o].command EXCEPT !.go_to = FALSE] ELSE op[o].command
           phase == IF halts THEN "halt" ELSE op[o].phase
           result == IF op[o].kind \in ActionKinds THEN op[o].result ELSE "failed"
           pc == CASE halts -> "assign"
                   [] op[o].kind \in ActionKinds /\ ~halts -> "finish"
                   [] OTHER -> "release"
<1>1. op[o] \in Op
  BY DEF Typed, TypeOK
<1>2. command \in Command /\ phase \in Phases /\ result \in Results /\ pc \in Pcs
  BY <1>1 DEF Op, Command, Phases, Results, Pcs
<1>3. op' = [op EXCEPT ![o].command = command, ![o].phase = phase, ![o].result = result,
                       ![o].pc = pc]
  BY DEF Abandon
<1> HIDE DEF halts, command, phase, result, pc
<1>4. [op[o] EXCEPT !.command = command, !.phase = phase, !.result = result, !.pc = pc] \in Op
  BY <1>1, <1>2 DEF Op
<1> QED
  BY <1>3, <1>4 DEF Typed, TypeOK

LEMMA WaitSucceedsType == ASSUME Typed, NEW o \in Ops, WaitSucceeds(o) PROVE op' \in [Ops -> Op]
<1>1. op[o] \in Op
  BY DEF Typed, TypeOK
<1>2. [BlankCommand EXCEPT !.activate = TRUE, !.mode = ActivationMode] \in Command
  BY Blanks, ControllerAssumption DEF Command
<1>3. CASE op[o].phase = "reset"
  <2>1. [op[o] EXCEPT !.phase = "activate",
                      !.command = [BlankCommand EXCEPT !.activate = TRUE, !.mode = ActivationMode],
                      !.pc = "assign"] \in Op
    BY <1>1, <1>2 DEF Op, Phases, Pcs
  <2> QED
    BY <1>3, <2>1 DEF WaitSucceeds, Typed, TypeOK
<1>4. CASE op[o].phase # "reset"
  <2>1. PICK result \in {"aborted", "ok"} :
          op' = [op EXCEPT ![o].pc = "release", ![o].result = result]
    BY <1>4 DEF WaitSucceeds
  <2>2. [op[o] EXCEPT !.pc = "release", !.result = result] \in Op
    BY <1>1 DEF Op, Pcs, Results
  <2> QED
    BY <2>1, <2>2 DEF Typed, TypeOK
<1> QED
  BY <1>3, <1>4

LEMMA FinishType == ASSUME Typed, NEW o \in Ops, Finish(o) PROVE op' \in [Ops -> Op]
<1>1. op[o] \in Op
  BY DEF Typed, TypeOK
<1>2. PICK result \in Results : op' = [op EXCEPT ![o].result = result, ![o].pc = "release"]
  BY DEF Finish, Results
<1>3. [op[o] EXCEPT !.result = result, !.pc = "release"] \in Op
  BY <1>1 DEF Op, Pcs
<1> QED
  BY <1>2, <1>3 DEF Typed, TypeOK

LEMMA ReleaseType == ASSUME Typed, NEW o \in Ops, Release(o) PROVE op' \in [Ops -> Op]
<1>1. op[o] \in Op /\ op[o].result \in Results
  BY DEF Typed, TypeOK, Op
<1>2. Ended(op[o], "done", op[o].result) \in Op
  BY <1>1, EndedType DEF Pcs
<1> QED
  BY <1>2 DEF Release, Typed, TypeOK

\* The steps of the controller.
LEMMA RequestTyped ==
    ASSUME Typed, NEW o \in Ops, Call(o) \/ Cancel(o) \/ AdvancesLossy(o) \/ Ends(o),
           UNCHANGED backendOnly
    PROVE  Typed'
<1>1. op' \in [Ops -> Op]
  BY CallType, CancelType, BeginType, CheckFailsType, CheckType, CopyLastType, AssignIdType,
     RememberType, PublishType, AbandonType, WaitSucceedsType, FinishType, ReleaseType
     DEF AdvancesLossy, Ends, WaitFails, WaitTimesOut
<1>2. busy' \in BOOLEAN /\ haveCommand' \in BOOLEAN
  <2>1. CASE Begin(o)
    BY <2>1 DEF Begin, Typed, TypeOK
  <2>2. CASE Release(o)
    BY <2>2 DEF Release, Typed, TypeOK
  <2>3. CASE Remember(o)
    BY <2>3 DEF Remember, Typed, TypeOK
  <2>4. CASE ~Begin(o) /\ ~Release(o) /\ ~Remember(o)
    <3>1. UNCHANGED <<busy, haveCommand>>
      BY <2>4 DEF Call, Cancel, AdvancesLossy, Ends, CheckFails, Check, CopyLast, AssignId,
         PublishLossy, WaitFails, WaitSucceeds, WaitTimesOut, Finish, nodeVars
    <3> QED
      BY <3>1 DEF Typed, TypeOK
  <2> QED
    BY <2>1, <2>2, <2>3, <2>4
<1>3. nextId' \in Nat \ {0}
  <2>1. CASE AssignId(o)
    BY <2>1 DEF AssignId, Typed, TypeOK
  <2>2. CASE ~AssignId(o)
    <3>1. UNCHANGED nextId
      BY <2>2 DEF Call, Cancel, AdvancesLossy, Ends, Begin, CheckFails, Check, CopyLast, Remember,
         PublishLossy, WaitFails, WaitSucceeds, WaitTimesOut, Finish, Release, nodeVars
    <3> QED
      BY <3>1 DEF Typed, TypeOK
  <2> QED
    BY <2>1, <2>2
<1>4. lastCommand' \in Command
  <2>1. op[o].command \in Command /\ lastCommand \in Command
    BY DEF Typed, TypeOK, Op
  <2> QED
    BY <2>1 DEF Call, Cancel, AdvancesLossy, Ends, Begin, CheckFails, Check, CopyLast, AssignId,
       Remember, PublishLossy, WaitFails, WaitSucceeds, WaitTimesOut, Finish, Release, nodeVars
<1>5. commandTopic' \in Seq(Command)
  <2>1. CASE PublishLossy(o)
    <3>1. op[o].command \in Command /\ commandTopic \in Seq(Command)
      BY DEF Typed, TypeOK, Op
    <3>2. \A kept \in Backend!Remainders(commandTopic) : Append(kept, op[o].command) \in Seq(Command)
      BY <3>1, RemaindersAre
    <3> QED
      BY <2>1, <3>1, <3>2 DEF PublishLossy
  <2>2. CASE ~PublishLossy(o)
    <3>1. UNCHANGED commandTopic
      BY <2>2 DEF Call, Cancel, AdvancesLossy, Ends, Begin, CheckFails, Check, CopyLast, AssignId,
         Remember, WaitFails, WaitSucceeds, WaitTimesOut, Finish, Release
    <3> QED
      BY <3>1 DEF Typed, TypeOK
  <2> QED
    BY <2>1, <2>2
<1>6. UNCHANGED <<statusTopic, current, stage, life>>
  BY DEF Call, Cancel, AdvancesLossy, Ends, Begin, CheckFails, Check, CopyLast, AssignId, Remember,
     PublishLossy, WaitFails, WaitSucceeds, WaitTimesOut, Finish, Release, nodeVars
<1>7. UNCHANGED <<lastId, connectionId, session, gripper, executed>>
  BY DEF backendOnly
<1> QED
  BY <1>1, <1>2, <1>3, <1>4, <1>5, <1>6, <1>7 DEF Typed, TypeOK

LEMMA RestartTyped ==
    ASSUME Typed, RestartController, UNCHANGED backendOnly
    PROVE  Typed'
<1>1. op' \in [Ops -> Op]
  <2>1. \A o \in Ops : Ended(op[o], "dead", "none") \in Op
    BY EndedType DEF Typed, TypeOK, Pcs, Results
  <2> QED
    BY <2>1 DEF RestartController, Typed, TypeOK
<1>2. busy' \in BOOLEAN /\ haveCommand' \in BOOLEAN /\ lastCommand' \in Command
  BY Blanks DEF RestartController
<1>3. /\ nextId' \in Nat \ {0} /\ life' \in Nat /\ statusTopic' \in Seq(Status)
      /\ current' \in Status \union {NoStatus}
      /\ stage' \in {"spinning", "stopped", "destroying"} /\ commandTopic' = commandTopic
  BY DEF RestartController, Typed, TypeOK
<1>4. UNCHANGED <<lastId, connectionId, session, gripper, executed>>
  BY DEF backendOnly
<1> QED
  BY <1>1, <1>2, <1>3, <1>4 DEF Typed, TypeOK

\* What is left of the statuses when one is stored.
LEMMA WithoutIs ==
    ASSUME NEW s \in Seq(Status), NEW i \in DOMAIN s
    PROVE  /\ Without(s, i) \in Seq(Status)
           /\ \A k \in DOMAIN Without(s, i) : \E j \in DOMAIN s : Without(s, i)[k] = s[j]
<1>1. /\ Len(s) \in Nat /\ DOMAIN s = 1..Len(s) /\ i \in 1..Len(s)
      /\ \A k \in 1..Len(s) : s[k] \in Status
  OBVIOUS
<1>2. Len(s) - 1 \in Nat
  BY <1>1
<1>3. DOMAIN Without(s, i) = 1..(Len(s) - 1)
  BY DEF Without
<1>4. ASSUME NEW k \in 1..(Len(s) - 1)
      PROVE  \E j \in DOMAIN s : Without(s, i)[k] = s[j]
  BY <1>1 DEF Without
<1>5. \A k \in 1..(Len(s) - 1) : Without(s, i)[k] \in Status
  BY <1>1, <1>4
<1>6. Without(s, i) = [k \in 1..(Len(s) - 1) |-> Without(s, i)[k]]
  BY DEF Without
<1>7. Without(s, i) \in [1..(Len(s) - 1) -> Status]
  BY <1>5, <1>6
<1> QED
  BY <1>2, <1>3, <1>4, <1>7

LEMMA ProcessTyped ==
    ASSUME Typed, ReceiveStatus \/ SpinEnds \/ Destroy, UNCHANGED backendOnly
    PROVE  Typed'
<1>1. UNCHANGED <<commandTopic, busy, nextId, lastCommand, haveCommand, op, life>>
  BY DEF ReceiveStatus, SpinEnds, Destroy
<1>2. /\ current' \in Status \union {NoStatus} /\ statusTopic' \in Seq(Status)
      /\ stage' \in {"spinning", "stopped", "destroying"}
  <2>1. /\ current \in Status \union {NoStatus} /\ statusTopic \in Seq(Status)
        /\ stage \in {"spinning", "stopped", "destroying"}
    BY DEF Typed, TypeOK
  <2>2. CASE ReceiveStatus
    <3>1. PICK i \in DOMAIN statusTopic :
            current' = statusTopic[i] /\ statusTopic' = Without(statusTopic, i)
      BY <2>2 DEF ReceiveStatus
    <3>2. current' \in Status /\ statusTopic' \in Seq(Status)
      BY <2>1, <3>1, WithoutIs
    <3> QED
      BY <2>1, <2>2, <3>2 DEF ReceiveStatus
  <2>3. CASE SpinEnds
    BY <2>1, <2>3 DEF SpinEnds
  <2>4. CASE Destroy
    BY <2>1, <2>4 DEF Destroy
  <2> QED
    BY <2>2, <2>3, <2>4
<1>3. UNCHANGED <<lastId, connectionId, session, gripper, executed>>
  BY DEF backendOnly
<1> QED
  BY <1>1, <1>2, <1>3 DEF Typed, TypeOK

\* The steps of the backend.
LEMMA LostTyped ==
    ASSUME Typed, NEW s \in Seq(Command), Backend!SomeLost(s)
    PROVE  commandTopic' \in Seq(Command)
BY RemaindersAre DEF Backend!SomeLost

LEMMA EffectTyped ==
    ASSUME Typed, Backend!TakesEffect
    PROVE  /\ gripper' \in Gripper /\ executed' \in Seq(Backend!Execution)
           /\ Head(commandTopic) \in Command /\ Tail(commandTopic) \in Seq(Command)
<1>1. Head(commandTopic) \in Command /\ Tail(commandTopic) \in Seq(Command)
  BY DEF Backend!TakesEffect, Typed, TypeOK
<1>2. gripper' \in Gripper
  BY <1>1, LatchType DEF Backend!TakesEffect, Typed
<1>3. [command |-> Head(commandTopic), session |-> session, wasActivated |-> gripper.activated]
         \in Backend!Execution
  BY <1>1 DEF Backend!Execution, Backend!Command, Command, Typed, Gripper
<1>4. executed' \in Seq(Backend!Execution)
  BY <1>3 DEF Backend!TakesEffect, Typed
<1> QED
  BY <1>1, <1>2, <1>4

LEMMA BackendTyped ==
    ASSUME Typed, AnyBackend
    PROVE  Typed'
<1>1. UNCHANGED <<busy, nextId, lastCommand, haveCommand, op, life, current, stage>>
  BY DEF AnyBackend, Backend!BackendNext, nodeVars
<1> DEFINE Parts == /\ commandTopic' \in Seq(Command) /\ statusTopic' \in Seq(Status)
                    /\ lastId' \in Nat /\ connectionId' \in Nat /\ session' \in Nat
                    /\ gripper' \in Gripper /\ executed' \in Seq(Backend!Execution)
<1>2. ASSUME Parts PROVE Typed'
  BY <1>1, <1>2 DEF Typed, TypeOK
<1>3. /\ commandTopic \in Seq(Command) /\ statusTopic \in Seq(Status)
      /\ lastId \in Nat /\ connectionId \in Nat /\ session \in Nat
      /\ gripper \in Gripper /\ executed \in Seq(Backend!Execution)
  BY DEF Typed, TypeOK
<1>4. CASE Backend!GoOffline
  BY <1>2, <1>3, <1>4, LostTyped DEF Backend!GoOffline, Backend!Disconnects
<1>5. CASE Backend!ExecuteUnacknowledged
  BY <1>2, <1>3, <1>5, LostTyped, EffectTyped
     DEF Backend!ExecuteUnacknowledged, Backend!Disconnects
<1>6. CASE Backend!GripperPowerCycles
  BY <1>2, <1>3, <1>6, Blanks DEF Backend!GripperPowerCycles, Backend!connectionVars
<1>7. CASE Backend!Reboot
  BY <1>2, <1>3, <1>7 DEF Backend!Reboot
<1>8. CASE Backend!Lose
  BY <1>2, <1>3, <1>8, LostTyped DEF Backend!Lose, Backend!connectionVars
<1>9. CASE Backend!GoOnline
  BY <1>2, <1>3, <1>9 DEF Backend!GoOnline
<1>10. CASE Backend!Execute
  <2>1. Head(commandTopic).id \in Nat
    BY <1>10, EffectTyped DEF Backend!Execute, Command
  <2> QED
    BY <1>2, <1>3, <1>10, <2>1, EffectTyped DEF Backend!Execute
<1>11. CASE Backend!Report
  <2>1. [connected |-> TRUE, connection_id |-> connectionId, last_command_id |-> lastId,
         gripper |-> gripper] \in Status
    BY <1>3 DEF Status
  <2>2. statusTopic' \in Seq(Status)
    BY <1>3, <1>11, <2>1, PushType, DataAssumption DEF Backend!Report
  <2> QED
    BY <1>2, <1>3, <1>11, <2>2 DEF Backend!Report
<1>12. CASE Backend!ReportOffline
  <2>1. [connected |-> FALSE, connection_id |-> connectionId, last_command_id |-> 0,
         gripper |-> Backend!BlankStatus] \in Status
    BY <1>3, Blanks DEF Status
  <2>2. statusTopic' \in Seq(Status)
    BY <1>3, <1>12, <2>1, PushType, DataAssumption DEF Backend!ReportOffline
  <2> QED
    BY <1>2, <1>3, <1>12, <2>2, LostTyped DEF Backend!ReportOffline, Backend!connectionVars
<1>13. CASE Backend!GripperMoves
  BY <1>2, <1>3, <1>13, EvolutionsType DEF Backend!GripperMoves, Backend!connectionVars
<1> QED
  BY <1>4, <1>5, <1>6, <1>7, <1>8, <1>9, <1>10, <1>11, <1>12, <1>13 DEF AnyBackend, Backend!BackendNext

LEMMA NextTyped == Typed /\ [OpenNext]_openVars => Typed'
<1> SUFFICES ASSUME Typed, [OpenNext]_openVars PROVE Typed'
  OBVIOUS
<1>1. CASE ControllerLossy
  BY <1>1, RequestTyped, RestartTyped, ProcessTyped DEF ControllerLossy
<1>2. CASE AnyBackend
  BY <1>2, BackendTyped
<1>3. CASE UNCHANGED openVars
  BY <1>3 DEF openVars, controllerVars, nodeVars, backendOnly, Typed, TypeOK
<1> QED
  BY <1>1, <1>2, <1>3 DEF OpenNext

LEMMA Tabulated ==
    ASSUME NEW S, NEW t \in Seq(S)
    PROVE  t = [i \in 1..Len(t) |-> t[i]]
OBVIOUS

\* A sequence that loses nothing, or its first element, is left as it is, or without it.
LEMMA KeptOrTail ==
    ASSUME NEW s \in Seq(Command)
    PROVE  s \in Backend!Remainders(s) /\ (s # <<>> => Tail(s) \in Backend!Remainders(s))
<1> DEFINE left(k) == {[i \in 1..k |-> s[a[i]]] : a \in Backend!Choices(k, Len(s))}
<1>1. Len(s) \in Nat
  OBVIOUS
<1>2. ASSUME NEW n \in 0..Len(s), NEW at \in Backend!Choices(n, Len(s))
      PROVE  [i \in 1..n |-> s[at[i]]] \in Backend!Remainders(s)
  <2>1. [i \in 1..n |-> s[at[i]]] \in left(n)
    OBVIOUS
  <2>2. left(n) \in {left(k) : k \in 0..Len(s)}
    OBVIOUS
  <2> HIDE DEF left
  <2>3. [i \in 1..n |-> s[at[i]]] \in UNION {left(k) : k \in 0..Len(s)}
    BY <2>1, <2>2
  <2> QED
    BY <2>3 DEF Backend!Remainders, left
<1>3. s \in Backend!Remainders(s)
  <2> DEFINE n == Len(s)
             at == [i \in 1..n |-> i]
  <2>1. at \in Backend!Choices(n, Len(s))
    BY <1>1 DEF Backend!Choices
  <2>2. n \in 0..Len(s)
    BY <1>1
  <2>3. \A i \in 1..n : s[at[i]] = s[i]
    OBVIOUS
  <2>4. s = [i \in 1..n |-> s[i]]
    BY <1>1, Tabulated
  <2>5. s = [i \in 1..n |-> s[at[i]]]
    BY <2>3, <2>4
  <2> HIDE DEF at, n
  <2> QED
    BY <1>2, <2>1, <2>2, <2>5
<1>4. ASSUME s # <<>> PROVE Tail(s) \in Backend!Remainders(s)
  <2> DEFINE n == Len(s) - 1
             at == [i \in 1..n |-> i + 1]
  <2>1. n \in Nat /\ n \in 0..Len(s) /\ Len(s) = n + 1
    BY <1>1, <1>4
  <2>2. at \in Backend!Choices(n, Len(s))
    <3>1. at \in [1..n -> 1..Len(s)]
      BY <2>1
    <3>2. \A i, j \in 1..n : i < j => at[i] < at[j]
      BY <2>1
    <3> QED
      BY <3>1, <3>2 DEF Backend!Choices
  <2>3. Tail(s) = [i \in 1..n |-> s[i + 1]]
    <3>1. Tail(s) \in Seq(Command) /\ Len(Tail(s)) = n
      BY <1>4
    <3>2. \A i \in 1..n : Tail(s)[i] = s[i + 1]
      BY <2>1, <1>4
    <3>3. Tail(s) = [i \in 1..n |-> Tail(s)[i]]
      BY <3>1, Tabulated
    <3> HIDE DEF n
    <3> QED
      BY <3>2, <3>3
  <2>4. \A i \in 1..n : s[at[i]] = s[i + 1]
    OBVIOUS
  <2>5. Tail(s) = [i \in 1..n |-> s[at[i]]]
    BY <2>3, <2>4
  <2> HIDE DEF at, n
  <2> QED
    BY <1>2, <2>1, <2>2, <2>5
<1> QED
  BY <1>3, <1>4

\* The steps of ControlledGripper are among those the proofs are about.
LEMMA NextIsOpen == Typed /\ [Next]_vars => [OpenNext]_openVars
<1> SUFFICES ASSUME Typed, [Next]_vars PROVE [OpenNext]_openVars
  OBVIOUS
<1>1. ASSUME NEW o \in Ops, Publish(o) PROVE PublishLossy(o)
  <2>1. commandTopic \in Seq(Command) /\ CommandDepth \in Nat \ {0}
    BY DataAssumption DEF Typed, TypeOK
  <2> DEFINE kept == IF Len(commandTopic) < CommandDepth THEN commandTopic ELSE Tail(commandTopic)
  <2>2. kept \in Backend!Remainders(commandTopic)
    <3>1. Len(commandTopic) >= CommandDepth => commandTopic # <<>>
      BY <2>1
    <3> QED
      BY <2>1, <3>1, KeptOrTail
  <2>3. stage = "spinning" => commandTopic' = Append(kept, op[o].command)
    BY <1>1 DEF Publish, Push
  <2> HIDE DEF kept
  <2>4. \/ stage = "spinning" /\ \E left \in Backend!Remainders(commandTopic) :
                commandTopic' = Append(left, op[o].command)
        \/ stage # "spinning" /\ commandTopic' = commandTopic
    BY <1>1, <2>2, <2>3 DEF Publish
  <2> QED
    BY <1>1, <2>4 DEF Publish, PublishLossy
<1>2. CASE ControllerStep
  <2>1. \A o \in Ops : Advances(o) => AdvancesLossy(o)
    BY <1>1 DEF Advances, AdvancesLossy
  <2> QED
    BY <1>2, <2>1 DEF ControllerStep, ControllerNext, ControllerLossy, OpenNext
<1>3. CASE Outage \/ Reboot \/ BackendStep
  BY <1>3 DEF Outage, Reboot, BackendStep, AnyBackend, Backend!BackendNext, OpenNext
<1>4. CASE UNCHANGED vars
  BY <1>4 DEF vars, openVars
<1> QED
  BY <1>2, <1>3, <1>4 DEF Next

\* Whatever requests arrive and whatever the backend does, at most one activation,
\* deactivation or goal runs, and busy_ is raised exactly while one does.
THEOREM OneOperationRuns == Spec => []OneOperation
<1>1. Init => AllShaped /\ OneOperation /\ Typed
  BY InitHolds, InitTyped
<1>2. AllShaped /\ OneOperation /\ Typed /\ [Next]_vars
        => AllShaped' /\ OneOperation' /\ Typed'
  BY NextIsOpen, NextHolds, NextTyped
<1> QED
  BY <1>1, <1>2, PTL DEF Spec

\* The controller's variables keep their types, whatever the backend reports.
THEOREM TypeCorrect == Spec => []TypeOK
<1>1. Typed => TypeOK
  BY DEF Typed
<1>2. Typed /\ [Next]_vars => Typed'
  BY NextIsOpen, NextTyped
<1> QED
  BY <1>1, <1>2, InitTyped, PTL DEF Spec
=============================================================================
