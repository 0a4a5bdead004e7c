-------------------- MODULE ControlledGripperFlowProofs ---------------------
(***************************************************************************)
(* Theorems about the way of a command from the request that sends it to   *)
(* the gripper, for every value of the constants of ControlledGripper.     *)
(***************************************************************************)
EXTENDS ControlledGripperProofs

-----------------------------------------------------------------------------
(* No command is executed twice.                                           *)

\* The request has an identifier and has not published it.
Bearing(o) == op[o].pc \in {"remember", "publish"}

\* The identifier of c was taken from the counter of its process.
Taken(c) == c.life < life \/ (c.life = life /\ c.id < nextId)

AllTaken ==
    /\ \A i \in DOMAIN executed : Taken(executed[i].command)
    /\ \A i \in DOMAIN commandTopic : Taken(commandTopic[i])
    /\ \A o \in Ops : Bearing(o) => Taken(op[o].command)

\* No command is executed twice.
AtMostOnce ==
    \A i, j \in DOMAIN executed : KeyOf(executed[i].command) = KeyOf(executed[j].command) => i = j

\* A command is in one place: at one request, on its way, or executed.
OnePlace ==
    /\ AtMostOnce
    /\ \A i, j \in DOMAIN commandTopic : KeyOf(commandTopic[i]) = KeyOf(commandTopic[j]) => i = j
    /\ \A o, p \in Ops : Bearing(o) /\ Bearing(p) /\ KeyOf(op[o].command) = KeyOf(op[p].command)
                         => o = p
    /\ \A i \in DOMAIN executed, j \in DOMAIN commandTopic :
          KeyOf(executed[i].command) # KeyOf(commandTopic[j])
    /\ \A o \in Ops : Bearing(o) =>
          /\ \A i \in DOMAIN executed : KeyOf(executed[i].command) # KeyOf(op[o].command)
          /\ \A i \in DOMAIN commandTopic : KeyOf(commandTopic[i]) # KeyOf(op[o].command)

Once == Typed /\ AllTaken /\ OnePlace

\* The commands of r are among those of s, each once.
Among(r, s) ==
    \E at \in [DOMAIN r -> DOMAIN s] : /\ \A i, j \in DOMAIN r : at[i] = at[j] => i = j
                                       /\ \A i \in DOMAIN r : r[i] = s[at[i]]

\* The requests that bear a command bore it before.
NoneBorn == \A o \in Ops : Bearing(o)' => Bearing(o) /\ op'[o].command = op[o].command

\* The identifiers taken stay taken.
Counts == (life' = life /\ nextId' = nextId) \/ life' = life + 1

LEMMA RemaindersAmong ==
    ASSUME NEW s \in Seq(Command), NEW r \in Backend!Remainders(s)
    PROVE  Among(r, s)
<1>1. r \in Seq(Command)
  BY RemaindersAre
<1>2. PICK at \in [1..Len(r) -> 1..Len(s)] :
        /\ \A i, j \in 1..Len(r) : i < j => at[i] < at[j]
        /\ \A i \in 1..Len(r) : r[i] = s[at[i]]
  BY RemaindersAre
<1>3. DOMAIN r = 1..Len(r) /\ DOMAIN s = 1..Len(s) /\ Len(r) \in Nat /\ Len(s) \in Nat
  BY <1>1
<1>4. \A i \in 1..Len(r) : at[i] \in 1..Len(s)
  OBVIOUS
<1>5. ASSUME NEW i \in 1..Len(r), NEW j \in 1..Len(r), at[i] = at[j] PROVE i = j
  <2>1. i \in Nat /\ j \in Nat /\ at[i] \in Nat /\ at[j] \in Nat
    BY <1>4
  <2>2. (i < j => at[i] < at[j]) /\ (j < i => at[j] < at[i])
    BY <1>2
  <2> QED
    BY <1>5, <2>1, <2>2
<1>6. at \in [DOMAIN r -> DOMAIN s]
  BY <1>3
<1>7. \A i, j \in DOMAIN r : at[i] = at[j] => i = j
  BY <1>3, <1>5
<1>8. \A i \in DOMAIN r : r[i] = s[at[i]]
  BY <1>2, <1>3
<1> QED
  BY <1>6, <1>7, <1>8, Zenon DEF Among

LEMMA AmongSelf == ASSUME NEW s PROVE Among(s, s)
<1>1. [i \in DOMAIN s |-> i] \in [DOMAIN s -> DOMAIN s]
  OBVIOUS
<1> QED
  BY <1>1 DEF Among

LEMMA CommandsTyped ==
    ASSUME Typed
    PROVE  /\ \A i \in DOMAIN commandTopic : commandTopic[i] \in Command
           /\ \A i \in DOMAIN executed : executed[i].command \in Command
           /\ \A o \in Ops : op[o].command \in Command
<1>1. commandTopic \in Seq(Command) /\ executed \in Seq(Backend!Execution) /\ op \in [Ops -> Op]
  BY DEF Typed, TypeOK
<1>2. \A i \in DOMAIN commandTopic : commandTopic[i] \in Command
  BY <1>1
<1>3. \A i \in DOMAIN executed : executed[i] \in Backend!Execution
  BY <1>1
<1>4. \A x \in Backend!Execution : x.command \in Command
  BY DEF Backend!Execution, Backend!Command, Command
<1> QED
  BY <1>1, <1>2, <1>3, <1>4 DEF Op

\* Steps that number, publish and execute nothing.
LEMMA QuietOnce ==
    ASSUME Once, Counts, NoneBorn, executed' = executed, Among(commandTopic', commandTopic)
    PROVE  AllTaken' /\ OnePlace'
<1>1. PICK at \in [DOMAIN commandTopic' -> DOMAIN commandTopic] :
        /\ \A i, j \in DOMAIN commandTopic' : at[i] = at[j] => i = j
        /\ \A i \in DOMAIN commandTopic' : commandTopic'[i] = commandTopic[at[i]]
  BY DEF Among
<1>2. \A i \in DOMAIN commandTopic' : at[i] \in DOMAIN commandTopic
  OBVIOUS
<1>3. ASSUME NEW c \in Command, Taken(c) PROVE Taken(c)'
  BY <1>3 DEF Once, Typed, TypeOK, Taken, Counts, Command
<1>4. /\ \A i \in DOMAIN commandTopic : commandTopic[i] \in Command
      /\ \A i \in DOMAIN executed : executed[i].command \in Command
      /\ \A o \in Ops : op[o].command \in Command
  BY CommandsTyped DEF Once
<1>5. AllTaken'
  <2>1. \A i \in DOMAIN executed : Taken(executed[i].command)'
    BY <1>3, <1>4 DEF Once, AllTaken
  <2>2. \A i \in DOMAIN commandTopic : Taken(commandTopic[i])
    BY DEF Once, AllTaken
  <2>3. \A i \in DOMAIN commandTopic' : Taken(commandTopic[i])'
    <3> TAKE i \in DOMAIN commandTopic'
    <3>1. commandTopic'[i] \in Command /\ Taken(commandTopic[at[i]])
          /\ commandTopic'[i] = commandTopic[at[i]]
      BY <1>1, <1>2, <1>4, <2>2
    <3> QED
      BY <1>3, <3>1 DEF Taken
  <2>4. \A o \in Ops : Bearing(o)' => Taken(op[o].command)'
    <3> SUFFICES ASSUME NEW o \in Ops, Bearing(o)' PROVE Taken(op[o].command)'
      OBVIOUS
    <3>1. op'[o].command = op[o].command /\ Taken(op[o].command) /\ op[o].command \in Command
      BY <1>4 DEF Once, AllTaken, NoneBorn
    <3> QED
      BY <1>3, <3>1 DEF Taken
  <2> QED
    BY <2>1, <2>3, <2>4 DEF AllTaken
<1>6. OnePlace'
  BY <1>1, <1>2 DEF Once, OnePlace, AtMostOnce, NoneBorn
<1> QED
  BY <1>5, <1>6

\* fetch_add: an identifier nobody has.
LEMMA AssignOnce ==
    ASSUME Once, NEW o \in Ops, AssignId(o), UNCHANGED executed
    PROVE  AllTaken' /\ OnePlace'
<1>1. /\ \A i \in DOMAIN commandTopic : commandTopic[i] \in Command
      /\ \A i \in DOMAIN executed : executed[i].command \in Command
      /\ \A q \in Ops : op[q].command \in Command
      /\ nextId \in Nat /\ life \in Nat
  BY CommandsTyped DEF Once, Typed, TypeOK
<1>2. op \in [Ops -> Op]
  BY DEF Once, Typed, TypeOK
<1>3. /\ \A p \in Ops \ {o} : op'[p] = op[p]
      /\ op'[o].command.life = life /\ op'[o].command.id = nextId
      /\ life' = life /\ nextId' = nextId + 1
      /\ commandTopic' = commandTopic /\ executed' = executed
  BY <1>1, <1>2 DEF AssignId, Op, Command
<1>4. ASSUME NEW c \in Command, Taken(c)
      PROVE  Taken(c)' /\ KeyOf(c) # KeyOf(op'[o].command)
  <2>1. c.life < life \/ (c.life = life /\ c.id < nextId)
    BY <1>4 DEF Taken
  <2>2. c.life \in Nat /\ c.id \in Nat
    BY DEF Command
  <2>3. Taken(c)'
    BY <1>1, <1>3, <2>1, <2>2 DEF Taken
  <2>4. ~(c.life = life /\ c.id = nextId)
    BY <1>1, <2>1, <2>2
  <2> QED
    BY <1>3, <2>3, <2>4 DEF KeyOf
<1>5. \A p \in Ops \ {o} : (Bearing(p)' <=> Bearing(p)) /\ op'[p].command = op[p].command
  BY <1>3 DEF Bearing
<1>6. Taken(op[o].command)'
  BY <1>1, <1>3 DEF Taken
<1>7. /\ \A i \in DOMAIN executed :
            Taken(executed[i].command)' /\ KeyOf(executed[i].command) # KeyOf(op'[o].command)
      /\ \A i \in DOMAIN commandTopic :
            Taken(commandTopic[i])' /\ KeyOf(commandTopic[i]) # KeyOf(op'[o].command)
      /\ \A p \in Ops \ {o} : Bearing(p) =>
            Taken(op[p].command)' /\ KeyOf(op[p].command) # KeyOf(op'[o].command)
  <2>1. \A i \in DOMAIN executed :
            Taken(executed[i].command)' /\ KeyOf(executed[i].command) # KeyOf(op'[o].command)
    <3> TAKE i \in DOMAIN executed
    <3>1. executed[i].command \in Command /\ Taken(executed[i].command)
      BY <1>1 DEF Once, AllTaken
    <3> QED
      BY <1>3, <1>4, <3>1 DEF Taken
  <2>2. \A i \in DOMAIN commandTopic :
            Taken(commandTopic[i])' /\ KeyOf(commandTopic[i]) # KeyOf(op'[o].command)
    <3> TAKE i \in DOMAIN commandTopic
    <3>1. commandTopic[i] \in Command /\ Taken(commandTopic[i])
      BY <1>1 DEF Once, AllTaken
    <3> QED
      BY <1>3, <1>4, <3>1 DEF Taken
  <2>3. \A p \in Ops \ {o} : Bearing(p) =>
            Taken(op[p].command)' /\ KeyOf(op[p].command) # KeyOf(op'[o].command)
    <3> SUFFICES ASSUME NEW p \in Ops \ {o}, Bearing(p)
                 PROVE  Taken(op[p].command)' /\ KeyOf(op[p].command) # KeyOf(op'[o].command)
      OBVIOUS
    <3>1. op[p].command \in Command /\ Taken(op[p].command) /\ op'[p] = op[p]
      BY <1>1, <1>3 DEF Once, AllTaken
    <3> QED
      BY <1>3, <1>4, <3>1 DEF Taken
  <2> QED
    BY <2>1, <2>2, <2>3
<1>8. AllTaken'
  BY <1>3, <1>5, <1>6, <1>7 DEF AllTaken
<1>9. OnePlace'
  BY <1>3, <1>5, <1>7 DEF Once, OnePlace, AtMostOnce
<1> QED
  BY <1>8, <1>9

\* publish(): the request hands its command over, and an overflow drops others.
LEMMA PublishOnce ==
    ASSUME Once, Counts, NoneBorn, executed' = executed,
           NEW o \in Ops, Bearing(o), ~Bearing(o)',
           NEW kept \in Seq(Command), Among(kept, commandTopic),
           commandTopic' = Append(kept, op[o].command)
    PROVE  AllTaken' /\ OnePlace'
<1> DEFINE new == Len(kept) + 1
<1>1. PICK at \in [DOMAIN kept -> DOMAIN commandTopic] :
        /\ \A i, j \in DOMAIN kept : at[i] = at[j] => i = j
        /\ \A i \in DOMAIN kept : kept[i] = commandTopic[at[i]]
  BY DEF Among
<1>2. \A i \in DOMAIN kept : at[i] \in DOMAIN commandTopic
  OBVIOUS
<1>3. /\ \A i \in DOMAIN commandTopic : commandTopic[i] \in Command
      /\ \A i \in DOMAIN executed : executed[i].command \in Command
      /\ \A q \in Ops : op[q].command \in Command
  BY CommandsTyped DEF Once
<1>4. /\ DOMAIN commandTopic' = DOMAIN kept \union {new} /\ new \notin DOMAIN kept
      /\ commandTopic'[new] = op[o].command
      /\ \A i \in DOMAIN kept : commandTopic'[i] = kept[i]
  BY <1>3
<1> HIDE DEF new
<1>5. ASSUME NEW c \in Command, Taken(c) PROVE Taken(c)'
  BY <1>5 DEF Once, Typed, TypeOK, Taken, Counts, Command
<1>6. \A i \in DOMAIN executed : Taken(executed[i].command)'
  BY <1>3, <1>5 DEF Once, AllTaken
<1>7. \A i \in DOMAIN commandTopic' : Taken(commandTopic[i])'
  <2> TAKE i \in DOMAIN commandTopic'
  <2>1. CASE i = new
    BY <1>3, <1>4, <1>5, <2>1 DEF Once, AllTaken, Taken
  <2>2. CASE i \in DOMAIN kept
    <3>1. /\ commandTopic[at[i]] \in Command /\ Taken(commandTopic[at[i]])
          /\ commandTopic'[i] = commandTopic[at[i]]
      BY <1>1, <1>2, <1>3, <1>4, <2>2 DEF Once, AllTaken
    <3> QED
      BY <1>5, <3>1 DEF Taken
  <2> QED
    BY <1>4, <2>1, <2>2
<1>8. \A q \in Ops : Bearing(q)' => Taken(op[q].command)'
  <2> SUFFICES ASSUME NEW q \in Ops, Bearing(q)' PROVE Taken(op[q].command)'
    OBVIOUS
  <2>1. op'[q].command = op[q].command /\ Taken(op[q].command) /\ op[q].command \in Command
    BY <1>3 DEF Once, AllTaken, NoneBorn
  <2> QED
    BY <1>5, <2>1 DEF Taken
<1>9. AllTaken'
  BY <1>6, <1>7, <1>8 DEF AllTaken
<1>10. \A q \in Ops : Bearing(q)' => q # o /\ Bearing(q) /\ op'[q].command = op[q].command
  BY DEF NoneBorn
<1>11. OnePlace'
  <2>1. AtMostOnce'
    BY DEF Once, OnePlace, AtMostOnce
  <2>2. \A i, j \in DOMAIN commandTopic' :
           KeyOf(commandTopic'[i]) = KeyOf(commandTopic'[j]) => i = j
    BY <1>1, <1>2, <1>4 DEF Once, OnePlace
  <2>3. \A p, q \in Ops : Bearing(p)' /\ Bearing(q)' /\ KeyOf(op'[p].command) = KeyOf(op'[q].command)
                         => p = q
    BY <1>10 DEF Once, OnePlace
  <2>4. \A i \in DOMAIN executed, j \in DOMAIN commandTopic' :
           KeyOf(executed[i].command) # KeyOf(commandTopic'[j])
    BY <1>1, <1>2, <1>4 DEF Once, OnePlace
  <2>5. \A q \in Ops : Bearing(q)' =>
          /\ \A i \in DOMAIN executed : KeyOf(executed[i].command) # KeyOf(op'[q].command)
          /\ \A i \in DOMAIN commandTopic' : KeyOf(commandTopic'[i]) # KeyOf(op'[q].command)
    BY <1>1, <1>2, <1>4, <1>10 DEF Once, OnePlace
  <2> QED
    BY <2>1, <2>2, <2>3, <2>4, <2>5 DEF OnePlace
<1> QED
  BY <1>9, <1>11

\* The gripper executes the oldest command, and others may get lost.
LEMMA ExecuteOnce ==
    ASSUME Once, Backend!TakesEffect, UNCHANGED <<op, life, nextId>>,
           Among(commandTopic', Tail(commandTopic))
    PROVE  AllTaken' /\ OnePlace'
<1> DEFINE new == Len(executed) + 1
<1>1. /\ commandTopic \in Seq(Command) /\ commandTopic # <<>> /\ executed \in Seq(Backend!Execution)
      /\ executed' = Append(executed, [command |-> Head(commandTopic), session |-> session,
                                       wasActivated |-> gripper.activated])
  BY DEF Once, Typed, TypeOK, Backend!TakesEffect
<1>2. /\ DOMAIN executed' = DOMAIN executed \union {new} /\ new \notin DOMAIN executed
      /\ executed'[new].command = commandTopic[1] /\ 1 \in DOMAIN commandTopic
      /\ \A i \in DOMAIN executed : executed'[i] = executed[i]
  BY <1>1
<1>3. PICK at \in [DOMAIN commandTopic' -> DOMAIN Tail(commandTopic)] :
        /\ \A i, j \in DOMAIN commandTopic' : at[i] = at[j] => i = j
        /\ \A i \in DOMAIN commandTopic' : commandTopic'[i] = Tail(commandTopic)[at[i]]
  BY DEF Among
<1>4. DOMAIN Tail(commandTopic) = 1..(Len(commandTopic) - 1)
      /\ DOMAIN commandTopic = 1..Len(commandTopic) /\ Len(commandTopic) \in Nat
  BY <1>1
<1>5. \A i \in DOMAIN commandTopic' :
        /\ at[i] \in Nat /\ at[i] + 1 \in DOMAIN commandTopic /\ at[i] + 1 # 1
        /\ commandTopic'[i] = commandTopic[at[i] + 1]
  BY <1>1, <1>3, <1>4
<1>6. \A i, j \in DOMAIN commandTopic' : at[i] + 1 = at[j] + 1 => i = j
  BY <1>3, <1>5
<1> HIDE DEF new
<1>7. AllTaken'
  BY <1>2, <1>5 DEF Once, AllTaken, Taken, Bearing
<1>8. OnePlace'
  <2>1. AtMostOnce'
    BY <1>2 DEF Once, OnePlace, AtMostOnce
  <2>2. \A i, j \in DOMAIN commandTopic' :
           KeyOf(commandTopic'[i]) = KeyOf(commandTopic'[j]) => i = j
    BY <1>5, <1>6 DEF Once, OnePlace
  <2>3. \A i \in DOMAIN executed', j \in DOMAIN commandTopic' :
           KeyOf(executed'[i].command) # KeyOf(commandTopic'[j])
    BY <1>2, <1>5 DEF Once, OnePlace
  <2>4. \A q \in Ops : Bearing(q) =>
          /\ \A i \in DOMAIN executed' : KeyOf(executed'[i].command) # KeyOf(op[q].command)
          /\ \A i \in DOMAIN commandTopic' : KeyOf(commandTopic'[i]) # KeyOf(op[q].command)
    BY <1>2, <1>5 DEF Once, OnePlace
  <2> QED
    BY <2>1, <2>2, <2>3, <2>4 DEF Once, OnePlace, Bearing
<1> QED
  BY <1>7, <1>8

LEMMA PublishEnds == ASSUME Typed, NEW o \in Ops, PublishLossy(o) PROVE ~Bearing(o)'
<1>1. op \in [Ops -> Op] /\ op[o] \in Op
  BY DEF Typed, TypeOK
<1>2. Ended(op[o], "done", "ok").pc = "done"
  BY EndedShape
<1>3. op' = [op EXCEPT ![o] = CASE op[o].phase = "stop" -> Ended(op[o], "done", "ok")
                                [] op[o].phase = "halt" -> [op[o] EXCEPT !.pc = "finish"]
                                [] OTHER                -> [op[o] EXCEPT !.pc = "wait"]]
  BY DEF PublishLossy
<1>4. CASE op[o].phase = "stop"
  BY <1>1, <1>2, <1>3, <1>4 DEF Bearing
<1>5. CASE op[o].phase # "stop"
  BY <1>1, <1>3, <1>5 DEF Bearing, Op
<1> QED
  BY <1>4, <1>5

\* A request that takes no identifier does not come to bear a command.
LEMMA RequestBearsNone ==
    ASSUME Typed, NEW o \in Ops, Call(o) \/ Cancel(o) \/ AdvancesLossy(o) \/ Ends(o), ~AssignId(o)
    PROVE  NoneBorn
<1>1. op \in [Ops -> Op] /\ op[o] \in Op
  BY DEF Typed, TypeOK
<1>2. ASSUME \A p \in Ops \ {o} : op'[p] = op[p],
             op'[o].pc \notin {"remember", "publish"}
      PROVE  NoneBorn
  BY <1>2 DEF NoneBorn, Bearing
<1>3. ASSUME \A p \in Ops \ {o} : op'[p] = op[p],
             Bearing(o), op'[o].command = op[o].command
      PROVE  NoneBorn
  BY <1>3 DEF NoneBorn, Bearing
<1>4. \A p \in Ops \ {o} : op'[p] = op[p]
  BY <1>1 DEF Call, Cancel, AdvancesLossy, Ends, Begin, CheckFails, Check, CopyLast, Remember, Goto,
     PublishLossy, WaitFails, WaitSucceeds, WaitTimesOut, Abandon, Finish, Release
<1>5. \A pc \in Pcs, result \in Results : Ended(op[o], pc, result).pc = pc
  BY EndedShape
<1>6. CASE Call(o)
  <2>1. PICK kind \in KindsOf[o], goal \in Goals :
          op' = [op EXCEPT ![o].kind = kind, ![o].life = life,
                           ![o].goal = IF kind \in ActionKinds THEN goal ELSE @,
                           ![o].pc = IF kind = "stop" THEN "check" ELSE "begin"]
    BY <1>6 DEF Call
  <2>2. op'[o].pc = (IF kind = "stop" THEN "check" ELSE "begin")
    BY <1>1, <2>1 DEF Op
  <2> QED
    BY <1>2, <1>4, <2>2
<1>7. CASE Cancel(o)
  <2>1. op'[o].pc = op[o].pc /\ op'[o].command = op[o].command
    BY <1>1, <1>7 DEF Cancel, Op
  <2> QED
    BY <1>4, <2>1 DEF NoneBorn, Bearing
<1>8. CASE Begin(o) \/ CheckFails(o) \/ Release(o)
  <2>1. op'[o].pc \in {"done", "check", "release"}
    <3>1. CASE Begin(o)
      BY <1>1, <1>5, <3>1 DEF Begin, Op, Pcs, Results
    <3>2. CASE CheckFails(o)
      BY <1>1, <1>5, <3>2 DEF CheckFails, Op, Pcs, Results
    <3>3. CASE Release(o)
      BY <1>1, <1>5, <3>3 DEF Release, Op, Pcs
    <3> QED
      BY <1>8, <3>1, <3>2, <3>3
  <2> QED
    BY <1>2, <1>4, <2>1
<1>9. CASE Check(o) \/ CopyLast(o) \/ Finish(o)
  <2>1. op'[o].pc \in {"copy", "assign", "release"}
    BY <1>1, <1>9 DEF Check, CopyLast, Finish, Op
  <2> QED
    BY <1>2, <1>4, <2>1
<1>10. CASE PublishLossy(o)
  BY <1>2, <1>4, <1>10, PublishEnds DEF Bearing
<1>11. CASE Remember(o)
  <2>1. Bearing(o) /\ op'[o].command = op[o].command
    BY <1>1, <1>11 DEF Remember, Goto, Bearing, Op
  <2> QED
    BY <1>3, <1>4, <2>1
<1>12. CASE Ends(o)
  <2>1. op'[o].pc \notin {"remember", "publish"}
    <3>1. CASE WaitFails(o)
      BY <1>1, <3>1 DEF WaitFails, Abandon, Op
    <3>2. CASE WaitSucceeds(o)
      BY <1>1, <3>2 DEF WaitSucceeds, Op
    <3>3. CASE WaitTimesOut(o)
      BY <1>1, <3>3 DEF WaitTimesOut, Abandon, Op
    <3> QED
      BY <1>12, <3>1, <3>2, <3>3 DEF Ends
  <2> QED
    BY <1>2, <1>4, <2>1
<1> QED
  BY <1>6, <1>7, <1>8, <1>9, <1>10, <1>11, <1>12 DEF AdvancesLossy

LEMMA RequestOnce ==
    ASSUME Once, NEW o \in Ops, Call(o) \/ Cancel(o) \/ AdvancesLossy(o) \/ Ends(o),
           UNCHANGED backendOnly
    PROVE  AllTaken' /\ OnePlace'
<1>1. executed' = executed
  BY DEF backendOnly
<1>2. CASE AssignId(o)
  BY <1>1, <1>2, AssignOnce
<1>3. CASE ~AssignId(o)
  <2>1. NoneBorn /\ (PublishLossy(o) => ~Bearing(o)')
    BY <1>3, RequestBearsNone, PublishEnds DEF Once
  <2>2. Counts
    BY <1>3 DEF Call, Cancel, AdvancesLossy, Ends, Begin, CheckFails, Check, CopyLast, Remember,
       PublishLossy, WaitFails, WaitSucceeds, WaitTimesOut, Finish, Release, nodeVars, Counts
  <2>3. CASE ~PublishLossy(o) \/ stage # "spinning"
    <3>1. commandTopic' = commandTopic
      BY <1>3, <2>3 DEF Call, Cancel, AdvancesLossy, Ends, Begin, CheckFails, Check, CopyLast,
         Remember, PublishLossy, WaitFails, WaitSucceeds, WaitTimesOut, Finish, Release
    <3> QED
      BY <1>1, <2>1, <2>2, <3>1, AmongSelf, QuietOnce
  <2>4. CASE PublishLossy(o) /\ stage = "spinning"
    <3>1. commandTopic \in Seq(Command)
      BY DEF Once, Typed, TypeOK
    <3>2. PICK kept \in Backend!Remainders(commandTopic) :
            commandTopic' = Append(kept, op[o].command)
      BY <2>4 DEF PublishLossy
    <3>3. Bearing(o)
      BY <2>4 DEF PublishLossy, Bearing
    <3>4. kept \in Seq(Command) /\ Among(kept, commandTopic)
      BY <3>1, RemaindersAre, RemaindersAmong
    <3> QED
      BY <1>1, <2>1, <2>2, <2>4, <3>2, <3>3, <3>4, PublishOnce
  <2> QED
    BY <2>3, <2>4
<1> QED
  BY <1>2, <1>3

LEMMA ProcessOnce ==
    ASSUME Once, ReceiveStatus \/ SpinEnds \/ Destroy \/ RestartController, UNCHANGED backendOnly
    PROVE  AllTaken' /\ OnePlace'
<1>1. executed' = executed /\ commandTopic' = commandTopic
  BY DEF backendOnly, ReceiveStatus, SpinEnds, Destroy, RestartController
<1>2. Counts
  BY DEF Counts, ReceiveStatus, SpinEnds, Destroy, RestartController
<1>3. NoneBorn
  <2>1. CASE ReceiveStatus \/ SpinEnds \/ Destroy
    BY <2>1 DEF ReceiveStatus, SpinEnds, Destroy, NoneBorn, Bearing
  <2>2. CASE RestartController
    <3>1. \A o \in Ops : (op'[o] = op[o] /\ ~Underway(o)) \/ op'[o] = Ended(op[o], "dead", "none")
      BY <2>2 DEF RestartController
    <3>2. \A o \in Ops : ~Bearing(o)'
      BY <3>1, EndedShape DEF Bearing, Underway
    <3> QED
      BY <3>2 DEF NoneBorn
  <2> QED
    BY <2>1, <2>2
<1> QED
  BY <1>1, <1>2, <1>3, AmongSelf, QuietOnce

LEMMA BackendOnce ==
    ASSUME Once, AnyBackend
    PROVE  AllTaken' /\ OnePlace'
<1>1. UNCHANGED <<op, life, nextId>>
  BY DEF AnyBackend, Backend!BackendNext, nodeVars
<1>2. commandTopic \in Seq(Command)
  BY DEF Once, Typed, TypeOK
<1>3. ASSUME executed' = executed, Among(commandTopic', commandTopic) PROVE AllTaken' /\ OnePlace'
  BY <1>1, <1>3, QuietOnce DEF Counts, NoneBorn, Bearing
<1>4. CASE Backend!TakesEffect /\ (Backend!Execute \/ Backend!ExecuteUnacknowledged)
  <2>1. Tail(commandTopic) \in Seq(Command)
    BY <1>2, <1>4 DEF Backend!TakesEffect
  <2>2. Among(commandTopic', Tail(commandTopic))
    BY <1>4, <2>1, AmongSelf, RemaindersAmong
       DEF Backend!Execute, Backend!ExecuteUnacknowledged, Backend!SomeLost
  <2> QED
    BY <1>1, <1>4, <2>2, ExecuteOnce
<1>5. CASE Backend!GoOffline \/ Backend!Lose \/ Backend!ReportOffline
  <2>1. Among(commandTopic', commandTopic)
    BY <1>2, <1>5, RemaindersAmong
       DEF Backend!GoOffline, Backend!Lose, Backend!ReportOffline, Backend!SomeLost
  <2>2. executed' = executed
    BY <1>5 DEF Backend!GoOffline, Backend!Lose, Backend!ReportOffline
  <2> QED
    BY <1>3, <2>1, <2>2
<1>6. CASE Backend!Reboot
  <2>1. Among(<<>>, commandTopic)
    <3>1. DOMAIN <<>> = {}
      OBVIOUS
    <3>2. [i \in {} |-> i] \in [{} -> DOMAIN commandTopic]
      OBVIOUS
    <3> QED
      BY <3>1, <3>2 DEF Among
  <2> QED
    BY <1>3, <1>6, <2>1 DEF Backend!Reboot
<1>7. CASE \/ Backend!GripperPowerCycles \/ Backend!GoOnline
           \/ Backend!Report \/ Backend!GripperMoves
  <2>1. commandTopic' = commandTopic /\ executed' = executed
    BY <1>7 DEF Backend!GripperPowerCycles, Backend!GoOnline, Backend!Report, Backend!GripperMoves
  <2> QED
    BY <1>3, <2>1, AmongSelf
<1>8. Backend!Execute \/ Backend!ExecuteUnacknowledged => Backend!TakesEffect
  BY DEF Backend!Execute, Backend!ExecuteUnacknowledged
<1> QED
  BY <1>4, <1>5, <1>6, <1>7, <1>8 DEF AnyBackend, Backend!BackendNext

LEMMA NextOnce == Once /\ [OpenNext]_openVars => Once'
<1> SUFFICES ASSUME Once, [OpenNext]_openVars PROVE Once'
  OBVIOUS
<1>1. Typed'
  BY NextTyped DEF Once
<1>2. CASE ControllerLossy
  BY <1>1, <1>2, RequestOnce, ProcessOnce DEF ControllerLossy, Once
<1>3. CASE AnyBackend
  BY <1>1, <1>3, BackendOnce DEF Once
<1>4. CASE UNCHANGED openVars
  BY <1>1, <1>4 DEF openVars, controllerVars, nodeVars, backendOnly, Once, AllTaken, OnePlace, Taken,
     Bearing, AtMostOnce
<1> QED
  BY <1>2, <1>3, <1>4 DEF OpenNext

LEMMA InitOnce == Init => Once
<1> SUFFICES ASSUME Init PROVE Once
  OBVIOUS
<1>1. commandTopic = <<>> /\ executed = <<>> /\ \A o \in Ops : op[o].pc = "idle"
  BY DEF Init, ControllerInit, Backend!BackendInit, IdleOp
<1> QED
  BY <1>1, InitTyped DEF Once, AllTaken, OnePlace, AtMostOnce, Bearing

-----------------------------------------------------------------------------
(* A motion given up is not executed after the stop sent for it.           *)

\* c is the command that request o sent in a phase.
Sent(o, phase, c) ==
    op[o].sent[phase] # 0 /\ KeyOf(c) = <<op[o].life, op[o].sent[phase]>>

\* What the identifiers that requests remember say: each was taken for one
\* phase of one request, and a move is numbered before its stop is.
Numbered ==
    /\ \A o \in Ops :
        /\ Underway(o) => op[o].life = life
        /\ op[o].pc \in {"idle", "begin", "check"} => \A ph \in Phases : op[o].sent[ph] = 0
        /\ op[o].phase = "move" => op[o].sent["halt"] = 0
        /\ Bearing(o) => /\ op[o].command.life = op[o].life
                         /\ op[o].command.id = op[o].sent[op[o].phase]
        /\ \A ph \in Phases : op[o].sent[ph] # 0 =>
              op[o].life < life \/ (op[o].life = life /\ op[o].sent[ph] < nextId)
    /\ \A o, p \in Ops : \A ph, qh \in Phases :
          op[o].sent[ph] # 0 /\ op[p].sent[qh] # 0
             /\ op[o].life = op[p].life /\ op[o].sent[ph] = op[p].sent[qh]
          => o = p /\ ph = qh

\* A move stays before its stop, on the topic and after it.
HaltBehind ==
    \A o \in Ops :
        /\ \A i, j \in DOMAIN executed :
              Sent(o, "move", executed[i].command) /\ Sent(o, "halt", executed[j].command) => i < j
        /\ \A i, j \in DOMAIN commandTopic :
              Sent(o, "move", commandTopic[i]) /\ Sent(o, "halt", commandTopic[j]) => i < j
        /\ \A i \in DOMAIN commandTopic, j \in DOMAIN executed :
              ~(Sent(o, "move", commandTopic[i]) /\ Sent(o, "halt", executed[j].command))

InOrder == Typed /\ AllTaken /\ Numbered /\ HaltBehind

\* The commands of r are among those of s, in their order.
Follows(r, s) ==
    \E at \in [DOMAIN r -> DOMAIN s] : /\ \A i, j \in DOMAIN r : at[i] < at[j] <=> i < j
                                       /\ \A i \in DOMAIN r : r[i] = s[at[i]]

\* Request o numbers nothing, and its next command is still the one it was.
Continues(o) ==
    /\ op'[o].sent = op[o].sent /\ op'[o].life = op[o].life
    /\ Underway(o)' => Underway(o)
    /\ op'[o].pc \in {"idle", "begin", "check"} => op[o].pc \in {"idle", "begin", "check"}
    /\ op'[o].phase = "move" => op[o].phase = "move" \/ op[o].pc = "check"
    /\ Bearing(o)' => Bearing(o) /\ op'[o].command = op[o].command /\ op'[o].phase = op[o].phase

\* The requests remember the same commands.
SentSame == \A o \in Ops : \A phase \in Phases : \A c \in Command :
                Sent(o, phase, c)' <=> Sent(o, phase, c)

LEMMA OpFields ==
    ASSUME Typed, NEW o \in Ops
    PROVE  /\ op[o] \in Op /\ op[o].life \in Nat /\ op[o].command \in Command
           /\ op[o].sent \in [Phases -> Nat] /\ op[o].phase \in Phases /\ op[o].pc \in Pcs
           /\ life \in Nat /\ nextId \in Nat
BY DEF Typed, TypeOK, Op

LEMMA ContinuesNumbered ==
    ASSUME Typed, Numbered, \A o \in Ops : Continues(o),
           \/ life' = life /\ nextId' = nextId
           \/ life' = life + 1 /\ \A o \in Ops : ~Underway(o)'
    PROVE  Numbered' /\ SentSame
<1>1. SentSame
  BY DEF SentSame, Sent, Continues
<1>2. ASSUME NEW o \in Ops
      PROVE  /\ Underway(o)' => op'[o].life = life'
             /\ op'[o].pc \in {"idle", "begin", "check"} => \A ph \in Phases : op'[o].sent[ph] = 0
             /\ op'[o].phase = "move" => op'[o].sent["halt"] = 0
             /\ Bearing(o)' => /\ op'[o].command.life = op'[o].life
                               /\ op'[o].command.id = op'[o].sent[op'[o].phase]
             /\ \A ph \in Phases : op'[o].sent[ph] # 0 =>
                   op'[o].life < life' \/ (op'[o].life = life' /\ op'[o].sent[ph] < nextId')
  <2>1. Continues(o)
    OBVIOUS
  <2>2. Underway(o)' => op'[o].life = life'
    BY <2>1 DEF Numbered, Continues
  <2>3. op'[o].pc \in {"idle", "begin", "check"} => \A ph \in Phases : op'[o].sent[ph] = 0
    BY <2>1 DEF Numbered, Continues
  <2>4. op'[o].phase = "move" => op'[o].sent["halt"] = 0
    BY <2>1 DEF Numbered, Continues, Phases
  <2>5. Bearing(o)' => /\ op'[o].command.life = op'[o].life
                       /\ op'[o].command.id = op'[o].sent[op'[o].phase]
    BY <2>1 DEF Numbered, Continues
  <2>6. \A ph \in Phases : op'[o].sent[ph] # 0 =>
                   op'[o].life < life' \/ (op'[o].life = life' /\ op'[o].sent[ph] < nextId')
    BY <2>1, OpFields DEF Numbered, Continues
  <2> QED
    BY <2>2, <2>3, <2>4, <2>5, <2>6
<1>3. \A o, p \in Ops : \A ph, qh \in Phases :
          op'[o].sent[ph] # 0 /\ op'[p].sent[qh] # 0
             /\ op'[o].life = op'[p].life /\ op'[o].sent[ph] = op'[p].sent[qh]
          => o = p /\ ph = qh
  BY DEF Numbered, Continues
<1>4. Numbered'
  BY <1>2, <1>3 DEF Numbered
<1> QED
  BY <1>1, <1>4

\* A new request remembers nothing.
LEMMA CallNumbered ==
    ASSUME Typed, Numbered, NEW o \in Ops, Call(o)
    PROVE  Numbered' /\ SentSame
<1>1. PICK kind \in KindsOf[o], goal \in Goals :
        op' = [op EXCEPT ![o].kind = kind, ![o].life = life,
                         ![o].goal = IF kind \in ActionKinds THEN goal ELSE @,
                         ![o].pc = IF kind = "stop" THEN "check" ELSE "begin"]
  BY DEF Call
<1>2. /\ op \in [Ops -> Op] /\ op[o] \in Op /\ op[o].pc = "idle"
      /\ life' = life /\ nextId' = nextId
  BY DEF Typed, TypeOK, Call, nodeVars
<1>3. /\ op'[o].life = life /\ op'[o].pc \in {"check", "begin"}
      /\ op'[o].phase = op[o].phase /\ op'[o].sent = op[o].sent
      /\ \A p \in Ops \ {o} : op'[p] = op[p]
  BY <1>1, <1>2 DEF Op
<1>4. \A ph \in Phases : op[o].sent[ph] = 0 /\ op'[o].sent[ph] = 0
  BY <1>2, <1>3 DEF Numbered
<1>5. SentSame
  BY <1>3, <1>4 DEF SentSame, Sent, Phases
<1>6. ASSUME NEW p \in Ops
      PROVE  /\ Underway(p)' => op'[p].life = life'
             /\ op'[p].pc \in {"idle", "begin", "check"} => \A ph \in Phases : op'[p].sent[ph] = 0
             /\ op'[p].phase = "move" => op'[p].sent["halt"] = 0
             /\ Bearing(p)' => /\ op'[p].command.life = op'[p].life
                               /\ op'[p].command.id = op'[p].sent[op'[p].phase]
             /\ \A ph \in Phases : op'[p].sent[ph] # 0 =>
                   op'[p].life < life' \/ (op'[p].life = life' /\ op'[p].sent[ph] < nextId')
  <2>1. CASE p = o
    BY <1>2, <1>3, <1>4, <2>1 DEF Bearing, Phases
  <2>2. CASE p # o
    BY <1>2, <1>3, <2>2 DEF Numbered, Bearing, Underway
  <2> QED
    BY <2>1, <2>2
<1>7. \A p, q \in Ops : \A ph, qh \in Phases :
          op'[p].sent[ph] # 0 /\ op'[q].sent[qh] # 0
             /\ op'[p].life = op'[q].life /\ op'[p].sent[ph] = op'[q].sent[qh]
          => p = q /\ ph = qh
  BY <1>3, <1>4 DEF Numbered
<1>8. Numbered'
  BY <1>6, <1>7 DEF Numbered
<1> QED
  BY <1>5, <1>8

\* fetch_add: the new identifier is remembered for one phase of one request, and
\* is the identifier of no command yet.
LEMMA AssignNumbered ==
    ASSUME Typed, Numbered, NEW o \in Ops, AssignId(o)
    PROVE  /\ Numbered'
           /\ \A p \in Ops : \A phase \in Phases : \A c \in Command :
                 /\ Taken(c) /\ Sent(p, phase, c)' => Sent(p, phase, c)
<1>1. /\ op \in [Ops -> Op] /\ op[o].pc = "assign" /\ life' = life /\ nextId' = nextId + 1
      /\ op[o].life = life
  BY DEF Typed, TypeOK, AssignId, Numbered, Underway
<1>2. op[o] \in Op /\ op[o].phase \in Phases /\ op[o].sent \in [Phases -> Nat]
      /\ op[o].command \in Command /\ life \in Nat /\ nextId \in Nat \ {0}
  BY OpFields DEF Typed, TypeOK
<1>3. /\ op'[o].sent = [op[o].sent EXCEPT ![op[o].phase] = nextId]
      /\ op'[o].life = life /\ op'[o].phase = op[o].phase /\ op'[o].pc = "remember"
      /\ op'[o].command.life = life /\ op'[o].command.id = nextId
      /\ \A p \in Ops \ {o} : op'[p] = op[p]
  BY <1>1, <1>2 DEF AssignId, Op, Command
<1>4. /\ op'[o].sent[op[o].phase] = nextId
      /\ \A ph \in Phases \ {op[o].phase} : op'[o].sent[ph] = op[o].sent[ph]
  BY <1>2, <1>3
<1>5. ASSUME NEW p \in Ops
      PROVE  /\ Underway(p)' => op'[p].life = life'
             /\ op'[p].pc \in {"idle", "begin", "check"} => \A ph \in Phases : op'[p].sent[ph] = 0
             /\ op'[p].phase = "move" => op'[p].sent["halt"] = 0
             /\ Bearing(p)' => /\ op'[p].command.life = op'[p].life
                               /\ op'[p].command.id = op'[p].sent[op'[p].phase]
  <2>1. CASE p = o
    BY <1>1, <1>3, <1>4, <2>1 DEF Numbered, Phases
  <2>2. CASE p # o
    BY <1>1, <1>3, <2>2 DEF Numbered, Bearing, Underway
  <2> QED
    BY <2>1, <2>2
<1>6. ASSUME NEW p \in Ops, NEW ph \in Phases, op[p].sent[ph] # 0
      PROVE  op[p].life < life \/ (op[p].life = life /\ op[p].sent[ph] < nextId)
  BY <1>6 DEF Numbered
<1>7. ASSUME NEW p \in Ops, NEW ph \in Phases, op'[p].sent[ph] # 0
      PROVE  op'[p].life < life' \/ (op'[p].life = life' /\ op'[p].sent[ph] < nextId')
  <2>1. CASE p = o /\ ph = op[o].phase
    BY <1>1, <1>2, <1>3, <1>4, <2>1
  <2>2. CASE p = o /\ ph # op[o].phase
    <3>1. op'[p].sent[ph] = op[o].sent[ph] /\ op'[p].life = life /\ op[o].sent[ph] \in Nat
      BY <1>2, <1>3, <1>4, <2>2
    <3> QED
      BY <1>1, <1>2, <1>6, <1>7, <2>2, <3>1
  <2>3. CASE p # o
    BY <1>1, <1>2, <1>3, <1>6, <1>7, <2>3, OpFields
  <2> QED
    BY <2>1, <2>2, <2>3
<1>8. ASSUME NEW p \in Ops, NEW ph \in Phases, op[p].life = life, op[p].sent[ph] # 0
      PROVE  op[p].sent[ph] # nextId
  BY <1>2, <1>6, <1>8, OpFields
<1>9. \A p, q \in Ops : \A ph, qh \in Phases :
          op'[p].sent[ph] # 0 /\ op'[q].sent[qh] # 0
             /\ op'[p].life = op'[q].life /\ op'[p].sent[ph] = op'[q].sent[qh]
          => p = q /\ ph = qh
  <2> SUFFICES ASSUME NEW p \in Ops, NEW q \in Ops, NEW ph \in Phases, NEW qh \in Phases,
                      op'[p].sent[ph] # 0, op'[q].sent[qh] # 0,
                      op'[p].life = op'[q].life, op'[p].sent[ph] = op'[q].sent[qh]
               PROVE  p = q /\ ph = qh
    OBVIOUS
  <2> DEFINE New(r, rh) == r = o /\ rh = op[o].phase
  <2>1. \A r \in Ops, rh \in Phases : op'[r].life = op[r].life
           /\ (~New(r, rh) => op'[r].sent[rh] = op[r].sent[rh])
           /\ (New(r, rh) => op'[r].sent[rh] = nextId /\ op[r].life = life)
    BY <1>1, <1>3, <1>4
  <2> HIDE DEF New
  <2>2. CASE ~New(p, ph) /\ ~New(q, qh)
    BY <2>1, <2>2 DEF Numbered
  <2>3. CASE New(p, ph) /\ ~New(q, qh)
    BY <1>8, <2>1, <2>3
  <2>4. CASE ~New(p, ph) /\ New(q, qh)
    BY <1>8, <2>1, <2>4
  <2>5. CASE New(p, ph) /\ New(q, qh)
    BY <2>5 DEF New
  <2> QED
    BY <2>2, <2>3, <2>4, <2>5
<1>10. Numbered'
  BY <1>5, <1>7, <1>9 DEF Numbered
<1>11. ASSUME NEW p \in Ops, NEW phase \in Phases, NEW c \in Command,
              Taken(c), Sent(p, phase, c)'
       PROVE  Sent(p, phase, c)
  <2>2. CASE p = o /\ phase = op[o].phase
    <3>1. c.life = life /\ c.id = nextId
      BY <1>3, <1>4, <1>11, <2>2 DEF Sent, KeyOf
    <3> QED
      BY <1>2, <1>11, <3>1 DEF Taken
  <2>3. CASE p = o /\ phase # op[o].phase
    BY <1>1, <1>3, <1>4, <1>11, <2>3 DEF Sent
  <2>4. CASE p # o
    BY <1>3, <1>11, <2>4 DEF Sent
  <2> QED
    BY <2>2, <2>3, <2>4
<1> QED
  BY <1>10, <1>11

\* Steps that publish and execute nothing, and only number commands to come.
LEMMA QuietBehind ==
    ASSUME Typed, Typed', AllTaken, HaltBehind,
           \A o \in Ops : \A phase \in {"move", "halt"} : \A c \in Command :
               Taken(c) /\ Sent(o, phase, c)' => Sent(o, phase, c),
           executed' = executed, Follows(commandTopic', commandTopic)
    PROVE  HaltBehind'
<1>1. PICK at \in [DOMAIN commandTopic' -> DOMAIN commandTopic] :
        /\ \A i, j \in DOMAIN commandTopic' : at[i] < at[j] => i < j
        /\ \A i \in DOMAIN commandTopic' : commandTopic'[i] = commandTopic[at[i]]
  BY DEF Follows
<1>2. \A i \in DOMAIN commandTopic' : at[i] \in DOMAIN commandTopic
  OBVIOUS
<1>3. /\ \A i \in DOMAIN commandTopic : commandTopic[i] \in Command /\ Taken(commandTopic[i])
      /\ \A i \in DOMAIN executed : executed[i].command \in Command /\ Taken(executed[i].command)
  BY CommandsTyped DEF AllTaken
<1>4. ASSUME NEW o \in Ops, NEW phase \in {"move", "halt"}
      PROVE  /\ \A i \in DOMAIN commandTopic' :
                   Sent(o, phase, commandTopic[i])' => Sent(o, phase, commandTopic[at[i]])
             /\ \A i \in DOMAIN executed :
                   Sent(o, phase, executed[i].command)' => Sent(o, phase, executed[i].command)
  <2>1. ASSUME NEW i \in DOMAIN commandTopic', Sent(o, phase, commandTopic[i])'
        PROVE  Sent(o, phase, commandTopic[at[i]])
    BY <1>1, <1>2, <1>3, <2>1 DEF Sent
  <2>2. ASSUME NEW i \in DOMAIN executed, Sent(o, phase, executed[i].command)'
        PROVE  Sent(o, phase, executed[i].command)
    BY <1>3, <2>2 DEF Sent
  <2> QED
    BY <2>1, <2>2
<1>5. ASSUME NEW o \in Ops
      PROVE  /\ \A i, j \in DOMAIN executed' :
                   Sent(o, "move", executed[i].command)' /\ Sent(o, "halt", executed[j].command)'
                   => i < j
             /\ \A i, j \in DOMAIN commandTopic' :
                   Sent(o, "move", commandTopic[i])' /\ Sent(o, "halt", commandTopic[j])' => i < j
             /\ \A i \in DOMAIN commandTopic', j \in DOMAIN executed' :
                   ~(Sent(o, "move", commandTopic[i])' /\ Sent(o, "halt", executed[j].command)')
  BY <1>1, <1>2, <1>4 DEF HaltBehind
<1> QED
  BY <1>5 DEF HaltBehind

\* publish() appends: behind the move goes its stop, and before the stop of a
\* request nothing of the same request is left to publish.
LEMMA PublishBehind ==
    ASSUME Typed, Numbered, HaltBehind, SentSame, executed' = executed,
           NEW o \in Ops, Bearing(o),
           NEW kept \in Seq(Command), Follows(kept, commandTopic),
           commandTopic' = Append(kept, op[o].command)
    PROVE  HaltBehind'
<1> DEFINE new == Len(kept) + 1
<1>1. PICK at \in [DOMAIN kept -> DOMAIN commandTopic] :
        /\ \A i, j \in DOMAIN kept : at[i] < at[j] => i < j
        /\ \A i \in DOMAIN kept : kept[i] = commandTopic[at[i]]
  BY DEF Follows
<1>2. \A i \in DOMAIN kept : at[i] \in DOMAIN commandTopic
  OBVIOUS
<1>3. /\ \A i \in DOMAIN commandTopic : commandTopic[i] \in Command
      /\ \A i \in DOMAIN executed : executed[i].command \in Command
      /\ op[o].command \in Command /\ op[o].phase \in Phases
  BY CommandsTyped, OpFields
<1>4. /\ DOMAIN commandTopic' = DOMAIN kept \union {new}
      /\ commandTopic'[new] = op[o].command
      /\ \A i \in DOMAIN kept : i < new /\ commandTopic'[i] = kept[i]
  BY <1>3
<1> HIDE DEF new
<1>5. \A p \in Ops : Sent(p, "move", op[o].command) =>
         \A c \in Command : ~Sent(p, "halt", c)
  <2> SUFFICES ASSUME NEW p \in Ops, Sent(p, "move", op[o].command), NEW c \in Command
               PROVE  ~Sent(p, "halt", c)
    OBVIOUS
  <2>1. /\ op[o].sent[op[o].phase] # 0 /\ op[p].sent["move"] # 0
        /\ op[o].life = op[p].life /\ op[o].sent[op[o].phase] = op[p].sent["move"]
    BY DEF Numbered, Sent, KeyOf
  <2>2. \A ph, qh \in Phases :
           op[o].sent[ph] # 0 /\ op[p].sent[qh] # 0
              /\ op[o].life = op[p].life /\ op[o].sent[ph] = op[p].sent[qh]
           => o = p /\ ph = qh
    BY DEF Numbered
  <2>3. op[o].phase \in Phases /\ "move" \in Phases
    BY <1>3 DEF Phases
  <2>4. p = o /\ op[o].phase = "move"
    BY <2>1, <2>2, <2>3
  <2> QED
    BY <2>4 DEF Numbered, Sent
<1>6. ASSUME NEW p \in Ops, NEW phase \in {"move", "halt"}
      PROVE  /\ \A i \in DOMAIN kept :
                   Sent(p, phase, commandTopic[i])' => Sent(p, phase, commandTopic[at[i]])
             /\ Sent(p, phase, commandTopic[new])' => Sent(p, phase, op[o].command)
             /\ \A i \in DOMAIN executed :
                   Sent(p, phase, executed[i].command)' => Sent(p, phase, executed[i].command)
  <2>1. ASSUME NEW i \in DOMAIN kept, Sent(p, phase, commandTopic[i])'
        PROVE  Sent(p, phase, commandTopic[at[i]])
    BY <1>1, <1>2, <1>3, <1>4, <2>1 DEF SentSame, Sent, Phases
  <2>2. ASSUME Sent(p, phase, commandTopic[new])' PROVE Sent(p, phase, op[o].command)
    BY <1>3, <1>4, <2>2 DEF SentSame, Sent, Phases
  <2>3. ASSUME NEW i \in DOMAIN executed, Sent(p, phase, executed[i].command)'
        PROVE  Sent(p, phase, executed[i].command)
    BY <1>3, <2>3 DEF SentSame, Sent, Phases
  <2> QED
    BY <2>1, <2>2, <2>3
<1>7. ASSUME NEW p \in Ops
      PROVE  /\ \A i, j \in DOMAIN executed' :
                   Sent(p, "move", executed[i].command)' /\ Sent(p, "halt", executed[j].command)'
                   => i < j
             /\ \A i, j \in DOMAIN commandTopic' :
                   Sent(p, "move", commandTopic[i])' /\ Sent(p, "halt", commandTopic[j])' => i < j
             /\ \A i \in DOMAIN commandTopic', j \in DOMAIN executed' :
                   ~(Sent(p, "move", commandTopic[i])' /\ Sent(p, "halt", executed[j].command)')
  <2>1. \A i, j \in DOMAIN executed' :
           Sent(p, "move", executed[i].command)' /\ Sent(p, "halt", executed[j].command)' => i < j
    BY <1>6 DEF HaltBehind
  <2>2. ASSUME NEW i \in DOMAIN commandTopic', NEW j \in DOMAIN commandTopic',
               Sent(p, "move", commandTopic[i])', Sent(p, "halt", commandTopic[j])'
        PROVE  i < j
    <3>1. CASE i \in DOMAIN kept /\ j \in DOMAIN kept
      BY <1>1, <1>2, <1>6, <2>2, <3>1 DEF HaltBehind
    <3>2. CASE i \in DOMAIN kept /\ j = new
      BY <1>4, <3>2
    <3>3. CASE i = new
      <4>1. Sent(p, "move", op[o].command)
        BY <1>6, <2>2, <3>3
      <4>2. j = new \/ j \in DOMAIN kept
        BY <1>4
      <4>3. \E c \in Command : Sent(p, "halt", c)
        BY <1>2, <1>3, <1>6, <2>2, <4>2
      <4> QED
        BY <1>5, <4>1, <4>3
    <3> QED
      BY <1>4, <3>1, <3>2, <3>3
  <2>3. ASSUME NEW i \in DOMAIN commandTopic', NEW j \in DOMAIN executed',
               Sent(p, "move", commandTopic[i])', Sent(p, "halt", executed[j].command)'
        PROVE  FALSE
    <3>1. Sent(p, "halt", executed[j].command) /\ executed[j].command \in Command
      BY <1>3, <1>6, <2>3
    <3>2. CASE i = new
      BY <1>5, <1>6, <2>3, <3>1, <3>2
    <3>3. CASE i \in DOMAIN kept
      BY <1>2, <1>6, <2>3, <3>1, <3>3 DEF HaltBehind
    <3> QED
      BY <1>4, <3>2, <3>3
  <2> QED
    BY <2>1, <2>2, <2>3
<1> QED
  BY <1>7 DEF HaltBehind

\* The oldest command is executed: the stop of a move only when the move is no
\* longer on its way.
LEMMA ExecuteBehind ==
    ASSUME Typed, HaltBehind, Backend!TakesEffect, UNCHANGED op,
           Follows(commandTopic', Tail(commandTopic))
    PROVE  HaltBehind'
<1>1. /\ commandTopic \in Seq(Command) /\ commandTopic # <<>> /\ executed \in Seq(Backend!Execution)
      /\ executed' = Append(executed, [command |-> Head(commandTopic), session |-> session,
                                       wasActivated |-> gripper.activated])
  BY DEF Typed, TypeOK, Backend!TakesEffect
<1>2. PICK new \in Nat : new = Len(executed) + 1
  BY <1>1
<1>3. /\ DOMAIN executed' = DOMAIN executed \union {new}
      /\ executed'[new].command = commandTopic[1] /\ 1 \in DOMAIN commandTopic
      /\ \A i \in DOMAIN executed : i < new /\ executed'[i] = executed[i]
  BY <1>1, <1>2
<1>4. PICK at \in [DOMAIN commandTopic' -> DOMAIN Tail(commandTopic)] :
        /\ \A i, j \in DOMAIN commandTopic' : at[i] < at[j] => i < j
        /\ \A i \in DOMAIN commandTopic' : commandTopic'[i] = Tail(commandTopic)[at[i]]
  BY DEF Follows
<1>5. DOMAIN Tail(commandTopic) = 1..(Len(commandTopic) - 1)
      /\ DOMAIN commandTopic = 1..Len(commandTopic) /\ Len(commandTopic) \in Nat
  BY <1>1
<1>6. \A i \in DOMAIN commandTopic' :
        /\ at[i] \in Nat /\ at[i] + 1 \in DOMAIN commandTopic /\ ~(at[i] + 1 < 1)
        /\ commandTopic'[i] = commandTopic[at[i] + 1]
  BY <1>1, <1>4, <1>5
<1>7. \A i, j \in DOMAIN commandTopic' : at[i] + 1 < at[j] + 1 => i < j
  BY <1>4, <1>6
<1>8. ~(new < new) /\ ~(1 < 1)
  OBVIOUS
<1>9. ASSUME NEW p \in Ops
      PROVE  /\ \A i, j \in DOMAIN executed' :
                   Sent(p, "move", executed[i].command)' /\ Sent(p, "halt", executed[j].command)'
                   => i < j
             /\ \A i, j \in DOMAIN commandTopic' :
                   Sent(p, "move", commandTopic[i])' /\ Sent(p, "halt", commandTopic[j])' => i < j
             /\ \A i \in DOMAIN commandTopic', j \in DOMAIN executed' :
                   ~(Sent(p, "move", commandTopic[i])' /\ Sent(p, "halt", executed[j].command)')
  <2>1. ASSUME NEW phase \in {"move", "halt"}
        PROVE  /\ \A i \in DOMAIN commandTopic' :
                     Sent(p, phase, commandTopic[i])' => Sent(p, phase, commandTopic[at[i] + 1])
               /\ Sent(p, phase, executed[new].command)' => Sent(p, phase, commandTopic[1])
               /\ \A i \in DOMAIN executed :
                     Sent(p, phase, executed[i].command)' => Sent(p, phase, executed[i].command)
    <3>1. ASSUME NEW i \in DOMAIN commandTopic', Sent(p, phase, commandTopic[i])'
          PROVE  Sent(p, phase, commandTopic[at[i] + 1])
      BY <1>6, <3>1 DEF Sent
    <3>2. Sent(p, phase, executed[new].command)' => Sent(p, phase, commandTopic[1])
      BY <1>3 DEF Sent
    <3>3. ASSUME NEW i \in DOMAIN executed, Sent(p, phase, executed[i].command)'
          PROVE  Sent(p, phase, executed[i].command)
      BY <1>3, <3>3 DEF Sent
    <3> QED
      BY <3>1, <3>2, <3>3
  <2>2. ASSUME NEW i \in DOMAIN executed', NEW j \in DOMAIN executed',
               Sent(p, "move", executed[i].command)', Sent(p, "halt", executed[j].command)'
        PROVE  i < j
    <3>1. CASE i \in DOMAIN executed /\ j \in DOMAIN executed
      BY <2>1, <2>2, <3>1 DEF HaltBehind
    <3>2. CASE i \in DOMAIN executed /\ j = new
      BY <1>3, <3>2
    <3>3. CASE i = new /\ j \in DOMAIN executed
      <4>1. Sent(p, "move", commandTopic[1])
        BY <2>1, <2>2, <3>3
      <4>2. Sent(p, "halt", executed[j].command)
        BY <2>1, <2>2, <3>3
      <4> QED
        BY <1>3, <3>3, <4>1, <4>2 DEF HaltBehind
    <3>4. CASE i = new /\ j = new
      <4>1. Sent(p, "move", commandTopic[1])
        BY <2>1, <2>2, <3>4
      <4>2. Sent(p, "halt", commandTopic[1])
        BY <2>1, <2>2, <3>4
      <4> QED
        BY <1>3, <1>8, <4>1, <4>2 DEF HaltBehind
    <3> QED
      BY <1>3, <3>1, <3>2, <3>3, <3>4
  <2>3. ASSUME NEW i \in DOMAIN commandTopic', NEW j \in DOMAIN commandTopic',
               Sent(p, "move", commandTopic[i])', Sent(p, "halt", commandTopic[j])'
        PROVE  i < j
    BY <1>6, <1>7, <2>1, <2>3 DEF HaltBehind
  <2>4. ASSUME NEW i \in DOMAIN commandTopic', NEW j \in DOMAIN executed',
               Sent(p, "move", commandTopic[i])', Sent(p, "halt", executed[j].command)'
        PROVE  FALSE
    <3>1. CASE j = new
      <4>1. Sent(p, "move", commandTopic[at[i] + 1])
        BY <2>1, <2>4
      <4>2. Sent(p, "halt", commandTopic[1])
        BY <2>1, <2>4, <3>1
      <4> QED
        BY <1>3, <1>6, <4>1, <4>2 DEF HaltBehind
    <3>2. CASE j \in DOMAIN executed
      BY <1>6, <2>1, <2>4, <3>2 DEF HaltBehind
    <3> QED
      BY <1>3, <3>1, <3>2
  <2> QED
    BY <2>2, <2>3, <2>4
<1> QED
  BY <1>9 DEF HaltBehind

LEMMA EndedFields ==
    ASSUME NEW r, NEW pc, NEW result
    PROVE  /\ Ended(r, pc, result).pc = pc /\ Ended(r, pc, result).phase = "none"
           /\ Ended(r, pc, result).sent = r.sent /\ Ended(r, pc, result).life = r.life
           /\ Ended(r, pc, result).kind = r.kind /\ Ended(r, pc, result).result = result
BY DEF Ended, IdleOp

\* The steps of the requests and of the process, and the losses.
LEMMA RequestContinues ==
    ASSUME Typed, NEW o \in Ops, Cancel(o) \/ AdvancesLossy(o) \/ Ends(o), ~AssignId(o)
    PROVE  \A p \in Ops : Continues(p)
<1>1. op \in [Ops -> Op] /\ op[o] \in Op /\ op[o].sent \in [Phases -> Nat]
  BY OpFields DEF Typed, TypeOK
<1>2. \A p \in Ops \ {o} : op'[p] = op[p]
  BY <1>1 DEF Cancel, AdvancesLossy, Ends, Begin, CheckFails, Check, CopyLast, Remember, Goto,
     PublishLossy, WaitFails, WaitSucceeds, WaitTimesOut, Abandon, Finish, Release
<1>3. \A p \in Ops \ {o} : Continues(p)
  BY <1>2 DEF Continues, Underway, Bearing
<1>4. \A pc, result : /\ Ended(op[o], pc, result).pc = pc
                      /\ Ended(op[o], pc, result).phase = "none"
                      /\ Ended(op[o], pc, result).sent = op[o].sent
                      /\ Ended(op[o], pc, result).life = op[o].life
  BY EndedFields
<1>5. ASSUME op'[o].sent = op[o].sent, op'[o].life = op[o].life, Underway(o),
             op'[o].pc \notin {"idle", "begin", "remember", "publish"},
             op'[o].pc = "check" => op[o].pc = "begin",
             op'[o].phase = "move" => op[o].phase = "move" \/ op[o].pc = "check"
      PROVE  Continues(o)
  BY <1>5 DEF Continues, Bearing
<1> SUFFICES Continues(o)
  BY <1>3
<1>6. CASE Cancel(o)
  <2>1. op'[o] = [op[o] EXCEPT !.cancelling = TRUE]
    BY <1>1, <1>6 DEF Cancel
  <2> QED
    BY <1>1, <2>1 DEF Continues, Bearing, Underway, Op
<1>7. CASE Begin(o)
  <2>1. op'[o] = IF busy THEN Ended(op[o], "done", "busy") ELSE [op[o] EXCEPT !.pc = "check"]
    BY <1>1, <1>7 DEF Begin
  <2>2. op[o].pc = "begin"
    BY <1>7 DEF Begin
  <2>3. CASE busy
    BY <1>4, <1>5, <2>1, <2>2, <2>3 DEF Underway
  <2>4. CASE ~busy
    BY <1>1, <1>5, <2>1, <2>2, <2>4 DEF Underway, Op
  <2> QED
    BY <2>3, <2>4
<1>8. CASE CheckFails(o)
  <2>1. op[o].pc = "check"
    BY <1>8 DEF CheckFails
  <2>2. CASE op[o].kind = "stop"
    <3>1. op'[o] = Ended(op[o], "done", "failed")
      BY <1>1, <1>8, <2>2 DEF CheckFails
    <3> QED
      BY <1>4, <1>5, <2>1, <3>1 DEF Underway
  <2>3. CASE op[o].kind # "stop"
    <3>1. /\ op'[o].pc = "release" /\ op'[o].phase = op[o].phase
          /\ op'[o].sent = op[o].sent /\ op'[o].life = op[o].life
      BY <1>1, <1>8, <2>3 DEF CheckFails, Op
    <3> QED
      BY <1>5, <2>1, <3>1 DEF Underway
  <2> QED
    BY <2>2, <2>3
<1>9. CASE Check(o) \/ CopyLast(o) \/ Finish(o)
  <2>1. /\ op[o].pc \in {"check", "copy", "finish"} /\ op'[o].pc \in {"copy", "assign", "release"}
        /\ op'[o].sent = op[o].sent /\ op'[o].life = op[o].life
        /\ op'[o].phase = op[o].phase \/ op[o].pc = "check"
    BY <1>1, <1>9 DEF Check, CopyLast, Finish, Op
  <2> QED
    BY <1>5, <2>1 DEF Underway
<1>10. CASE Remember(o)
  <2>1. op'[o] = [op[o] EXCEPT !.pc = "publish"] /\ op[o].pc = "remember"
    BY <1>1, <1>10 DEF Remember, Goto
  <2> QED
    BY <1>1, <2>1 DEF Continues, Bearing, Underway, Op
<1>11. CASE PublishLossy(o)
  <2>1. op[o].pc = "publish"
    BY <1>11 DEF PublishLossy
  <2>2. CASE op[o].phase = "stop"
    <3>1. op'[o] = Ended(op[o], "done", "ok")
      BY <1>1, <1>11, <2>2 DEF PublishLossy
    <3> QED
      BY <1>4, <1>5, <2>1, <3>1 DEF Underway
  <2>3. CASE op[o].phase # "stop"
    <3>1. PICK pc \in {"finish", "wait"} : op' = [op EXCEPT ![o] = [op[o] EXCEPT !.pc = pc]]
      BY <1>11, <2>3 DEF PublishLossy
    <3>2. op'[o] = [op[o] EXCEPT !.pc = pc]
      BY <1>1, <3>1
    <3> QED
      BY <1>1, <1>5, <2>1, <3>2 DEF Underway, Op
  <2> QED
    BY <2>2, <2>3
<1>12. CASE Release(o)
  <2>1. op'[o] = Ended(op[o], "done", op[o].result) /\ op[o].pc = "release"
    BY <1>1, <1>12 DEF Release
  <2> QED
    BY <1>4, <1>5, <2>1 DEF Underway
<1>13. CASE Ends(o)
  <2>1. op[o].pc = "wait"
    BY <1>13 DEF Ends, WaitFails, WaitSucceeds, WaitTimesOut
  <2>2. /\ op'[o].pc \in {"assign", "finish", "release"}
        /\ op'[o].sent = op[o].sent /\ op'[o].life = op[o].life
        /\ op'[o].phase \in {op[o].phase, "halt", "activate"}
    <3>1. CASE WaitFails(o) \/ WaitTimesOut(o)
      BY <1>1, <3>1 DEF WaitFails, WaitTimesOut, Abandon, Op
    <3>2. CASE WaitSucceeds(o)
      BY <1>1, <3>2 DEF WaitSucceeds, Op
    <3> QED
      BY <1>13, <3>1, <3>2 DEF Ends
  <2> QED
    BY <1>5, <2>1, <2>2 DEF Underway
<1> QED
  BY <1>6, <1>7, <1>8, <1>9, <1>10, <1>11, <1>12, <1>13 DEF AdvancesLossy

LEMMA FollowsSelf == ASSUME NEW s \in Seq(Command) PROVE Follows(s, s)
<1> DEFINE at == [i \in DOMAIN s |-> i]
<1>1. at \in [DOMAIN s -> DOMAIN s] /\ \A i \in DOMAIN s : at[i] = i
  OBVIOUS
<1> HIDE DEF at
<1> QED
  BY <1>1 DEF Follows

LEMMA RemaindersFollow ==
    ASSUME NEW s \in Seq(Command), NEW r \in Backend!Remainders(s)
    PROVE  Follows(r, s)
<1>1. r \in Seq(Command)
  BY RemaindersAre
<1>2. PICK at \in [1..Len(r) -> 1..Len(s)] :
        /\ \A i, j \in 1..Len(r) : i < j => at[i] < at[j]
        /\ \A i \in 1..Len(r) : r[i] = s[at[i]]
  BY RemaindersAre
<1>3. DOMAIN r = 1..Len(r) /\ DOMAIN s = 1..Len(s) /\ Len(r) \in Nat /\ Len(s) \in Nat
  BY <1>1
<1>4. \A i, j \in 1..Len(r) : at[i] < at[j] <=> i < j
  <2> SUFFICES ASSUME NEW i \in 1..Len(r), NEW j \in 1..Len(r) PROVE at[i] < at[j] <=> i < j
    OBVIOUS
  <2>1. at[i] \in 1..Len(s) /\ at[j] \in 1..Len(s)
    OBVIOUS
  <2>2. at[i] \in Nat /\ at[j] \in Nat /\ i \in Nat /\ j \in Nat
    BY <2>1
  <2>3. (j < i => at[j] < at[i]) /\ (i < j => at[i] < at[j])
    BY <1>2
  <2>4. j = i => at[j] = at[i]
    OBVIOUS
  <2> QED
    BY <2>2, <2>3, <2>4
<1>5. at \in [DOMAIN r -> DOMAIN s]
  BY <1>3
<1>6. \A i, j \in DOMAIN r : at[i] < at[j] <=> i < j
  BY <1>3, <1>4
<1>7. \A i \in DOMAIN r : r[i] = s[at[i]]
  BY <1>2, <1>3
<1> QED
  BY <1>5, <1>6, <1>7, Zenon DEF Follows

LEMMA RequestInOrder ==
    ASSUME InOrder, Typed', NEW o \in Ops, Call(o) \/ Cancel(o) \/ AdvancesLossy(o) \/ Ends(o),
           UNCHANGED backendOnly
    PROVE  Numbered' /\ HaltBehind'
<1>1. executed' = executed /\ commandTopic \in Seq(Command)
  BY DEF backendOnly, InOrder, Typed, TypeOK
<1>2. ASSUME SentSame, commandTopic' = commandTopic PROVE HaltBehind'
  BY <1>1, <1>2, FollowsSelf, QuietBehind DEF InOrder, SentSame, Phases
<1>3. CASE AssignId(o)
  <2>1. commandTopic' = commandTopic
    BY <1>3 DEF AssignId
  <2> QED
    BY <1>1, <1>3, <2>1, AssignNumbered, FollowsSelf, QuietBehind DEF InOrder, Phases
<1>4. CASE Call(o)
  <2>1. commandTopic' = commandTopic
    BY <1>4 DEF Call
  <2> QED
    BY <1>2, <1>4, <2>1, CallNumbered DEF InOrder
<1>5. CASE ~AssignId(o) /\ ~Call(o)
  <2>1. life' = life /\ nextId' = nextId
    BY <1>5 DEF Cancel, AdvancesLossy, Ends, Begin, CheckFails, Check, CopyLast, Remember,
       PublishLossy, WaitFails, WaitSucceeds, WaitTimesOut, Finish, Release, nodeVars
  <2>2. Numbered' /\ SentSame
    BY <1>5, <2>1, RequestContinues, ContinuesNumbered DEF InOrder
  <2>3. CASE ~PublishLossy(o) \/ stage # "spinning"
    <3>1. commandTopic' = commandTopic
      BY <1>5, <2>3 DEF Cancel, AdvancesLossy, Ends, Begin, CheckFails, Check, CopyLast,
         Remember, PublishLossy, WaitFails, WaitSucceeds, WaitTimesOut, Finish, Release
    <3> QED
      BY <1>2, <2>2, <3>1
  <2>4. CASE PublishLossy(o) /\ stage = "spinning"
    <3>1. PICK kept \in Backend!Remainders(commandTopic) :
            commandTopic' = Append(kept, op[o].command)
      BY <2>4 DEF PublishLossy
    <3>2. Bearing(o)
      BY <2>4 DEF PublishLossy, Bearing
    <3>3. kept \in Seq(Command) /\ Follows(kept, commandTopic)
      BY <1>1, RemaindersAre, RemaindersFollow
    <3> QED
      BY <1>1, <2>2, <3>1, <3>2, <3>3, PublishBehind DEF InOrder
  <2> QED
    BY <2>3, <2>4
<1> QED
  BY <1>3, <1>4, <1>5

LEMMA ProcessInOrder ==
    ASSUME InOrder, Typed', ReceiveStatus \/ SpinEnds \/ Destroy \/ RestartController,
           UNCHANGED backendOnly
    PROVE  Numbered' /\ HaltBehind'
<1>1. executed' = executed /\ commandTopic' = commandTopic /\ commandTopic \in Seq(Command)
  BY DEF backendOnly, ReceiveStatus, SpinEnds, Destroy, RestartController, InOrder, Typed, TypeOK
<1>2. Numbered' /\ SentSame
  <2>1. CASE ReceiveStatus \/ SpinEnds \/ Destroy
    <3>1. UNCHANGED <<op, life, nextId>>
      BY <2>1 DEF ReceiveStatus, SpinEnds, Destroy
    <3>2. \A o \in Ops : Continues(o)
      BY <3>1 DEF Continues, Underway, Bearing
    <3> QED
      BY <3>1, <3>2, ContinuesNumbered DEF InOrder
  <2>2. CASE RestartController
    <3>1. \A o \in Ops : /\ Underway(o) => op'[o] = Ended(op[o], "dead", "none")
                         /\ ~Underway(o) => op'[o] = op[o]
      BY <2>2 DEF RestartController
    <3>2. \A o \in Ops : Continues(o) /\ ~Underway(o)'
      <4> TAKE o \in Ops
      <4>1. CASE Underway(o)
        BY <3>1, <4>1, EndedFields DEF Continues, Bearing, Underway
      <4>2. CASE ~Underway(o)
        BY <3>1, <4>2 DEF Continues, Bearing, Underway
      <4> QED
        BY <4>1, <4>2
    <3>3. life' = life + 1
      BY <2>2 DEF RestartController
    <3> QED
      BY <3>2, <3>3, ContinuesNumbered DEF InOrder
  <2> QED
    BY <2>1, <2>2
<1> QED
  BY <1>1, <1>2, FollowsSelf, QuietBehind DEF InOrder, SentSame, Phases

LEMMA BackendInOrder ==
    ASSUME InOrder, Typed', AnyBackend
    PROVE  Numbered' /\ HaltBehind'
<1>1. UNCHANGED <<op, life, nextId>>
  BY DEF AnyBackend, Backend!BackendNext, nodeVars
<1>2. commandTopic \in Seq(Command)
  BY DEF InOrder, Typed, TypeOK
<1>3. Numbered'
  BY <1>1 DEF InOrder, Numbered, Underway, Bearing
<1>4. ASSUME executed' = executed, Follows(commandTopic', commandTopic) PROVE HaltBehind'
  <2>1. SentSame
    BY <1>1 DEF SentSame, Sent
  <2> QED
    BY <1>4, <2>1, QuietBehind DEF InOrder, SentSame, Phases
<1>5. Backend!Execute \/ Backend!ExecuteUnacknowledged => Backend!TakesEffect
  BY DEF Backend!Execute, Backend!ExecuteUnacknowledged
<1>6. CASE Backend!TakesEffect /\ (Backend!Execute \/ Backend!ExecuteUnacknowledged)
  <2>1. Tail(commandTopic) \in Seq(Command)
    BY <1>2, <1>6 DEF Backend!TakesEffect
  <2>2. Follows(commandTopic', Tail(commandTopic))
    BY <1>6, <2>1, FollowsSelf, RemaindersFollow
       DEF Backend!Execute, Backend!ExecuteUnacknowledged, Backend!SomeLost
  <2> QED
    BY <1>1, <1>3, <1>6, <2>2, ExecuteBehind DEF InOrder
<1>7. CASE Backend!GoOffline \/ Backend!Lose \/ Backend!ReportOffline
  <2>1. Follows(commandTopic', commandTopic)
    BY <1>2, <1>7, RemaindersFollow
       DEF Backend!GoOffline, Backend!Lose, Backend!ReportOffline, Backend!SomeLost
  <2>2. executed' = executed
    BY <1>7 DEF Backend!GoOffline, Backend!Lose, Backend!ReportOffline
  <2> QED
    BY <1>3, <1>4, <2>1, <2>2
<1>8. CASE Backend!Reboot
  <2>1. Follows(<<>>, commandTopic)
    <3>1. DOMAIN <<>> = {}
      OBVIOUS
    <3>2. [i \in {} |-> i] \in [{} -> DOMAIN commandTopic]
      OBVIOUS
    <3> QED
      BY <3>1, <3>2 DEF Follows
  <2> QED
    BY <1>3, <1>4, <1>8, <2>1 DEF Backend!Reboot
<1>9. CASE \/ Backend!GripperPowerCycles \/ Backend!GoOnline
           \/ Backend!Report \/ Backend!GripperMoves
  <2>1. commandTopic' = commandTopic /\ executed' = executed
    BY <1>9 DEF Backend!GripperPowerCycles, Backend!GoOnline, Backend!Report, Backend!GripperMoves
  <2> QED
    BY <1>2, <1>3, <1>4, <2>1, FollowsSelf
<1> QED
  BY <1>5, <1>6, <1>7, <1>8, <1>9 DEF AnyBackend, Backend!BackendNext

LEMMA NextInOrder == Once /\ InOrder /\ [OpenNext]_openVars => InOrder'
<1> SUFFICES ASSUME Once, InOrder, [OpenNext]_openVars PROVE InOrder'
  OBVIOUS
<1>1. Typed' /\ AllTaken'
  BY NextOnce DEF Once
<1>2. CASE ControllerLossy
  BY <1>1, <1>2, RequestInOrder, ProcessInOrder DEF ControllerLossy, InOrder
<1>3. CASE AnyBackend
  BY <1>1, <1>3, BackendInOrder DEF InOrder
<1>4. CASE UNCHANGED openVars
  BY <1>1, <1>4 DEF openVars, controllerVars, nodeVars, backendOnly, InOrder, Numbered, HaltBehind,
     Sent, Bearing, Underway
<1> QED
  BY <1>2, <1>3, <1>4 DEF OpenNext

LEMMA InitInOrder == Init => InOrder
<1> SUFFICES ASSUME Init PROVE InOrder
  OBVIOUS
<1>1. /\ commandTopic = <<>> /\ executed = <<>>
      /\ \A o \in Ops : /\ op[o].pc = "idle" /\ op[o].phase = "none"
                        /\ \A phase \in Phases : op[o].sent[phase] = 0
  BY DEF Init, ControllerInit, Backend!BackendInit, IdleOp
<1>2. Numbered
  BY <1>1 DEF Numbered, Underway, Bearing
<1>3. HaltBehind
  BY <1>1 DEF HaltBehind
<1> QED
  BY <1>2, <1>3, InitOnce DEF InOrder, Once

LEMMA OrderHalts == InOrder => HaltIsLast
<1>1. \A o \in Ops : \A phase : At(o, phase) =
         {i \in DOMAIN executed : Sent(o, phase, executed[i].command)}
  BY DEF At, Sent
<1> QED
  BY <1>1 DEF InOrder, HaltBehind, HaltIsLast

\* The gripper does not execute a motion after the stop that its request sent when
\* it gave the motion up, whatever other requests send, is lost or restarts.
THEOREM HaltExecutedLast == Spec => []HaltIsLast
<1>1. Once /\ InOrder /\ [Next]_vars => Once' /\ InOrder'
  BY NextIsOpen, NextOnce, NextInOrder DEF Once
<1> QED
  BY <1>1, InitOnce, InitInOrder, OrderHalts, PTL DEF Spec

-----------------------------------------------------------------------------
(* A request that succeeds had its own command executed.                   *)

\* Between its check and the end of its wait, a request works on one command.
Working == {"copy", "assign", "remember", "publish", "wait"}

\* What a request works on fits its kind, and is the command it last numbered.
Fits(o) ==
    /\ op[o].pc = "idle" => op[o].result # "ok" /\ op[o].phase = "none"
    /\ op[o].pc # "idle" => op[o].life \in 1..life
    /\ op[o].pc \in Working =>
          /\ \/ op[o].phase = FirstPhase(op[o].kind)
             \/ op[o].kind = "activate" /\ op[o].phase = "activate"
             \/ op[o].kind \in ActionKinds /\ op[o].phase = "halt" /\ op[o].pc # "wait"
          /\ current # NoStatus
    /\ op[o].pc \in {"copy", "assign"} /\ op[o].phase # "halt" => op[o].sent[op[o].phase] = 0
    /\ op[o].phase = "reset" => op[o].sent["activate"] = 0
    /\ op[o].pc \in {"remember", "publish", "wait"} =>
          op[o].sent[op[o].phase] # 0 /\ op[o].command.id = op[o].sent[op[o].phase]

AllFit == life # 0 /\ \A o \in Ops : Fits(o)

LEMMA InitFits == Init => AllFit
<1> SUFFICES ASSUME Init PROVE AllFit
  OBVIOUS
<1>1. life = 1 /\ \A o \in Ops : op[o].pc = "idle" /\ op[o].phase = "none" /\ op[o].result = "none"
  BY DEF Init, ControllerInit, IdleOp
<1> QED
  BY <1>1 DEF AllFit, Fits, Working

\* The requests that do not move still fit.
LEMMA OthersFit ==
    ASSUME AllFit, NEW o \in Ops, \A p \in Ops \ {o} : op'[p] = op[p], Fits(o)',
           UNCHANGED <<life, current>>
    PROVE  AllFit'
<1>1. ASSUME NEW p \in Ops, p # o PROVE Fits(p)'
  BY <1>1 DEF AllFit, Fits
<1> QED
  BY <1>1 DEF AllFit

LEMMA RequestFits ==
    ASSUME Typed, AllFit, Numbered, NEW o \in Ops, Call(o) \/ Cancel(o) \/ AdvancesLossy(o) \/ Ends(o)
    PROVE  AllFit'
<1>1. op \in [Ops -> Op] /\ op[o] \in Op /\ op[o].sent \in [Phases -> Nat] /\ op[o].phase \in Phases
      /\ op[o].command \in Command /\ life \in Nat \ {0} /\ nextId \in Nat \ {0} /\ Fits(o)
  BY OpFields DEF Typed, TypeOK, AllFit
<1>2. \A p \in Ops \ {o} : op'[p] = op[p]
  BY <1>1 DEF Call, Cancel, AdvancesLossy, Ends, Begin, CheckFails, Check, CopyLast, AssignId,
     Remember, Goto, PublishLossy, WaitFails, WaitSucceeds, WaitTimesOut, Abandon, Finish, Release
<1>3. UNCHANGED <<life, current>>
  BY DEF Call, Cancel, AdvancesLossy, Ends, Begin, CheckFails, Check, CopyLast, AssignId,
     Remember, PublishLossy, WaitFails, WaitSucceeds, WaitTimesOut, Finish, Release, nodeVars
<1>4. ASSUME op'[o].life = op[o].life, op[o].pc # "idle",
             op'[o].pc \notin Working \union {"idle"},
             op'[o].phase = "reset" => op[o].phase = "reset" /\ op'[o].sent = op[o].sent
      PROVE  Fits(o)'
  BY <1>1, <1>3, <1>4 DEF Fits, Working
<1> SUFFICES Fits(o)'
  BY <1>2, <1>3, OthersFit
<1>5. CASE Call(o)
  <2>1. PICK kind \in KindsOf[o], goal \in Goals :
        op' = [op EXCEPT ![o].kind = kind, ![o].life = life,
                         ![o].goal = IF kind \in ActionKinds THEN goal ELSE @,
                         ![o].pc = IF kind = "stop" THEN "check" ELSE "begin"]
    BY <1>5 DEF Call
  <2>2. /\ op'[o].pc \in {"check", "begin"} /\ op'[o].life = life /\ op'[o].phase = op[o].phase
        /\ op'[o].sent = op[o].sent
    BY <1>1, <2>1 DEF Op
  <2> QED
    BY <1>1, <1>3, <2>2 DEF Fits, Working
<1>6. CASE Cancel(o)
  <2>1. op'[o] = [op[o] EXCEPT !.cancelling = TRUE]
    BY <1>1, <1>6 DEF Cancel
  <2>2. /\ op'[o].pc = op[o].pc /\ op'[o].phase = op[o].phase /\ op'[o].sent = op[o].sent
        /\ op'[o].kind = op[o].kind /\ op'[o].life = op[o].life /\ op'[o].result = op[o].result
        /\ op'[o].command = op[o].command
    BY <1>1, <2>1 DEF Op
  <2> QED
    BY <1>1, <1>3, <2>2 DEF Fits, Working
<1>7. CASE Begin(o)
  <2>1. op'[o] = IF busy THEN Ended(op[o], "done", "busy") ELSE [op[o] EXCEPT !.pc = "check"]
    BY <1>1, <1>7 DEF Begin
  <2>2. op[o].pc = "begin"
    BY <1>7 DEF Begin
  <2>3. CASE busy
    BY <1>4, <2>1, <2>2, <2>3, EndedFields DEF Working
  <2>4. CASE ~busy
    BY <1>1, <1>4, <2>1, <2>2, <2>4 DEF Working, Op
  <2> QED
    BY <2>3, <2>4
<1>8. CASE CheckFails(o)
  <2>1. op[o].pc = "check"
    BY <1>8 DEF CheckFails
  <2>2. CASE op[o].kind = "stop"
    <3>1. op'[o] = Ended(op[o], "done", "failed")
      BY <1>1, <1>8, <2>2 DEF CheckFails
    <3> QED
      BY <1>4, <2>1, <3>1, EndedFields DEF Working
  <2>3. CASE op[o].kind # "stop"
    <3>1. /\ op'[o].pc = "release" /\ op'[o].phase = op[o].phase
          /\ op'[o].sent = op[o].sent /\ op'[o].life = op[o].life
      BY <1>1, <1>8, <2>3 DEF CheckFails, Op
    <3> QED
      BY <1>4, <2>1, <3>1 DEF Working
  <2> QED
    BY <2>2, <2>3
<1>9. CASE Check(o)
  <2>1. /\ op[o].pc = "check" /\ op'[o].pc \in {"copy", "assign"} /\ op'[o].kind = op[o].kind
        /\ op'[o].sent = op[o].sent /\ op'[o].life = op[o].life
        /\ op'[o].phase = FirstPhase(op[o].kind)
    BY <1>1, <1>9 DEF Check, Op
  <2>2. current # NoStatus
    BY <1>9 DEF Check, MayProceed, StatusUsable
  <2>3. \A ph \in Phases : op'[o].sent[ph] = 0
    BY <2>1 DEF Numbered
  <2>4. FirstPhase(op[o].kind) \in Phases /\ "activate" \in Phases
    BY DEF FirstPhase, Phases
  <2> QED
    BY <1>1, <1>3, <2>1, <2>2, <2>3, <2>4 DEF Fits, Working
<1>10. CASE CopyLast(o)
  <2>1. /\ op[o].pc = "copy" /\ op'[o].pc = "assign" /\ op'[o].kind = op[o].kind
        /\ op'[o].sent = op[o].sent /\ op'[o].life = op[o].life /\ op'[o].phase = op[o].phase
    BY <1>1, <1>10 DEF CopyLast, Op
  <2> QED
    BY <1>1, <1>3, <2>1 DEF Fits, Working
<1>11. CASE AssignId(o)
  <2>1. /\ op[o].pc = "assign" /\ op'[o].pc = "remember" /\ op'[o].kind = op[o].kind
        /\ op'[o].sent = [op[o].sent EXCEPT ![op[o].phase] = nextId]
        /\ op'[o].life = op[o].life /\ op'[o].phase = op[o].phase
        /\ op'[o].command.id = nextId
    BY <1>1, <1>11 DEF AssignId, Op, Command
  <2>2. op'[o].sent[op[o].phase] = nextId
    BY <1>1, <2>1
  <2>3. op[o].phase = "reset" => op'[o].sent["activate"] = op[o].sent["activate"]
    BY <1>1, <2>1
  <2> QED
    BY <1>1, <1>3, <2>1, <2>2, <2>3 DEF Fits, Working
<1>12. CASE Remember(o)
  <2>1. op'[o] = [op[o] EXCEPT !.pc = "publish"] /\ op[o].pc = "remember"
    BY <1>1, <1>12 DEF Remember, Goto
  <2>2. /\ op'[o].pc = "publish" /\ op'[o].phase = op[o].phase /\ op'[o].sent = op[o].sent
        /\ op'[o].kind = op[o].kind /\ op'[o].life = op[o].life /\ op'[o].command = op[o].command
    BY <1>1, <2>1 DEF Op
  <2> QED
    BY <1>1, <1>3, <2>1, <2>2 DEF Fits, Working
<1>13. CASE PublishLossy(o)
  <2>1. op[o].pc = "publish"
    BY <1>13 DEF PublishLossy
  <2>2. CASE op[o].phase = "stop"
    <3>1. op'[o] = Ended(op[o], "done", "ok")
      BY <1>1, <1>13, <2>2 DEF PublishLossy
    <3> QED
      BY <1>4, <2>1, <3>1, EndedFields DEF Working
  <2>3. CASE op[o].phase # "stop"
    <3>1. op' = [op EXCEPT ![o] = [op[o] EXCEPT !.pc =
                    IF op[o].phase = "halt" THEN "finish" ELSE "wait"]]
      BY <1>13, <2>3 DEF PublishLossy
    <3>2. op'[o] = [op[o] EXCEPT !.pc = IF op[o].phase = "halt" THEN "finish" ELSE "wait"]
      BY <1>1, <3>1
    <3>3. /\ op'[o].pc = IF op[o].phase = "halt" THEN "finish" ELSE "wait"
          /\ op'[o].phase = op[o].phase /\ op'[o].sent = op[o].sent
          /\ op'[o].kind = op[o].kind /\ op'[o].life = op[o].life /\ op'[o].command = op[o].command
      BY <1>1, <3>2 DEF Op
    <3> QED
      BY <1>1, <1>3, <2>1, <3>3 DEF Fits, Working
  <2> QED
    BY <2>2, <2>3
<1>14. CASE WaitFails(o) \/ WaitTimesOut(o)
  <2>1. op[o].pc = "wait"
    BY <1>14 DEF WaitFails, WaitTimesOut
  <2>2. /\ op'[o].sent = op[o].sent /\ op'[o].life = op[o].life /\ op'[o].kind = op[o].kind
        /\ \/ op[o].kind \in ActionKinds /\ op'[o].phase = "halt" /\ op'[o].pc = "assign"
           \/ op'[o].phase = op[o].phase /\ op'[o].pc \in {"finish", "release"}
    <3>1. CASE WaitFails(o)
      BY <1>1, <3>1 DEF WaitFails, Abandon, Op
    <3>2. CASE WaitTimesOut(o)
      BY <1>1, <3>2 DEF WaitTimesOut, Abandon, Op
    <3> QED
      BY <1>14, <3>1, <3>2
  <2> QED
    BY <1>1, <1>3, <2>1, <2>2 DEF Fits, Working
<1>15. CASE WaitSucceeds(o)
  <2>1. op[o].pc = "wait"
    BY <1>15 DEF WaitSucceeds
  <2>2. CASE op[o].phase = "reset"
    <3>1. /\ op'[o].sent = op[o].sent /\ op'[o].life = op[o].life /\ op'[o].kind = op[o].kind
          /\ op'[o].phase = "activate" /\ op'[o].pc = "assign"
      BY <1>1, <1>15, <2>2 DEF WaitSucceeds, Op
    <3>2. op[o].kind = "activate"
      BY <1>1, <2>1, <2>2 DEF Fits, Working, FirstPhase
    <3> QED
      BY <1>1, <1>3, <2>1, <2>2, <3>1, <3>2 DEF Fits, Working
  <2>3. CASE op[o].phase # "reset"
    <3>1. /\ op'[o].sent = op[o].sent /\ op'[o].life = op[o].life
          /\ op'[o].phase = op[o].phase /\ op'[o].pc = "release"
      BY <1>1, <1>15, <2>3 DEF WaitSucceeds, Op
    <3> QED
      BY <1>4, <2>1, <3>1 DEF Working
  <2> QED
    BY <2>2, <2>3
<1>16. CASE Finish(o)
  <2>1. /\ op[o].pc = "finish" /\ op'[o].sent = op[o].sent /\ op'[o].life = op[o].life
        /\ op'[o].phase = op[o].phase /\ op'[o].pc = "release"
    BY <1>1, <1>16 DEF Finish, Op
  <2> QED
    BY <1>4, <2>1 DEF Working
<1>17. CASE Release(o)
  <2>1. op'[o] = Ended(op[o], "done", op[o].result) /\ op[o].pc = "release"
    BY <1>1, <1>17 DEF Release
  <2> QED
    BY <1>4, <2>1, EndedFields DEF Working
<1> QED
  BY <1>5, <1>6, <1>7, <1>8, <1>9, <1>10, <1>11, <1>12, <1>13, <1>14, <1>15, <1>16, <1>17
     DEF AdvancesLossy, Ends

LEMMA NextFits == Typed /\ AllFit /\ Numbered /\ [OpenNext]_openVars => AllFit'
<1> SUFFICES ASSUME Typed, AllFit, Numbered, [OpenNext]_openVars PROVE AllFit'
  OBVIOUS
<1>1. CASE \E o \in Ops : Call(o) \/ Cancel(o) \/ AdvancesLossy(o) \/ Ends(o)
  BY <1>1, RequestFits
<1>2. CASE ReceiveStatus
  <2>1. current' \in Status /\ UNCHANGED <<op, life>>
    BY <1>2 DEF ReceiveStatus, Typed, TypeOK
  <2>2. current' # NoStatus
    BY <2>1, ControllerAssumption
  <2> QED
    BY <2>1, <2>2 DEF AllFit, Fits
<1>3. CASE RestartController
  <2>1. \A o \in Ops : op'[o] = IF Underway(o) THEN Ended(op[o], "dead", "none") ELSE op[o]
    BY <1>3 DEF RestartController
  <2>2. life' = life + 1 /\ life \in Nat \ {0}
    BY <1>3 DEF RestartController, Typed, TypeOK, AllFit
  <2>3. ASSUME NEW o \in Ops PROVE Fits(o)'
    <3>1. CASE Underway(o)
      <4>1. op'[o].pc = "dead" /\ op'[o].phase = "none" /\ op'[o].life = op[o].life
        BY <2>1, <3>1, EndedFields
      <4>2. op[o].life \in 1..life
        BY <3>1 DEF AllFit, Fits, Underway
      <4> QED
        BY <2>2, <4>1, <4>2 DEF Fits, Working
    <3>2. CASE ~Underway(o)
      <4>1. op'[o] = op[o] /\ op[o].pc \in {"idle", "done", "dead"}
        BY <2>1, <3>2 DEF Underway
      <4> QED
        BY <2>2, <4>1 DEF AllFit, Fits, Working
    <3> QED
      BY <3>1, <3>2
  <2> QED
    BY <2>2, <2>3 DEF AllFit
<1>4. CASE UNCHANGED <<op, life, current>>
  BY <1>4 DEF AllFit, Fits
<1>5. SpinEnds \/ Destroy \/ AnyBackend \/ UNCHANGED openVars
         => UNCHANGED <<op, life, current>>
  BY DEF SpinEnds, Destroy, AnyBackend, Backend!BackendNext, openVars, controllerVars, nodeVars
<1> QED
  BY <1>1, <1>2, <1>3, <1>4, <1>5 DEF OpenNext, ControllerLossy

-----------------------------------------------------------------------------
(* The way of the commands: executed, then on their way.                   *)

\* The commands the gripper executed, then those on their way to it.
Way == [i \in 1..(Len(executed) + Len(commandTopic)) |->
           IF i <= Len(executed) THEN executed[i].command ELSE commandTopic[i - Len(executed)]]

\* c is of request o itself, or of a stop request.
Own(o, c) == Sent(o, "reset", c) \/ Sent(o, "activate", c) \/ \E s \in Ops : Sent(s, "stop", c)

\* An activation under way is alone from its reset on, but for stop requests; and
\* its reset goes before its activation.
Windows ==
    /\ \A i \in DOMAIN Way : Way[i].life # 0
    /\ \A o \in Ops : \A i, j \in DOMAIN Way :
          Sent(o, "reset", Way[i]) /\ Sent(o, "activate", Way[j]) => i < j
    /\ \A o \in Ops : op[o].kind = "activate" /\ op[o].pc \in Working =>
          \A i, k \in DOMAIN Way : Sent(o, "reset", Way[i]) /\ i < k => Own(o, Way[k])

\* An identifier the backend may report: that of an executed command, or none.
Ran(id) == id = 0 \/ \E i \in DOMAIN executed : executed[i].command.id = id

Truthful ==
    /\ Ran(lastId)
    /\ \A i \in DOMAIN statusTopic : Ran(statusTopic[i].last_command_id)
    /\ current # NoStatus => Ran(current.last_command_id)

\* What SuccessIsExecuted asks of request o.
Succeeded(o) ==
    /\ At(o, MainPhase(op[o].kind)) # {}
    /\ op[o].kind = "activate" =>
          \E i \in At(o, "reset"), j \in At(o, "activate") :
             /\ i < j
             /\ \A k \in (i + 1)..(j - 1) : \E s \in Ops : k \in At(s, "stop")

\* The requests of the first controller process that succeeded, and the activations
\* of it that saw their reset succeed.
Succeeds ==
    \A o \in Ops : op[o].life = 1 =>
        /\ op[o].result = "ok" /\ op[o].kind # "stop" => Succeeded(o)
        /\ op[o].phase = "activate" => At(o, "reset") # {}

\* What a step does to the way of the commands: some get lost, and those in New join
\* at its end.
Onward(New) ==
    \E last \in Nat : \E at \in [1..last -> DOMAIN Way] :
        /\ \A i, j \in 1..last : at[i] < at[j] <=> i < j
        /\ \A i \in DOMAIN Way' : \/ i \in 1..last /\ Way'[i] = Way[at[i]]
                                  \/ i = last + 1 /\ Way'[i] \in New
        /\ \A i \in DOMAIN executed : i \in DOMAIN executed' /\ executed'[i] = executed[i]

LEMMA WayFields ==
    ASSUME Typed
    PROVE  /\ Len(executed) \in Nat /\ DOMAIN executed = 1..Len(executed)
           /\ Len(commandTopic) \in Nat /\ DOMAIN commandTopic = 1..Len(commandTopic)
           /\ DOMAIN Way = 1..(Len(executed) + Len(commandTopic))
           /\ \A i \in DOMAIN executed : i \in DOMAIN Way /\ Way[i] = executed[i].command
           /\ \A i \in DOMAIN Way : i > Len(executed) =>
                 /\ i - Len(executed) \in DOMAIN commandTopic
                 /\ Way[i] = commandTopic[i - Len(executed)]
<1>1. executed \in Seq(Backend!Execution) /\ commandTopic \in Seq(Command)
  BY DEF Typed, TypeOK
<1>2. /\ Len(executed) \in Nat /\ DOMAIN executed = 1..Len(executed)
      /\ Len(commandTopic) \in Nat /\ DOMAIN commandTopic = 1..Len(commandTopic)
  BY <1>1
<1>3. DOMAIN Way = 1..(Len(executed) + Len(commandTopic))
  BY DEF Way
<1>4. \A i \in DOMAIN executed : i \in DOMAIN Way /\ Way[i] = executed[i].command
  BY <1>2 DEF Way
<1>5. \A i \in DOMAIN Way : i > Len(executed) =>
                 /\ i - Len(executed) \in DOMAIN commandTopic
                 /\ Way[i] = commandTopic[i - Len(executed)]
  BY <1>2 DEF Way
<1> QED
  BY <1>2, <1>3, <1>4, <1>5

\* On their way are commands that were numbered.
LEMMA WayTaken ==
    ASSUME Typed, AllTaken, NEW i \in DOMAIN Way
    PROVE  Way[i] \in Command /\ Taken(Way[i])
<1>1. CASE i \in DOMAIN executed
  BY <1>1, WayFields, CommandsTyped DEF AllTaken, Taken
<1>2. CASE i \notin DOMAIN executed
  <2>1. i > Len(executed)
    BY <1>2, WayFields
  <2> QED
    BY <2>1, WayFields, CommandsTyped DEF AllTaken, Taken
<1> QED
  BY <1>1, <1>2

\* What is left of way w when of the commands behind its n-th those of r are left.
Thinned(w, n, r) ==
    \E at \in [1..(n + Len(r)) -> DOMAIN w] :
       /\ \A i, j \in 1..(n + Len(r)) : at[i] < at[j] <=> i < j
       /\ \A i \in 1..n : at[i] = i
       /\ \A i \in 1..(n + Len(r)) : i > n => r[i - n] = w[at[i]]

\* The places at of 1..m are in order.
Rising(at, m) == \A i, j \in 1..m : at[i] < at[j] <=> i < j

\* The first n places stay, those behind them move as at says.
Shifts(to, n, m, at) ==
    \A i \in 1..(n + m) : (i <= n => to[i] = i) /\ (i > n => to[i] = n + at[i - n])

LEMMA Shifted ==
    ASSUME NEW n \in Nat, NEW m \in Nat, NEW l \in Nat, NEW at \in [1..m -> 1..l], NEW to,
           Rising(at, m), Shifts(to, n, m, at)
    PROVE  Rising(to, n + m)
<1> SUFFICES ASSUME NEW i \in 1..(n + m), NEW j \in 1..(n + m)
             PROVE  to[i] < to[j] <=> i < j
  BY DEF Rising
<1>1. ASSUME NEW k \in 1..(n + m), k > n
      PROVE  k - n \in 1..m /\ at[k - n] \in 1..l /\ to[k] = n + at[k - n] /\ to[k] > n
  <2>1. k - n \in 1..m
    BY <1>1
  <2>2. PICK p \in 1..l : p = at[k - n]
    BY <2>1
  <2>3. to[k] = n + p
    BY <1>1, <2>2 DEF Shifts
  <2>4. n + p > n
    BY <2>2
  <2> QED
    BY <2>1, <2>2, <2>3, <2>4
<1>2. CASE i <= n /\ j <= n
  BY <1>2 DEF Shifts
<1>3. CASE i <= n /\ j > n
  <2>1. to[i] = i /\ to[j] > n
    BY <1>1, <1>3 DEF Shifts
  <2>2. to[j] \in Nat
    BY <1>1, <1>3
  <2> QED
    BY <1>3, <2>1, <2>2
<1>4. CASE i > n /\ j <= n
  <2>1. to[j] = j /\ to[i] > n
    BY <1>1, <1>4 DEF Shifts
  <2>2. to[i] \in Nat
    BY <1>1, <1>4
  <2> QED
    BY <1>4, <2>1, <2>2
<1>5. CASE i > n /\ j > n
  <2>1. PICK p \in Nat, q \in Nat : p = at[i - n] /\ q = at[j - n]
    BY <1>1, <1>5
  <2>2. i - n \in 1..m /\ j - n \in 1..m
    BY <1>1, <1>5
  <2>3. p < q <=> i - n < j - n
    BY <2>1, <2>2 DEF Rising
  <2>4. to[i] = n + p /\ to[j] = n + q
    BY <1>1, <1>5, <2>1
  <2>5. n + p < n + q <=> i < j
    BY <2>3
  <2> QED
    BY <2>4, <2>5
<1> QED
  BY <1>2, <1>3, <1>4, <1>5

LEMMA WayThinned ==
    ASSUME NEW w, NEW n \in Nat, NEW s \in Seq(Command), NEW kept \in Seq(Command),
           DOMAIN w = 1..(n + Len(s)), \A i \in 1..Len(s) : w[n + i] = s[i],
           Follows(kept, s)
    PROVE  Thinned(w, n, kept)
<1>1. PICK at \in [DOMAIN kept -> DOMAIN s] :
        /\ \A i, j \in DOMAIN kept : at[i] < at[j] <=> i < j
        /\ \A i \in DOMAIN kept : kept[i] = s[at[i]]
  BY DEF Follows
<1>2. PICK m \in Nat, l \in Nat : m = Len(kept) /\ l = Len(s)
  OBVIOUS
<1>3. DOMAIN kept = 1..m /\ DOMAIN s = 1..l
  BY <1>2
<1>4. ASSUME NEW i \in 1..(n + m), i > n
      PROVE  i - n \in 1..m /\ at[i - n] \in 1..l
  <2>1. i - n \in 1..m
    BY <1>4
  <2> QED
    BY <1>3, <2>1
<1> DEFINE to == [i \in 1..(n + m) |-> IF i <= n THEN i ELSE n + at[i - n]]
<1>5. \A i \in 1..(n + m) : (i <= n => to[i] = i) /\ (i > n => to[i] = n + at[i - n])
  OBVIOUS
<1>6. to \in [1..(n + m) -> DOMAIN w]
  <2>1. \A i \in 1..(n + m) : (IF i <= n THEN i ELSE n + at[i - n]) \in DOMAIN w
    BY <1>2, <1>4
  <2> QED
    BY <2>1
<1> HIDE DEF to
<1>7. \A i, j \in 1..(n + m) : to[i] < to[j] <=> i < j
  <2>1. at \in [1..m -> 1..l] /\ Rising(at, m)
    BY <1>1, <1>3 DEF Rising
  <2>2. Shifts(to, n, m, at)
    BY <1>5 DEF Shifts
  <2>3. Rising(to, n + m)
    BY <2>1, <2>2, Shifted
  <2> QED
    BY <2>3 DEF Rising
<1>8. ASSUME NEW i \in 1..(n + m), i > n PROVE kept[i - n] = w[to[i]]
  <2>1. to[i] = n + at[i - n] /\ i - n \in 1..m /\ at[i - n] \in 1..l
    BY <1>4, <1>5, <1>8
  <2>2. w[n + at[i - n]] = s[at[i - n]]
    BY <1>2, <2>1
  <2>3. kept[i - n] = s[at[i - n]]
    BY <1>1, <1>3, <2>1
  <2> QED
    BY <2>1, <2>2, <2>3
<1>9. \A i \in 1..n : to[i] = i
  BY <1>5
<1> QED
  BY <1>2, <1>6, <1>7, <1>8, <1>9 DEF Thinned

\* Commands are lost, and one may join.
LEMMA TopicWay ==
    ASSUME Typed, Typed', executed' = executed, NEW kept \in Seq(Command),
           Follows(kept, commandTopic), NEW New,
           \/ commandTopic' = kept
           \/ \E c \in New \intersect Command : commandTopic' = Append(kept, c)
    PROVE  Onward(New)
<1>1. PICK n \in Nat, m \in Nat, l \in Nat, k \in Nat :
         n = Len(executed) /\ m = Len(commandTopic') /\ l = Len(commandTopic) /\ k = Len(kept)
  BY DEF Typed, TypeOK
<1>2. /\ DOMAIN executed = 1..n /\ DOMAIN commandTopic = 1..l /\ DOMAIN commandTopic' = 1..m
      /\ DOMAIN Way = 1..(n + l) /\ DOMAIN Way' = 1..(n + m) /\ DOMAIN kept = 1..k
      /\ commandTopic \in Seq(Command)
  BY <1>1 DEF Typed, TypeOK, Way
<1>3. \A i \in 1..l : Way[n + i] = commandTopic[i]
  <2> TAKE i \in 1..l
  <2>1. n + i \in 1..(n + l) /\ ~(n + i <= n) /\ (n + i) - n = i
    OBVIOUS
  <2> QED
    BY <1>1, <2>1 DEF Way
<1>4. PICK at \in [1..(n + k) -> DOMAIN Way] :
         /\ \A i, j \in 1..(n + k) : at[i] < at[j] <=> i < j
         /\ \A i \in 1..n : at[i] = i
         /\ \A i \in 1..(n + k) : i > n => kept[i - n] = Way[at[i]]
  <2>1. DOMAIN Way = 1..(n + Len(commandTopic))
        /\ \A i \in 1..Len(commandTopic) : Way[n + i] = commandTopic[i]
    BY <1>1, <1>2, <1>3
  <2>2. Thinned(Way, n, kept)
    BY <1>2, <2>1, WayThinned
  <2> QED
    BY <1>1, <2>2 DEF Thinned
<1>5. \A i \in 1..n : Way'[i] = Way[i]
  <2>1. \A i \in 1..n : Way[i] = executed[i].command
    BY <1>1 DEF Way
  <2>2. \A i \in 1..n : Way'[i] = executed'[i].command
    BY <1>1 DEF Way
  <2> QED
    BY <2>1, <2>2
<1>6. \A i \in 1..(n + m) : i > n => Way'[i] = commandTopic'[i - n]
  BY <1>1 DEF Way
<1>7. ASSUME NEW i \in 1..(n + m)
      PROVE  \/ i \in 1..(n + k) /\ Way'[i] = Way[at[i]]
             \/ i = (n + k) + 1 /\ Way'[i] \in New
  <2>1. CASE i <= n
    BY <1>4, <1>5, <2>1
  <2>2. CASE i > n /\ commandTopic' = kept
    BY <1>1, <1>4, <1>6, <2>2
  <2>3. CASE i > n /\ commandTopic' # kept
    <3>1. PICK c \in New \intersect Command : commandTopic' = Append(kept, c)
      BY <2>3
    <3>2. m = k + 1 /\ commandTopic'[k + 1] = c /\ \A j \in 1..k : commandTopic'[j] = kept[j]
      BY <1>1, <3>1
    <3>3. CASE i = n + m
      <4>1. i = (n + k) + 1 /\ i - n = k + 1
        BY <3>2, <3>3
      <4>2. Way'[i] = c
        BY <1>6, <2>3, <3>2, <4>1
      <4> QED
        BY <4>1, <4>2
    <3>4. CASE i # n + m
      <4>1. i \in 1..(n + k) /\ i - n \in 1..k
        BY <2>3, <3>2, <3>4
      <4> QED
        BY <1>4, <1>6, <2>3, <3>2, <4>1
    <3> QED
      BY <3>3, <3>4
  <2> QED
    BY <2>1, <2>2, <2>3
<1>8. n + k \in Nat
  OBVIOUS
<1> QED
  BY <1>2, <1>4, <1>7, <1>8 DEF Onward

\* The execution of a command leaves it where it is on its way.
LEMMA ExecutedWay ==
    ASSUME Typed, Typed', Backend!TakesEffect, Follows(commandTopic', Tail(commandTopic))
    PROVE  Onward({}) /\ executed'[Len(executed) + 1].command = Head(commandTopic)
           /\ Len(executed) + 1 \in DOMAIN executed'
<1>1. /\ commandTopic \in Seq(Command) /\ commandTopic # <<>> /\ executed \in Seq(Backend!Execution)
      /\ commandTopic' \in Seq(Command) /\ Tail(commandTopic) \in Seq(Command)
      /\ executed' = Append(executed, [command |-> Head(commandTopic), session |-> session,
                                       wasActivated |-> gripper.activated])
  BY DEF Typed, TypeOK, Backend!TakesEffect
<1>2. PICK n, m, l \in Nat :
         n = Len(executed) + 1 /\ m = Len(commandTopic') /\ l = Len(Tail(commandTopic))
  <2>1. /\ Len(executed) + 1 \in Nat /\ Len(commandTopic') \in Nat
        /\ Len(Tail(commandTopic)) \in Nat
    BY <1>1
  <2> QED
    BY <2>1, Zenon
<1>3. /\ Len(commandTopic) = l + 1 /\ Len(executed) = n - 1 /\ Len(executed') = n
      /\ \A i \in 1..l : Tail(commandTopic)[i] = commandTopic[i + 1]
      /\ Head(commandTopic) = commandTopic[1]
      /\ DOMAIN executed = 1..(n - 1) /\ DOMAIN executed' = 1..n
      /\ executed'[n].command = commandTopic[1]
      /\ \A i \in 1..(n - 1) : executed'[i] = executed[i]
  BY <1>1, <1>2
<1>4. DOMAIN Way = 1..(n + l) /\ DOMAIN Way' = 1..(n + m)
  <2>1. DOMAIN Way = 1..((n - 1) + (l + 1))
    BY <1>3 DEF Way
  <2>2. DOMAIN Way' = 1..(n + m)
    BY <1>2, <1>3 DEF Way
  <2> QED
    BY <2>1, <2>2
<1>5. \A i \in 1..l : Way[n + i] = Tail(commandTopic)[i]
  <2> TAKE i \in 1..l
  <2>1. n + i \in DOMAIN Way /\ ~(n + i <= n - 1) /\ (n + i) - (n - 1) = i + 1
    BY <1>4
  <2>2. Way[n + i] = commandTopic[(n + i) - (n - 1)]
    BY <1>3, <2>1 DEF Way
  <2> QED
    BY <1>3, <2>1, <2>2
<1>6. PICK at \in [1..(n + m) -> DOMAIN Way] :
         /\ \A i, j \in 1..(n + m) : at[i] < at[j] <=> i < j
         /\ \A i \in 1..n : at[i] = i
         /\ \A i \in 1..(n + m) : i > n => commandTopic'[i - n] = Way[at[i]]
  <2>1. DOMAIN Way = 1..(n + Len(Tail(commandTopic)))
        /\ \A i \in 1..Len(Tail(commandTopic)) : Way[n + i] = Tail(commandTopic)[i]
    BY <1>2, <1>4, <1>5
  <2>2. Thinned(Way, n, commandTopic')
    BY <1>1, <2>1, WayThinned
  <2> QED
    BY <1>2, <2>2 DEF Thinned
<1>7. \A i \in 1..n : Way'[i] = Way[i]
  <2> TAKE i \in 1..n
  <2>1. Way'[i] = executed'[i].command
    BY <1>3, <1>4 DEF Way
  <2>2. CASE i = n
    <3>1. Way[n] = commandTopic[n - (n - 1)] /\ n - (n - 1) = 1
      BY <1>3, <1>4, <2>2 DEF Way
    <3> QED
      BY <1>3, <2>1, <2>2, <3>1
  <2>3. CASE i # n
    <3>1. Way[i] = executed[i].command /\ i \in 1..(n - 1)
      BY <1>3, <1>4, <2>3 DEF Way
    <3> QED
      BY <1>3, <2>1, <3>1
  <2> QED
    BY <2>2, <2>3
<1>8. \A i \in 1..(n + m) : i > n => Way'[i] = commandTopic'[i - n]
  BY <1>2, <1>3, <1>4 DEF Way
<1>9. \A i \in DOMAIN Way' : i \in 1..(n + m) /\ Way'[i] = Way[at[i]]
  BY <1>4, <1>6, <1>7, <1>8
<1>10. \A i \in DOMAIN executed : i \in DOMAIN executed' /\ executed'[i] = executed[i]
  BY <1>3
<1>11. n + m \in Nat
  OBVIOUS
<1>12. Onward({})
  BY <1>6, <1>9, <1>10, <1>11 DEF Onward
<1> QED
  BY <1>2, <1>3, <1>12

\* A step takes no command away from a request but a halt's, and gives it none that
\* was numbered before.
Recalls ==
    /\ \A o \in Ops : \A ph \in Phases \ {"halt"} : \A c \in Command :
          Sent(o, ph, c) => Sent(o, ph, c)'
    /\ \A o \in Ops : \A ph \in Phases : \A c \in Command :
          Taken(c) /\ Sent(o, ph, c)' => Sent(o, ph, c)

LEMMA WindowsKept ==
    ASSUME Typed, AllTaken, Windows, Recalls, NEW New, Onward(New),
           \A c \in New : c \in Command /\ c.life # 0,
           \A c \in New, o \in Ops : Sent(o, "reset", c)' => op'[o].sent["activate"] = 0,
           \A o \in Ops : op'[o].kind = "activate" /\ op'[o].pc \in Working =>
              \/ op'[o].sent["reset"] = 0
              \/ op[o].kind = "activate" /\ op[o].pc \in Working /\ \A c \in New : Own(o, c)'
    PROVE  Windows'
<1>0. PICK last \in Nat :
        \E at \in [1..last -> DOMAIN Way] :
        /\ \A i, j \in 1..last : at[i] < at[j] <=> i < j
        /\ \A i \in DOMAIN Way' : \/ i \in 1..last /\ Way'[i] = Way[at[i]]
                                  \/ i = last + 1 /\ Way'[i] \in New
  BY DEF Onward
<1>1. PICK at \in [1..last -> DOMAIN Way] :
        /\ \A i, j \in 1..last : at[i] < at[j] <=> i < j
        /\ \A i \in DOMAIN Way' : \/ i \in 1..last /\ Way'[i] = Way[at[i]]
                                  \/ i = last + 1 /\ Way'[i] \in New
  BY <1>0
<1>2. \A i \in DOMAIN Way' : i \in 1..last => at[i] \in DOMAIN Way
  BY <1>1
<1>3. \A i \in DOMAIN Way : Way[i] \in Command /\ Taken(Way[i])
  BY WayTaken
<1>4. \A i \in DOMAIN Way' : Way'[i].life # 0
  BY <1>1, <1>2 DEF Windows
<1>5. ASSUME NEW o \in Ops, NEW ph \in Phases, NEW i \in DOMAIN Way', i \in 1..last,
             Sent(o, ph, Way[i])'
      PROVE  Sent(o, ph, Way[at[i]])
  BY <1>1, <1>2, <1>3, <1>5 DEF Recalls, Sent
<1>6. ASSUME NEW o \in Ops, NEW i \in DOMAIN Way', NEW j \in DOMAIN Way',
             Sent(o, "reset", Way[i])', Sent(o, "activate", Way[j])'
      PROVE  i < j
  <2>1. CASE i \in 1..last /\ j \in 1..last
    BY <1>1, <1>2, <1>5, <1>6, <2>1 DEF Windows, Phases
  <2>2. CASE i \in 1..last /\ j = last + 1
    BY <2>2
  <2>3. CASE i = last + 1 /\ i \notin 1..last
    <3>1. Way'[i] \in New
      BY <1>1, <2>3
    <3>2. op'[o].sent["activate"] = 0
      BY <1>6, <3>1 DEF Sent
    <3> QED
      BY <1>6, <3>2 DEF Sent
  <2> QED
    BY <1>1, <2>1, <2>2, <2>3
<1>7. ASSUME NEW o \in Ops, op'[o].kind = "activate", op'[o].pc \in Working,
             NEW i \in DOMAIN Way', NEW k \in DOMAIN Way', Sent(o, "reset", Way[i])', i < k
      PROVE  Own(o, Way[k])'
  <2>1. op'[o].sent["reset"] # 0
    BY <1>7 DEF Sent
  <2>2. op[o].kind = "activate" /\ op[o].pc \in Working /\ \A c \in New : Own(o, c)'
    BY <1>7, <2>1
  <2>3. CASE k \in 1..last
    <3>1. i \in 1..last
      BY <1>1, <1>7, <2>3
    <3>2. Sent(o, "reset", Way[at[i]]) /\ at[i] < at[k]
      BY <1>1, <1>5, <1>7, <2>3, <3>1 DEF Phases
    <3>3. Own(o, Way[at[k]]) /\ Way[at[k]] \in Command
      BY <1>2, <1>3, <2>2, <2>3, <3>1, <3>2 DEF Windows
    <3>4. \A c \in Command : Own(o, c) => Own(o, c)'
      BY DEF Own, Recalls, Phases
    <3>5. k = last + 1 => FALSE
      BY <2>3
    <3>6. Way'[k] = Way[at[k]]
      BY <1>1, <3>5
    <3> QED
      BY <3>3, <3>4, <3>6 DEF Own, Sent
  <2>4. CASE k \notin 1..last
    <3>1. Way'[k] \in New
      BY <1>1, <2>4
    <3> QED
      BY <2>2, <3>1 DEF Own, Sent
  <2> QED
    BY <2>3, <2>4
<1> QED
  BY <1>4, <1>6, <1>7 DEF Windows

-----------------------------------------------------------------------------
(* Only stops overtake.                                                    *)

\* A stop request sent c.
Stopped(c) == \E s \in Ops : Sent(s, "stop", c)

\* Command c may go before d.
Turn(c, d) == c.life = d.life => c.id < d.id \/ Stopped(c) \/ Stopped(d)

\* The commands on the way go in the order of their identifiers, but for stops, and
\* what a request is about to publish comes after all of them.
InTurn ==
    /\ \A i, j \in DOMAIN Way : i < j => Turn(Way[i], Way[j])
    /\ \A o \in Ops : Bearing(o) /\ op[o].phase # "stop" =>
          \A i \in DOMAIN Way : Turn(Way[i], op[o].command)

\* A request that bears a command of its own bore it before, or numbered it now.
Bears ==
    \A o \in Ops : Bearing(o)' /\ op'[o].phase # "stop" =>
        \/ Bearing(o) /\ op'[o].command = op[o].command /\ op[o].phase # "stop"
        \/ op'[o].command.life = life /\ op'[o].command.id = nextId

LEMMA TurnsKept ==
    ASSUME Typed, AllTaken, InTurn, Recalls, Bears, NEW New, Onward(New),
           \A c \in New : \/ Stopped(c)'
                         \/ /\ \A i \in DOMAIN Way : Turn(Way[i], c)
                            /\ \A o \in Ops : Bearing(o)' => op'[o].phase = "stop",
           New \subseteq Command
    PROVE  InTurn'
<1>1. PICK last \in Nat :
        \E at \in [1..last -> DOMAIN Way] :
        /\ \A i, j \in 1..last : at[i] < at[j] <=> i < j
        /\ \A i \in DOMAIN Way' : \/ i \in 1..last /\ Way'[i] = Way[at[i]]
                                  \/ i = last + 1 /\ Way'[i] \in New
  BY DEF Onward
<1>2. PICK at \in [1..last -> DOMAIN Way] :
        /\ \A i, j \in 1..last : at[i] < at[j] <=> i < j
        /\ \A i \in DOMAIN Way' : \/ i \in 1..last /\ Way'[i] = Way[at[i]]
                                  \/ i = last + 1 /\ Way'[i] \in New
  BY <1>1
<1>3. /\ \A i \in 1..last : at[i] \in DOMAIN Way
      /\ \A i \in DOMAIN Way : Way[i] \in Command /\ Taken(Way[i])
      /\ \A o \in Ops : op[o].command \in Command
  BY WayTaken, CommandsTyped
<1>4. ASSUME NEW c \in Command, Stopped(c) PROVE Stopped(c)'
  BY <1>4 DEF Stopped, Recalls, Phases
<1>5. ASSUME NEW c \in Command, NEW d \in Command, Turn(c, d) PROVE Turn(c, d)'
  BY <1>4, <1>5 DEF Turn
<1>6. ASSUME NEW i \in DOMAIN Way', NEW j \in DOMAIN Way', i < j
      PROVE  Turn(Way[i], Way[j])'
  <2>1. i \in 1..last
    BY <1>2, <1>6
  <2>2. Way'[i] = Way[at[i]] /\ at[i] \in DOMAIN Way
    BY <1>2, <1>3, <2>1
  <2>6. PICK b \in Command : b = Way[at[i]]
    BY <1>3, <2>2
  <2>3. CASE j \in 1..last
    <3>1. Way'[j] = Way[at[j]] /\ at[j] \in DOMAIN Way /\ at[i] < at[j]
      BY <1>2, <1>3, <1>6, <2>1, <2>3
    <3>2. PICK c \in Command : c = Way[at[j]]
      BY <1>3, <3>1
    <3>3. Turn(b, c)
      BY <2>2, <2>6, <3>1, <3>2 DEF InTurn
    <3>4. Turn(b, c)'
      BY <1>5, <3>3
    <3> QED
      BY <2>2, <2>6, <3>1, <3>2, <3>4 DEF Turn, Stopped, Sent, KeyOf
  <2>4. CASE j \notin 1..last
    <3>1. PICK c \in New : c = Way'[j]
      BY <1>2, <2>4
    <3>2. CASE Stopped(c)'
      BY <2>2, <3>1, <3>2 DEF Turn, Stopped, Sent, KeyOf
    <3>3. CASE ~Stopped(c)'
      <4>1. Turn(b, c) /\ c \in Command
        BY <2>2, <2>6, <3>3
      <4>2. Turn(b, c)'
        BY <1>5, <4>1
      <4> QED
        BY <2>2, <2>6, <3>1, <4>2 DEF Turn, Stopped, Sent, KeyOf
    <3> QED
      BY <3>2, <3>3
  <2> QED
    BY <2>3, <2>4
<1>7. ASSUME NEW o \in Ops, Bearing(o)', op'[o].phase # "stop", NEW i \in DOMAIN Way'
      PROVE  Turn(Way[i], op[o].command)'
  <2>1. CASE i \in 1..last
    <3>1. Way'[i] = Way[at[i]] /\ at[i] \in DOMAIN Way /\ Way[at[i]] \in Command
      BY <1>2, <1>3, <2>1
    <3>2. CASE Bearing(o) /\ op'[o].command = op[o].command /\ op[o].phase # "stop"
      <4>1. Turn(Way[at[i]], op[o].command)
        BY <3>1, <3>2 DEF InTurn
      <4>2. PICK c \in Command : c = op[o].command
        BY <1>3
      <4>3. PICK b \in Command : b = Way[at[i]]
        BY <3>1
      <4>4. Turn(b, c)
        BY <4>1, <4>2, <4>3
      <4>5. Turn(b, c)'
        BY <1>5, <4>4
      <4> QED
        BY <3>1, <3>2, <4>2, <4>3, <4>5 DEF Turn, Stopped, Sent, KeyOf
    <3>3. CASE op'[o].command.life = life /\ op'[o].command.id = nextId
      <4>1. Taken(Way[at[i]]) /\ life \in Nat
        BY <1>3, <3>1 DEF Typed, TypeOK
      <4>2. Way[at[i]].life = life => Way[at[i]].id < nextId
        BY <3>1, <4>1 DEF Taken, Command
      <4> QED
        BY <3>1, <3>3, <4>2 DEF Turn
    <3> QED
      BY <1>7, <3>2, <3>3 DEF Bears
  <2>2. CASE i \notin 1..last
    <3>1. PICK c \in New : c = Way'[i]
      BY <1>2, <2>2
    <3>2. Stopped(c)'
      BY <1>7, <3>1
    <3> QED
      BY <3>1, <3>2 DEF Turn, Stopped, Sent
  <2> QED
    BY <2>1, <2>2
<1> QED
  BY <1>6, <1>7 DEF InTurn

\* How a request may go on.
Goes(o) ==
    /\ op'[o].pc \in Working => op[o].pc \in Working \union {"check"}
    /\ op[o].pc # "idle" => op'[o].kind = op[o].kind /\ op'[o].life = op[o].life
    /\ op[o].pc = "check" => op'[o].sent = op[o].sent
    /\ op'[o].result = "ok" =>
          \/ op[o].result = "ok" \/ op'[o].kind = "stop"
          \/ WaitSucceeds(o) /\ op[o].phase # "reset"
    /\ op'[o].phase = "activate" =>
          op[o].phase = "activate" \/ (WaitSucceeds(o) /\ op[o].phase = "reset")

LEMMA RequestGoes ==
    ASSUME Typed, AllShaped, NEW o \in Ops, Call(o) \/ Cancel(o) \/ AdvancesLossy(o) \/ Ends(o)
    PROVE  \A p \in Ops : Goes(p)
<1>1. op \in [Ops -> Op] /\ op[o] \in Op /\ Shaped(o)
  BY DEF Typed, TypeOK, AllShaped
<1>2. \A p \in Ops \ {o} : op'[p] = op[p]
  BY <1>1 DEF Call, Cancel, AdvancesLossy, Ends, Begin, CheckFails, Check, CopyLast, AssignId,
     Remember, Goto, PublishLossy, WaitFails, WaitSucceeds, WaitTimesOut, Abandon, Finish, Release
<1>3. \A p \in Ops \ {o} : Goes(p)
  BY <1>2 DEF Goes
<1> SUFFICES Goes(o)
  BY <1>3
<1>4. CASE Call(o)
  <2>1. PICK kind \in KindsOf[o], goal \in Goals :
        op' = [op EXCEPT ![o].kind = kind, ![o].life = life,
                         ![o].goal = IF kind \in ActionKinds THEN goal ELSE @,
                         ![o].pc = IF kind = "stop" THEN "check" ELSE "begin"]
    BY <1>4 DEF Call
  <2>2. /\ op'[o].pc \in {"check", "begin"} /\ op'[o].phase = op[o].phase
        /\ op'[o].result = op[o].result /\ op[o].pc = "idle"
    BY <1>1, <1>4, <2>1 DEF Op, Call
  <2> QED
    BY <2>2 DEF Goes, Working
<1>5. CASE Cancel(o) \/ CopyLast(o) \/ AssignId(o) \/ Remember(o)
  <2>1. /\ op'[o].kind = op[o].kind /\ op'[o].life = op[o].life
        /\ op'[o].result = op[o].result /\ op'[o].phase = op[o].phase
        /\ op'[o].pc # op[o].pc => op[o].pc \in Working
        /\ op[o].pc = "check" => op'[o].sent = op[o].sent
    BY <1>1, <1>5 DEF Cancel, CopyLast, AssignId, Remember, Goto, Op, Working
  <2> QED
    BY <2>1 DEF Goes
<1>6. CASE Begin(o)
  <2>1. op'[o] = IF busy THEN Ended(op[o], "done", "busy") ELSE [op[o] EXCEPT !.pc = "check"]
    BY <1>1, <1>6 DEF Begin
  <2>2. CASE busy
    BY <2>1, <2>2, EndedFields DEF Goes, Working
  <2>3. CASE ~busy
    <3>1. /\ op'[o].kind = op[o].kind /\ op'[o].life = op[o].life /\ op'[o].pc = "check"
          /\ op'[o].result = op[o].result /\ op'[o].phase = op[o].phase
          /\ op'[o].sent = op[o].sent
      BY <1>1, <2>1, <2>3 DEF Op
    <3> QED
      BY <3>1 DEF Goes, Working
  <2> QED
    BY <2>2, <2>3
<1>7. CASE CheckFails(o)
  <2>1. CASE op[o].kind = "stop"
    <3>1. op'[o] = Ended(op[o], "done", "failed")
      BY <1>1, <1>7, <2>1 DEF CheckFails
    <3> QED
      BY <3>1, EndedFields DEF Goes, Working
  <2>2. CASE op[o].kind # "stop"
    <3>1. /\ op'[o].kind = op[o].kind /\ op'[o].life = op[o].life /\ op'[o].pc = "release"
          /\ op'[o].result \in {"aborted", "failed"} /\ op'[o].phase = op[o].phase
          /\ op'[o].sent = op[o].sent
      BY <1>1, <1>7, <2>2 DEF CheckFails, Op
    <3> QED
      BY <3>1 DEF Goes, Working
  <2> QED
    BY <2>1, <2>2
<1>8. CASE Check(o)
  <2>1. /\ op'[o].kind = op[o].kind /\ op'[o].life = op[o].life /\ op[o].pc = "check"
        /\ op'[o].result = op[o].result /\ op'[o].phase = FirstPhase(op[o].kind)
        /\ op'[o].sent = op[o].sent
    BY <1>1, <1>8 DEF Check, Op
  <2> QED
    BY <2>1 DEF Goes, FirstPhase
<1>9. CASE PublishLossy(o)
  <2>1. op[o].pc = "publish" /\ (op[o].kind = "stop" <=> op[o].phase = "stop")
    BY <1>1, <1>9 DEF PublishLossy, Shaped
  <2>2. CASE op[o].phase = "stop"
    <3>1. op'[o] = Ended(op[o], "done", "ok")
      BY <1>1, <1>9, <2>2 DEF PublishLossy
    <3> QED
      BY <2>1, <2>2, <3>1, EndedFields DEF Goes, Working
  <2>3. CASE op[o].phase # "stop"
    <3>1. op' = [op EXCEPT ![o] = [op[o] EXCEPT !.pc =
                    IF op[o].phase = "halt" THEN "finish" ELSE "wait"]]
      BY <1>9, <2>3 DEF PublishLossy
    <3>2. op'[o] = [op[o] EXCEPT !.pc = IF op[o].phase = "halt" THEN "finish" ELSE "wait"]
      BY <1>1, <3>1
    <3>3. /\ op'[o].kind = op[o].kind /\ op'[o].life = op[o].life
          /\ op'[o].result = op[o].result /\ op'[o].phase = op[o].phase
      BY <1>1, <3>2 DEF Op
    <3> QED
      BY <2>1, <3>3 DEF Goes, Working
  <2> QED
    BY <2>2, <2>3
<1>10. CASE WaitFails(o) \/ WaitTimesOut(o)
  <2>1. /\ op'[o].kind = op[o].kind /\ op'[o].life = op[o].life /\ op[o].pc = "wait"
        /\ op'[o].result \in {op[o].result, "failed"} /\ op'[o].phase \in {op[o].phase, "halt"}
    BY <1>1, <1>10 DEF WaitFails, WaitTimesOut, Abandon, Op
  <2> QED
    BY <2>1 DEF Goes, Working
<1>11. CASE WaitSucceeds(o)
  <2>1. op[o].pc = "wait"
    BY <1>11 DEF WaitSucceeds
  <2>2. CASE op[o].phase = "reset"
    <3>1. /\ op'[o].kind = op[o].kind /\ op'[o].life = op[o].life
          /\ op'[o].result = op[o].result
      BY <1>1, <1>11, <2>2 DEF WaitSucceeds, Op
    <3> QED
      BY <1>11, <2>1, <2>2, <3>1 DEF Goes, Working
  <2>3. CASE op[o].phase # "reset"
    <3>1. /\ op'[o].kind = op[o].kind /\ op'[o].life = op[o].life
          /\ op'[o].phase = op[o].phase
      BY <1>1, <1>11, <2>3 DEF WaitSucceeds, Op
    <3> QED
      BY <1>11, <2>1, <2>3, <3>1 DEF Goes, Working
  <2> QED
    BY <2>2, <2>3
<1>12. CASE Finish(o)
  <2>1. /\ op'[o].kind = op[o].kind /\ op'[o].life = op[o].life /\ op'[o].pc = "release"
        /\ op'[o].result \in {"canceled", "aborted"} /\ op'[o].phase = op[o].phase
    BY <1>1, <1>12 DEF Finish, Op
  <2> QED
    BY <1>12, <2>1 DEF Goes, Working, Finish
<1>13. CASE Release(o)
  <2>1. op'[o] = Ended(op[o], "done", op[o].result)
    BY <1>1, <1>13 DEF Release
  <2> QED
    BY <1>13, <2>1, EndedFields DEF Goes, Working, Release
<1> QED
  BY <1>4, <1>5, <1>6, <1>7, <1>8, <1>9, <1>10, <1>11, <1>12, <1>13 DEF AdvancesLossy, Ends

LEMMA NextGoes == Typed /\ AllShaped /\ [OpenNext]_openVars => \A o \in Ops : Goes(o)
<1> SUFFICES ASSUME Typed, AllShaped, [OpenNext]_openVars PROVE \A o \in Ops : Goes(o)
  OBVIOUS
<1>1. CASE \E o \in Ops : Call(o) \/ Cancel(o) \/ AdvancesLossy(o) \/ Ends(o)
  BY <1>1, RequestGoes
<1>2. CASE RestartController
  <2> TAKE o \in Ops
  <2>1. op'[o] = IF Underway(o) THEN Ended(op[o], "dead", "none") ELSE op[o]
    BY <1>2 DEF RestartController
  <2> QED
    BY <2>1, EndedFields DEF Goes, Working
<1>3. CASE op' = op
  BY <1>3 DEF Goes
<1>4. ReceiveStatus \/ SpinEnds \/ Destroy \/ AnyBackend \/ UNCHANGED openVars
         => op' = op
  BY DEF ReceiveStatus, SpinEnds, Destroy, AnyBackend, Backend!BackendNext, openVars, controllerVars
<1> QED
  BY <1>1, <1>2, <1>3, <1>4 DEF OpenNext, ControllerLossy

\* What the steps of the requests, of the process and of the backend preserve together.
Told == Once /\ InOrder /\ AllShaped /\ OneOperation /\ AllFit /\ Windows /\ InTurn

LEMMA SameRecalls == ASSUME SentSame PROVE Recalls
BY DEF SentSame, Recalls

LEMMA AssignRecalls ==
    ASSUME Typed, Numbered, AllFit, NEW o \in Ops, AssignId(o)
    PROVE  Recalls
<1>1. op \in [Ops -> Op] /\ op[o].sent \in [Phases -> Nat] /\ op[o].phase \in Phases
      /\ op[o].pc = "assign" /\ op[o] \in Op /\ op[o].life = life
  BY OpFields DEF Typed, TypeOK, AssignId, Numbered, Underway
<1>2. /\ op'[o].life = op[o].life
      /\ op'[o].sent = [op[o].sent EXCEPT ![op[o].phase] = nextId]
      /\ \A p \in Ops \ {o} : op'[p] = op[p]
  BY <1>1 DEF AssignId, Op
<1>3. op[o].phase # "halt" => op[o].sent[op[o].phase] = 0
  BY <1>1 DEF AllFit, Fits
<1>4. ASSUME NEW p \in Ops, NEW ph \in Phases \ {"halt"}, NEW c \in Command, Sent(p, ph, c)
      PROVE  Sent(p, ph, c)'
  <2>1. CASE p # o
    BY <1>2, <1>4, <2>1 DEF Sent
  <2>2. CASE p = o
    <3>1. ph # op[o].phase
      BY <1>3, <1>4, <2>2 DEF Sent
    <3>2. op'[o].sent[ph] = op[o].sent[ph]
      BY <1>1, <1>2, <3>1
    <3> QED
      BY <1>2, <1>4, <2>2, <3>2 DEF Sent
  <2> QED
    BY <2>1, <2>2
<1> QED
  BY <1>4, AssignNumbered DEF Recalls

\* A request that works on its commands did so before, or has sent none.
LEMMA WorksOn ==
    ASSUME Numbered, NEW o \in Ops, Goes(o), op'[o].kind = "activate", op'[o].pc \in Working
    PROVE  op'[o].sent["reset"] = 0 \/ (op[o].kind = "activate" /\ op[o].pc \in Working)
<1>1. CASE op[o].pc = "check"
  BY <1>1 DEF Numbered, Goes, Phases
<1>2. CASE op[o].pc # "check"
  BY <1>2 DEF Goes, Working
<1> QED
  BY <1>1, <1>2

\* What a request publishes while an activation is under way is of the activation, or
\* of a stop request.
LEMMA PublishesOwn ==
    ASSUME Told, SentSame, \A p \in Ops : Goes(p) /\ op'[p].sent = op[p].sent,
           NEW o \in Ops, op[o].pc = "publish", NEW c \in Command, c = op[o].command
    PROVE  /\ c.life # 0
           /\ \A p \in Ops : Sent(p, "reset", c)' => op'[p].sent["activate"] = 0
           /\ \A p \in Ops : op[p].kind = "activate" /\ op[p].pc \in Working =>
                 Own(p, c)'
<1>1. Typed /\ Numbered /\ Bearing(o) /\ Fits(o) /\ Shaped(o) /\ life \in Nat
  BY DEF Told, InOrder, AllFit, AllShaped, Bearing, Typed, TypeOK
<1>2. op[o].phase \in Phases
  BY <1>1, OpFields
<1>3. c.life # 0
  BY <1>1 DEF Numbered, Fits
<1>4. Sent(o, op[o].phase, c)
  BY <1>1 DEF Numbered, Fits, Sent, KeyOf
<1>5. ASSUME NEW p \in Ops, Sent(p, "reset", c)'
      PROVE  op'[p].sent["activate"] = 0
  <2>1. Sent(p, "reset", c)
    BY <1>2, <1>5 DEF SentSame, Phases, Sent
  <2>2. /\ op[p].sent["reset"] # 0 /\ op[o].sent[op[o].phase] # 0
        /\ op[p].life = op[o].life /\ op[p].sent["reset"] = op[o].sent[op[o].phase]
    BY <1>4, <2>1 DEF Sent
  <2>3. "reset" \in Phases
    BY DEF Phases
  <2>4. Numbered
    BY <1>1
  <2>5. p = o /\ "reset" = op[o].phase
    BY <1>2, <2>2, <2>3, <2>4, Zenon DEF Numbered
  <2> QED
    BY <1>1, <2>5 DEF Fits
<1>6. ASSUME NEW p \in Ops, op[p].kind = "activate", op[p].pc \in Working
      PROVE  Own(p, c)'
  <2>1. Holds(p)
    BY <1>6 DEF Told, AllShaped, Shaped, Holds, Working
  <2>2. CASE p = o
    <3>1. op[o].phase \in {"reset", "activate"}
      BY <1>1, <1>6, <2>2 DEF Fits, FirstPhase, ActionKinds
    <3>2. Sent(o, "reset", c)' \/ Sent(o, "activate", c)'
      BY <1>4, <3>1 DEF SentSame, Phases
    <3> QED
      BY <2>2, <3>2 DEF Own
  <2>3. CASE p # o
    <3>1. ~Holds(o)
      BY <2>1, <2>3 DEF Told, OneOperation
    <3>2. op[o].phase = "stop"
      BY <1>1, <3>1 DEF Holds, Shaped
    <3>3. Sent(o, "stop", c)'
      BY <1>4, <3>2 DEF SentSame, Phases
    <3> QED
      BY <3>3 DEF Own
  <2> QED
    BY <2>2, <2>3
<1> QED
  BY <1>2, <1>3, <1>5, <1>6

\* What a request publishes is its turn, or a stop.
LEMMA PublishesInTurn ==
    ASSUME Told, SentSame, \A p \in Ops : Continues(p),
           NEW o \in Ops, op[o].pc = "publish", ~Bearing(o)', NEW c \in Command, c = op[o].command
    PROVE  \/ Stopped(c)'
           \/ /\ \A i \in DOMAIN Way : Turn(Way[i], c)
              /\ \A p \in Ops : Bearing(p)' => op'[p].phase = "stop"
<1>1. Typed /\ Numbered /\ Bearing(o) /\ Fits(o) /\ Shaped(o)
  BY DEF Told, InOrder, AllFit, AllShaped, Bearing
<1>2. CASE op[o].phase = "stop"
  <2>1. Sent(o, "stop", c)
    BY <1>1, <1>2 DEF Numbered, Fits, Sent, KeyOf
  <2> QED
    BY <2>1 DEF SentSame, Phases, Stopped
<1>3. CASE op[o].phase # "stop"
  <2>1. \A i \in DOMAIN Way : Turn(Way[i], c)
    BY <1>1, <1>3 DEF Told, InTurn
  <2>2. Holds(o)
    BY <1>1, <1>3 DEF Shaped, Holds
  <2>3. ASSUME NEW p \in Ops, Bearing(p)' PROVE op'[p].phase = "stop"
    <3>1. Bearing(p) /\ op'[p].phase = op[p].phase /\ p # o
      BY <2>3 DEF Continues
    <3>2. ~Holds(p)
      BY <2>2, <3>1 DEF Told, OneOperation
    <3> QED
      BY <3>1, <3>2 DEF Told, AllShaped, Shaped, Holds, Bearing
  <2> QED
    BY <2>1, <2>3
<1> QED
  BY <1>2, <1>3

\* A request that is made bears no command yet.
LEMMA CallBegins ==
    ASSUME Typed, NEW o \in Ops, Call(o)
    PROVE  op'[o].pc \in {"check", "begin"} /\ \A p \in Ops \ {o} : op'[p] = op[p]
<1>1. PICK kind \in KindsOf[o], goal \in Goals :
        op' = [op EXCEPT ![o].kind = kind, ![o].life = life,
                         ![o].goal = IF kind \in ActionKinds THEN goal ELSE @,
                         ![o].pc = IF kind = "stop" THEN "check" ELSE "begin"]
  BY DEF Call
<1>2. op \in [Ops -> Op] /\ op[o] \in Op
  BY DEF Typed, TypeOK
<1> QED
  BY <1>1, <1>2 DEF Op

\* What happened to the commands in a step, for the properties of requests.
Story == Windows' /\ InTurn' /\ Recalls /\ \E New : Onward(New)

LEMMA RequestStory ==
    ASSUME Told, Typed', NEW o \in Ops, Call(o) \/ Cancel(o) \/ AdvancesLossy(o) \/ Ends(o),
           UNCHANGED backendOnly
    PROVE  Story
<1>1. /\ executed' = executed /\ commandTopic \in Seq(Command)
      /\ Typed /\ AllTaken /\ Numbered
  BY DEF backendOnly, Told, InOrder, Typed, TypeOK
<1>2. \A p \in Ops : Goes(p)
  BY <1>1, RequestGoes DEF Told
<1>3. ASSUME Recalls, Bears, commandTopic' = commandTopic PROVE Story
  <2>1. Onward({})
    BY <1>1, <1>3, FollowsSelf, TopicWay
  <2>2. Windows'
    BY <1>1, <1>2, <1>3, <2>1, WorksOn, WindowsKept DEF Told
  <2>3. InTurn'
    BY <1>1, <1>3, <2>1, TurnsKept DEF Told
  <2> QED
    BY <1>3, <2>1, <2>2, <2>3 DEF Story
<1>4. CASE AssignId(o)
  <2>1. Recalls
    BY <1>1, <1>4, AssignRecalls DEF Told
  <2>2. /\ op'[o].command.life = life /\ op'[o].command.id = nextId
        /\ \A p \in Ops \ {o} : op'[p] = op[p]
    <3>1. op \in [Ops -> Op] /\ op[o] \in Op /\ op[o].command \in Command
      BY <1>1, OpFields DEF Typed, TypeOK
    <3> QED
      BY <1>4, <3>1 DEF AssignId, Op, Command
  <2>3. Bears
    BY <2>2 DEF Bears, Bearing
  <2> QED
    BY <1>3, <1>4, <2>1, <2>3 DEF AssignId
<1>5. CASE Call(o)
  <2>1. Recalls
    BY <1>1, <1>5, CallNumbered, SameRecalls
  <2>3. op'[o].pc \in {"check", "begin"} /\ \A p \in Ops \ {o} : op'[p] = op[p]
    BY <1>1, <1>5, CallBegins
  <2>4. Bears
    BY <2>3 DEF Bears, Bearing
  <2> QED
    BY <1>3, <1>5, <2>1, <2>4 DEF Call
<1>6. CASE ~AssignId(o) /\ ~Call(o)
  <2>1. life' = life /\ nextId' = nextId
    BY <1>6 DEF Cancel, AdvancesLossy, Ends, Begin, CheckFails, Check, CopyLast, Remember,
       PublishLossy, WaitFails, WaitSucceeds, WaitTimesOut, Finish, Release, nodeVars
  <2>2. \A p \in Ops : Continues(p)
    BY <1>1, <1>6, RequestContinues
  <2>3. SentSame /\ Recalls
    BY <1>1, <2>1, <2>2, ContinuesNumbered, SameRecalls
  <2>6. Bears
    BY <2>2 DEF Bears, Continues
  <2>4. CASE ~PublishLossy(o) \/ stage # "spinning"
    <3>1. commandTopic' = commandTopic
      BY <1>6, <2>4 DEF Cancel, AdvancesLossy, Ends, Begin, CheckFails, Check, CopyLast,
         Remember, PublishLossy, WaitFails, WaitSucceeds, WaitTimesOut, Finish, Release
    <3> QED
      BY <1>3, <2>3, <2>6, <3>1
  <2>5. CASE PublishLossy(o) /\ stage = "spinning"
    <3> PICK kept \in Backend!Remainders(commandTopic) :
            commandTopic' = Append(kept, op[o].command)
      BY <2>5 DEF PublishLossy
    <3>1. kept \in Seq(Command) /\ Follows(kept, commandTopic)
      BY <1>1, RemaindersAre, RemaindersFollow
    <3>2. commandTopic' = Append(kept, op[o].command) /\ op[o].pc = "publish"
      BY <2>5 DEF PublishLossy
    <3>3. PICK c \in Command : c = op[o].command
      BY <1>1, OpFields
    <3>4. /\ c.life # 0
          /\ \A p \in Ops : Sent(p, "reset", c)' => op'[p].sent["activate"] = 0
          /\ \A p \in Ops : op[p].kind = "activate" /\ op[p].pc \in Working => Own(p, c)'
      BY <1>2, <2>2, <2>3, <3>2, <3>3, PublishesOwn DEF Continues
    <3>5. Onward({c})
      BY <1>1, <3>1, <3>2, <3>3, TopicWay
    <3>6. Windows'
      BY <1>1, <1>2, <2>3, <3>4, <3>5, WorksOn, WindowsKept DEF Told
    <3>7. ~Bearing(o)'
      BY <1>1, <2>5, PublishEnds
    <3>8. \/ Stopped(c)'
          \/ /\ \A i \in DOMAIN Way : Turn(Way[i], c)
             /\ \A p \in Ops : Bearing(p)' => op'[p].phase = "stop"
      BY <2>2, <2>3, <3>2, <3>3, <3>7, PublishesInTurn
    <3>9. InTurn'
      <4>1. \A d \in {c} : d = c /\ d \in Command
        OBVIOUS
      <4> QED
        BY <1>1, <2>3, <2>6, <3>5, <3>8, <4>1, TurnsKept DEF Told
    <3> QED
      BY <2>3, <3>5, <3>6, <3>9 DEF Story
  <2> QED
    BY <2>4, <2>5
<1> QED
  BY <1>4, <1>5, <1>6

LEMMA ProcessStory ==
    ASSUME Told, Typed', ReceiveStatus \/ SpinEnds \/ Destroy \/ RestartController,
           UNCHANGED backendOnly, \A o \in Ops : Goes(o)
    PROVE  Story
<1>1. /\ executed' = executed /\ commandTopic' = commandTopic /\ commandTopic \in Seq(Command)
      /\ Typed /\ AllTaken /\ Numbered
  BY DEF backendOnly, ReceiveStatus, SpinEnds, Destroy, RestartController, Told, InOrder,
     Typed, TypeOK
<1>2. Recalls
  <2>1. ASSUME \A o \in Ops : op'[o].sent = op[o].sent /\ op'[o].life = op[o].life
        PROVE  Recalls
    BY <2>1 DEF Recalls, Sent
  <2>2. \A o \in Ops : \/ op'[o] = op[o]
                       \/ op'[o] = Ended(op[o], "dead", "none")
    BY DEF ReceiveStatus, SpinEnds, Destroy, RestartController
  <2>3. \A o \in Ops : op'[o].sent = op[o].sent /\ op'[o].life = op[o].life
    BY <2>2, EndedFields
  <2> QED
    BY <2>1, <2>3
<1>3. Onward({})
  BY <1>1, FollowsSelf, TopicWay
<1>4. Windows'
  BY <1>1, <1>2, <1>3, WorksOn, WindowsKept DEF Told
<1>5. Bears
  <2>1. \A o \in Ops : op'[o] = op[o] \/ ~Bearing(o)'
    BY EndedFields DEF ReceiveStatus, SpinEnds, Destroy, RestartController, Bearing
  <2> QED
    BY <2>1 DEF Bears, Bearing
<1>6. InTurn'
  BY <1>1, <1>2, <1>3, <1>5, TurnsKept DEF Told
<1> QED
  BY <1>2, <1>3, <1>4, <1>6 DEF Story

LEMMA BackendStory ==
    ASSUME Told, Typed', AnyBackend
    PROVE  Story
<1>1. /\ UNCHANGED <<op, life, nextId>> /\ commandTopic \in Seq(Command)
      /\ commandTopic' \in Seq(Command) /\ Typed /\ AllTaken /\ Numbered
  BY DEF AnyBackend, Backend!BackendNext, nodeVars, Told, InOrder, Typed, TypeOK
<1>2. Recalls
  BY <1>1 DEF Recalls, Sent, Taken
<1>3. ASSUME Onward({}) PROVE Story
  <2>1. Windows'
    BY <1>1, <1>2, <1>3, WindowsKept DEF Told
  <2>2. Bears
    BY <1>1 DEF Bears, Bearing
  <2>3. InTurn'
    BY <1>1, <1>2, <1>3, <2>2, TurnsKept DEF Told
  <2> QED
    BY <1>2, <1>3, <2>1, <2>3 DEF Story
<1>4. ASSUME executed' = executed, Follows(commandTopic', commandTopic) PROVE Story
  BY <1>1, <1>3, <1>4, TopicWay
<1>5. Backend!Execute \/ Backend!ExecuteUnacknowledged => Backend!TakesEffect
  BY DEF Backend!Execute, Backend!ExecuteUnacknowledged
<1>6. CASE Backend!TakesEffect /\ (Backend!Execute \/ Backend!ExecuteUnacknowledged)
  <2>1. Tail(commandTopic) \in Seq(Command)
    BY <1>1, <1>6 DEF Backend!TakesEffect
  <2>2. Follows(commandTopic', Tail(commandTopic))
    BY <1>6, <2>1, FollowsSelf, RemaindersFollow
       DEF Backend!Execute, Backend!ExecuteUnacknowledged, Backend!SomeLost
  <2> QED
    BY <1>1, <1>3, <1>6, <2>2, ExecutedWay
<1>7. CASE Backend!GoOffline \/ Backend!Lose \/ Backend!ReportOffline
  <2>1. Follows(commandTopic', commandTopic)
    BY <1>1, <1>7, RemaindersFollow
       DEF Backend!GoOffline, Backend!Lose, Backend!ReportOffline, Backend!SomeLost
  <2>2. executed' = executed
    BY <1>7 DEF Backend!GoOffline, Backend!Lose, Backend!ReportOffline
  <2> QED
    BY <1>4, <2>1, <2>2
<1>8. CASE Backend!Reboot
  <2>1. Follows(<<>>, commandTopic)
    <3>1. DOMAIN <<>> = {}
      OBVIOUS
    <3>2. [i \in {} |-> i] \in [{} -> DOMAIN commandTopic]
      OBVIOUS
    <3> QED
      BY <3>1, <3>2 DEF Follows
  <2> QED
    BY <1>4, <1>8, <2>1 DEF Backend!Reboot
<1>9. CASE \/ Backend!GripperPowerCycles \/ Backend!GoOnline
           \/ Backend!Report \/ Backend!GripperMoves
  <2>1. commandTopic' = commandTopic /\ executed' = executed
    BY <1>9 DEF Backend!GripperPowerCycles, Backend!GoOnline, Backend!Report, Backend!GripperMoves
  <2> QED
    BY <1>1, <1>4, <2>1, FollowsSelf
<1> QED
  BY <1>5, <1>6, <1>7, <1>8, <1>9 DEF AnyBackend, Backend!BackendNext

LEMMA NextStory == Told /\ Typed' /\ [OpenNext]_openVars => Story
<1> SUFFICES ASSUME Told, Typed', [OpenNext]_openVars PROVE Story
  OBVIOUS
<1>1. Typed /\ AllShaped /\ \A o \in Ops : Goes(o)
  BY NextGoes DEF Told, InOrder
<1>2. CASE ControllerLossy
  BY <1>1, <1>2, RequestStory, ProcessStory DEF ControllerLossy
<1>3. CASE AnyBackend
  BY <1>3, BackendStory
<1>4. CASE UNCHANGED openVars
  <2>1. UNCHANGED <<op, life, nextId, executed, commandTopic>> /\ commandTopic \in Seq(Command)
    BY <1>1, <1>4 DEF openVars, controllerVars, nodeVars, backendOnly, Typed, TypeOK
  <2>2. Onward({}) /\ Recalls
    BY <1>1, <2>1, FollowsSelf, TopicWay DEF Recalls, Sent, Taken
  <2>3. Windows'
    BY <1>1, <2>1, <2>2, WindowsKept DEF Told, InOrder
  <2>4. Bears
    BY <2>1 DEF Bears, Bearing
  <2>5. InTurn'
    BY <1>1, <2>2, <2>4, TurnsKept DEF Told, InOrder
  <2> QED
    BY <2>2, <2>3, <2>5 DEF Story
<1> QED
  BY <1>2, <1>3, <1>4 DEF OpenNext

\* What the step of a request leaves alone.
LEMMA RequestFrame ==
    ASSUME NEW o \in Ops, Call(o) \/ Cancel(o) \/ AdvancesLossy(o) \/ Ends(o)
    PROVE  UNCHANGED <<statusTopic, current, life>>
<1>1. CASE Call(o)
  BY <1>1 DEF Call, nodeVars
<1>2. CASE Cancel(o)
  BY <1>2 DEF Cancel, nodeVars
<1>3. CASE Begin(o)
  BY <1>3 DEF Begin, nodeVars
<1>4. CASE CheckFails(o) \/ Check(o) \/ CopyLast(o) \/ Finish(o)
  BY <1>4 DEF CheckFails, Check, CopyLast, Finish, nodeVars
<1>5. CASE AssignId(o)
  BY <1>5 DEF AssignId
<1>6. CASE Remember(o)
  BY <1>6 DEF Remember
<1>7. CASE PublishLossy(o)
  BY <1>7 DEF PublishLossy, nodeVars
<1>8. CASE Release(o)
  BY <1>8 DEF Release
<1>9. CASE Ends(o)
  BY <1>9 DEF Ends, WaitFails, WaitSucceeds, WaitTimesOut, nodeVars
<1> QED
  BY <1>1, <1>2, <1>3, <1>4, <1>5, <1>6, <1>7, <1>8, <1>9 DEF AdvancesLossy

\* A topic holds what it held and what was published.
LEMMA PushHolds ==
    ASSUME NEW topic \in Seq(Status), NEW x \in Status,
           NEW i \in DOMAIN Backend!Push(topic, StatusDepth, x)
    PROVE  \/ Backend!Push(topic, StatusDepth, x)[i] = x
           \/ \E j \in DOMAIN topic : Backend!Push(topic, StatusDepth, x)[i] = topic[j]
<1> DEFINE kept == IF Len(topic) < StatusDepth THEN topic ELSE Tail(topic)
<1>1. kept \in Seq(Status) /\ Backend!Push(topic, StatusDepth, x) = Append(kept, x)
  BY DataAssumption DEF Backend!Push
<1>2. \A k \in DOMAIN kept : \E j \in DOMAIN topic : kept[k] = topic[j]
  <2>1. CASE Len(topic) < StatusDepth
    BY <2>1
  <2>2. CASE ~(Len(topic) < StatusDepth)
    <3>1. topic # <<>> /\ kept = Tail(topic)
      BY <2>2, DataAssumption
    <3>2. \A k \in DOMAIN Tail(topic) : Tail(topic)[k] = topic[k + 1] /\ k + 1 \in DOMAIN topic
      BY <3>1
    <3> QED
      BY <3>1, <3>2
  <2> QED
    BY <2>1, <2>2
<1> HIDE DEF kept
<1> QED
  BY <1>1, <1>2

\* A status names no command but one that was executed, and so does the last of them
\* that the controller received.
LEMMA NextTruthful ==
    ASSUME Typed, Typed', Truthful, [OpenNext]_openVars, NEW New, Onward(New)
    PROVE  Truthful'
<1>1. /\ \A id : Ran(id) => Ran(id)'
      /\ Ran(0)'
  BY DEF Ran, Onward
<1>2. statusTopic \in Seq(Status) /\ lastId \in Nat
  BY DEF Typed, TypeOK
<1>3. ASSUME lastId' = lastId \/ lastId' = 0,
             current' = current \/ current' = NoStatus,
             statusTopic' = statusTopic \/ statusTopic' = <<>>
      PROVE  Truthful'
  BY <1>1, <1>3 DEF Truthful
<1>4. CASE ReceiveStatus /\ lastId' = lastId
  <2>1. PICK i \in DOMAIN statusTopic :
          current' = statusTopic[i] /\ statusTopic' = Without(statusTopic, i)
    BY <1>4 DEF ReceiveStatus
  <2>2. \A k \in DOMAIN statusTopic' :
           \E j \in DOMAIN statusTopic : statusTopic'[k] = statusTopic[j]
    BY <1>2, <2>1, WithoutIs
  <2> QED
    BY <1>1, <1>4, <2>1, <2>2 DEF Truthful
<1>5. ASSUME NEW x \in Status, Ran(x.last_command_id), lastId' = lastId, current' = current,
             statusTopic' = Backend!Push(statusTopic, StatusDepth, x)
      PROVE  Truthful'
  <2>1. \A i \in DOMAIN statusTopic' : \/ statusTopic'[i] = x
                                      \/ \E j \in DOMAIN statusTopic : statusTopic'[i] = statusTopic[j]
    BY <1>2, <1>5, PushHolds
  <2> QED
    BY <1>1, <1>5, <2>1 DEF Truthful
<1>6. CASE Backend!Report /\ UNCHANGED current
  <2> DEFINE x == [connected |-> TRUE, connection_id |-> connectionId,
                   last_command_id |-> lastId, gripper |-> gripper]
  <2>1. x \in Status /\ x.last_command_id = lastId
    BY DEF Status, Typed, TypeOK
  <2>2. statusTopic' = Backend!Push(statusTopic, StatusDepth, x) /\ lastId' = lastId
    BY <1>6 DEF Backend!Report
  <2> HIDE DEF x
  <2> QED
    BY <1>5, <1>6, <2>1, <2>2 DEF Truthful
<1>7. CASE Backend!ReportOffline /\ UNCHANGED current
  <2> DEFINE x == [connected |-> FALSE, connection_id |-> connectionId,
                   last_command_id |-> 0, gripper |-> Backend!BlankStatus]
  <2>1. x \in Status /\ x.last_command_id = 0
    BY Blanks DEF Status, Typed, TypeOK
  <2>2. statusTopic' = Backend!Push(statusTopic, StatusDepth, x) /\ lastId' = lastId
    BY <1>7 DEF Backend!ReportOffline, Backend!connectionVars
  <2>3. Ran(0)
    BY DEF Ran
  <2> HIDE DEF x
  <2> QED
    BY <1>5, <1>7, <2>1, <2>2, <2>3
<1>8. CASE Backend!Execute /\ UNCHANGED current
  <2>1. /\ commandTopic # <<>> /\ lastId' = Head(commandTopic).id /\ statusTopic' = statusTopic
        /\ executed' = Append(executed, [command |-> Head(commandTopic), session |-> session,
                                         wasActivated |-> gripper.activated])
    BY <1>8 DEF Backend!Execute, Backend!TakesEffect
  <2>2. /\ Len(executed) + 1 \in DOMAIN executed'
        /\ executed'[Len(executed) + 1].command = Head(commandTopic)
    BY <2>1 DEF Typed, TypeOK
  <2>3. Ran(lastId)'
    BY <2>1, <2>2 DEF Ran
  <2> QED
    BY <1>1, <1>8, <2>1, <2>3 DEF Truthful
<1>9. CASE ControllerLossy
  <2>1. lastId' = lastId
    BY <1>9 DEF ControllerLossy, backendOnly
  <2>2. CASE ReceiveStatus
    BY <1>4, <2>1, <2>2
  <2>3. CASE ~ReceiveStatus
    <3>1. /\ current' = current \/ current' = NoStatus
          /\ statusTopic' = statusTopic \/ statusTopic' = <<>>
      <4>1. CASE \E o \in Ops : Call(o) \/ Cancel(o) \/ AdvancesLossy(o) \/ Ends(o)
        BY <4>1, RequestFrame
      <4>2. CASE SpinEnds \/ Destroy
        BY <4>2 DEF SpinEnds, Destroy
      <4>3. CASE RestartController
        BY <4>3 DEF RestartController
      <4> QED
        BY <1>9, <2>3, <4>1, <4>2, <4>3 DEF ControllerLossy
    <3> QED
      BY <1>3, <2>1, <3>1
  <2> QED
    BY <2>2, <2>3
<1>10. CASE AnyBackend
  <2>1. current' = current
    BY <1>10 DEF AnyBackend, nodeVars
  <2>2. CASE \/ Backend!Lose \/ Backend!GoOnline \/ Backend!GoOffline
             \/ Backend!ExecuteUnacknowledged \/ Backend!Reboot
             \/ Backend!GripperMoves \/ Backend!GripperPowerCycles
    <3>1. statusTopic' = statusTopic /\ (lastId' = lastId \/ lastId' = 0)
      BY <2>2 DEF Backend!Lose, Backend!GoOnline, Backend!GoOffline,
         Backend!ExecuteUnacknowledged, Backend!Disconnects, Backend!Reboot,
         Backend!GripperMoves, Backend!GripperPowerCycles, Backend!connectionVars
    <3> QED
      BY <1>3, <2>1, <3>1
  <2> QED
    BY <1>6, <1>7, <1>8, <1>10, <2>1, <2>2 DEF AnyBackend, Backend!BackendNext
<1>11. CASE UNCHANGED openVars
  BY <1>3, <1>11 DEF openVars, controllerVars, nodeVars, backendOnly
<1> QED
  BY <1>9, <1>10, <1>11 DEF OpenNext

-----------------------------------------------------------------------------
(* A request that ends well.                                               *)

LEMMA AtSent ==
    ASSUME NEW o \in Ops, NEW ph \in Phases
    PROVE  At(o, ph) = {i \in DOMAIN executed : Sent(o, ph, executed[i].command)}
BY DEF At, Sent

LEMMA AtGrows ==
    ASSUME Typed, Recalls, NEW New, Onward(New)
    PROVE  \A o \in Ops : \A ph \in Phases \ {"halt"} : At(o, ph) \subseteq At(o, ph)'
<1> SUFFICES ASSUME NEW o \in Ops, NEW ph \in Phases \ {"halt"}, NEW i \in At(o, ph)
             PROVE  i \in At(o, ph)'
  OBVIOUS
<1>1. i \in DOMAIN executed /\ Sent(o, ph, executed[i].command)
  BY AtSent
<1>2. i \in DOMAIN executed' /\ executed'[i] = executed[i] /\ executed[i].command \in Command
  BY <1>1, CommandsTyped DEF Onward
<1>3. PICK c \in Command : c = executed[i].command
  BY <1>2
<1>4. Sent(o, ph, c)'
  BY <1>1, <1>3 DEF Recalls
<1>5. op'[o].sent[ph] # 0 /\ KeyOf(executed'[i].command) = <<op'[o].life, op'[o].sent[ph]>>
  BY <1>2, <1>3, <1>4 DEF Sent
<1> QED
  BY <1>2, <1>5 DEF At

\* The status that ends a wait names the command waited for.
LEMMA WaitHeard ==
    ASSUME Told, Truthful, NEW o \in Ops, WaitSucceeds(o), op[o].life = 1
    PROVE  At(o, op[o].phase) # {}
<1>1. /\ op[o].pc = "wait" /\ current.last_command_id = op[o].command.id
      /\ Typed /\ Numbered /\ AllTaken /\ Fits(o) /\ life = 1
  BY DEF WaitSucceeds, Satisfied, Told, InOrder, AllFit, Numbered, Underway
<1>2. /\ current # NoStatus /\ op[o].command.id = op[o].sent[op[o].phase]
      /\ op[o].sent[op[o].phase] # 0
  BY <1>1 DEF Fits, Working
<1>3. PICK i \in DOMAIN executed : executed[i].command.id = op[o].sent[op[o].phase]
  BY <1>1, <1>2 DEF Truthful, Ran
<1>4. executed[i].command.life = 1
  <2>1. i \in DOMAIN Way /\ Way[i] = executed[i].command
    BY <1>1, WayFields
  <2>2. Way[i].life # 0 /\ Taken(Way[i]) /\ Way[i] \in Command
    BY <1>1, <2>1, WayTaken DEF Told, Windows
  <2> QED
    BY <1>1, <2>1, <2>2 DEF Taken, Command
<1> QED
  BY <1>2, <1>3, <1>4 DEF At, KeyOf

\* At the end of an activation's second wait, between its two commands the gripper
\* executed nothing but stops.
LEMMA ActivationAlone ==
    ASSUME Told, NEW o \in Ops, op[o].kind = "activate", op[o].pc = "wait",
           NEW i \in At(o, "reset"), NEW j \in At(o, "activate")
    PROVE  i < j /\ \A k \in (i + 1)..(j - 1) : \E s \in Ops : k \in At(s, "stop")
<1>1. Typed /\ AllTaken /\ AtMostOnce
  BY DEF Told, InOrder, Once, OnePlace
<1>2. /\ i \in DOMAIN executed /\ j \in DOMAIN executed
      /\ Sent(o, "reset", executed[i].command) /\ Sent(o, "activate", executed[j].command)
  BY AtSent DEF Phases
<1>3. \A k \in DOMAIN executed : k \in DOMAIN Way /\ Way[k] = executed[k].command
  BY <1>1, WayFields
<1>4. i < j
  BY <1>2, <1>3 DEF Told, Windows
<1>5. ASSUME NEW k \in (i + 1)..(j - 1) PROVE \E s \in Ops : k \in At(s, "stop")
  <2>1. k \in DOMAIN executed /\ i < k /\ k # i /\ k # j
    BY <1>1, <1>2, WayFields
  <2>2. Own(o, executed[k].command)
    BY <1>2, <1>3, <2>1 DEF Told, Windows, Working
  <2>3. ~Sent(o, "reset", executed[k].command)
    BY <1>1, <1>2, <2>1 DEF AtMostOnce, Sent
  <2>4. ~Sent(o, "activate", executed[k].command)
    BY <1>1, <1>2, <2>1 DEF AtMostOnce, Sent
  <2>5. PICK s \in Ops : Sent(s, "stop", executed[k].command)
    BY <2>2, <2>3, <2>4 DEF Own
  <2> QED
    BY <2>1, <2>5, AtSent DEF Phases
<1> QED
  BY <1>4, <1>5

LEMMA WaitSucceeded ==
    ASSUME Told, Truthful, Succeeds, NEW o \in Ops, WaitSucceeds(o), op[o].life = 1,
           op[o].phase # "reset"
    PROVE  Succeeded(o)
<1>1. At(o, op[o].phase) # {}
  BY WaitHeard
<1>2. op[o].pc = "wait" /\ Fits(o)
  BY DEF WaitSucceeds, Told, AllFit
<1>3. CASE op[o].phase = "activate"
  <2>1. op[o].kind = "activate"
    BY <1>2, <1>3 DEF Fits, Working, FirstPhase
  <2>2. PICK i \in At(o, "reset"), j \in At(o, "activate") : TRUE
    BY <1>1, <1>3 DEF Succeeds
  <2>3. i < j /\ \A k \in (i + 1)..(j - 1) : \E s \in Ops : k \in At(s, "stop")
    BY <1>2, <2>1, ActivationAlone
  <2> QED
    BY <1>1, <1>3, <2>1, <2>3 DEF Succeeded, MainPhase
<1>4. CASE op[o].phase # "activate"
  <2>1. op[o].phase = FirstPhase(op[o].kind) /\ op[o].kind # "activate"
    BY <1>2, <1>4 DEF Fits, Working, FirstPhase
  <2> QED
    BY <1>1, <2>1 DEF Succeeded, MainPhase
<1> QED
  BY <1>3, <1>4

LEMMA SucceededStays ==
    ASSUME NEW o \in Ops, Succeeded(o), op'[o].kind = op[o].kind,
           \A p \in Ops : \A ph \in Phases \ {"halt"} : At(p, ph) \subseteq At(p, ph)'
    PROVE  Succeeded(o)'
<1>1. MainPhase(op[o].kind) \in Phases \ {"halt"}
  BY DEF MainPhase, FirstPhase, Phases
<1>2. At(o, MainPhase(op[o].kind))' # {}
  BY <1>1 DEF Succeeded
<1>3. ASSUME op[o].kind = "activate"
      PROVE  \E i \in At(o, "reset")', j \in At(o, "activate")' :
                /\ i < j
                /\ \A k \in (i + 1)..(j - 1) : \E s \in Ops : k \in At(s, "stop")'
  BY <1>3 DEF Succeeded, Phases
<1> QED
  BY <1>2, <1>3 DEF Succeeded

LEMMA NextSucceeds ==
    ASSUME Told, Typed', Truthful, Succeeds, [OpenNext]_openVars
    PROVE  Succeeds'
<1>1. Typed /\ AllShaped /\ \A o \in Ops : Goes(o)
  BY NextGoes DEF Told, InOrder
<1>2. PICK New : Onward(New)
  BY NextStory DEF Story
<1>3. \A p \in Ops : \A ph \in Phases \ {"halt"} : At(p, ph) \subseteq At(p, ph)'
  BY <1>1, <1>2, NextStory, AtGrows DEF Story
<1> SUFFICES ASSUME NEW o \in Ops, op'[o].life = 1
             PROVE  /\ op'[o].result = "ok" /\ op'[o].kind # "stop" => Succeeded(o)'
                    /\ op'[o].phase = "activate" => At(o, "reset")' # {}
  BY DEF Succeeds
<1>4. Goes(o) /\ Fits(o)
  BY <1>1 DEF Told, AllFit
<1>5. CASE op[o].pc = "idle"
  BY <1>4, <1>5 DEF Goes, Fits, WaitSucceeds
<1>6. CASE op[o].pc # "idle"
  <2>1. op'[o].kind = op[o].kind /\ op[o].life = 1
    BY <1>4, <1>6 DEF Goes
  <2>2. ASSUME op'[o].result = "ok", op'[o].kind # "stop" PROVE Succeeded(o)'
    <3>1. op[o].result = "ok" \/ (WaitSucceeds(o) /\ op[o].phase # "reset")
      BY <1>4, <2>2 DEF Goes
    <3>2. Succeeded(o)
      BY <2>1, <2>2, <3>1, WaitSucceeded DEF Succeeds
    <3> QED
      BY <1>3, <2>1, <3>2, SucceededStays
  <2>3. ASSUME op'[o].phase = "activate" PROVE At(o, "reset")' # {}
    <3>1. At(o, "reset") # {}
      BY <1>4, <2>1, <2>3, WaitHeard DEF Goes, Succeeds
    <3> QED
      BY <1>3, <3>1 DEF Phases
  <2> QED
    BY <2>2, <2>3
<1> QED
  BY <1>5, <1>6

\* The inductive invariant.
Success == Told /\ Truthful /\ Succeeds

LEMMA NextSuccess == Success /\ [OpenNext]_openVars => Success'
<1> SUFFICES ASSUME Success, [OpenNext]_openVars PROVE Success'
  OBVIOUS
<1>1. Once' /\ InOrder'
  BY NextOnce, NextInOrder DEF Success, Told
<1>2. AllShaped' /\ OneOperation'
  BY NextHolds DEF Success, Told
<1>3. AllFit' /\ Typed'
  BY <1>1, NextFits DEF Success, Told, InOrder
<1>4. Story
  BY <1>3, NextStory DEF Success
<1>5. Truthful'
  BY <1>3, <1>4, NextTruthful DEF Story, Success, Told, InOrder
<1>6. Succeeds'
  BY <1>3, NextSucceeds DEF Success
<1> QED
  BY <1>1, <1>2, <1>3, <1>4, <1>5, <1>6 DEF Success, Told, Story

LEMMA InitSuccess == Init => Success
<1> SUFFICES ASSUME Init PROVE Success
  OBVIOUS
<1>1. Once /\ InOrder /\ AllShaped /\ OneOperation /\ AllFit
  BY InitOnce, InitInOrder, InitHolds, InitFits
<1>2. /\ commandTopic = <<>> /\ statusTopic = <<>> /\ executed = <<>> /\ lastId = 0
      /\ current = NoStatus
      /\ \A o \in Ops : op[o].life = 0
  BY DEF Init, ControllerInit, Backend!BackendInit, IdleOp
<1>3. DOMAIN Way = {}
  BY <1>2 DEF Way
<1>4. \A o \in Ops : op[o].pc = "idle"
  BY DEF Init, ControllerInit, IdleOp
<1>5. InTurn
  BY <1>3, <1>4 DEF InTurn, Bearing
<1> QED
  BY <1>1, <1>2, <1>3, <1>5 DEF Success, Told, Windows, Truthful, Ran, Succeeds

\* Of the first controller process, however many follow: a request that
\* wait_for_status() lets succeed had its own command executed, and an activation its
\* reset before that, with nothing but the commands of stop requests between the two.
\* Of a later process it can not be said: its identifiers start from 1 again, and the
\* backend may still report the same identifier for a command of the process before.
THEOREM FirstProcessSucceeds == Spec => []Succeeds
<1>1. Success => Succeeds
  BY DEF Success
<1>2. Success /\ [Next]_vars => Success'
  BY NextIsOpen, NextSuccess DEF Success, Told, InOrder
<1> QED
  BY <1>1, <1>2, InitSuccess, PTL DEF Spec

\* The only process stays the first.
LEMMA NextOnly ==
    ASSUME MaxLives <= 1, Success, life = 1, [OpenNext]_openVars
    PROVE  Success' /\ life' = 1
<1>1. ~RestartController
  BY ControllerAssumption DEF RestartController
<1>2. life' = life
  <2>1. CASE ControllerLossy
    <3>1. CASE \E o \in Ops : Call(o) \/ Cancel(o) \/ AdvancesLossy(o) \/ Ends(o)
      BY <3>1, RequestFrame
    <3>2. CASE ReceiveStatus \/ SpinEnds \/ Destroy
      BY <3>2 DEF ReceiveStatus, SpinEnds, Destroy
    <3> QED
      BY <1>1, <2>1, <3>1, <3>2 DEF ControllerLossy
  <2>2. CASE AnyBackend \/ UNCHANGED openVars
    BY <2>2 DEF AnyBackend, Backend!BackendNext, openVars, controllerVars, nodeVars
  <2> QED
    BY <2>1, <2>2 DEF OpenNext
<1> QED
  BY <1>2, NextSuccess

LEMMA OnlySucceeds == Success /\ life = 1 => SuccessIsExecuted
<1> SUFFICES ASSUME Success, life = 1, NEW o \in Ops, op[o].result = "ok", op[o].kind # "stop"
             PROVE  Succeeded(o)
  BY DEF SuccessIsExecuted, Succeeded
<1>1. op[o].life \in 1..life
  BY DEF Success, Told, AllFit, Fits
<1>2. op[o].life = 1
  BY <1>1
<1> QED
  BY <1>2 DEF Success, Succeeds

\* While there is no second controller process, that is what SuccessIsExecuted says of
\* every request: what wait_for_status() compares (the identifier, the connection, the
\* state) is enough, whatever is lost and however often the backend reconnects.
THEOREM OwnCommandExecuted ==
    ASSUME MaxLives <= 1 PROVE Spec => []SuccessIsExecuted
<1> DEFINE Only == Success /\ life = 1
<1>1. Init => Only
  BY InitSuccess DEF Init, ControllerInit
<1>2. Only /\ [Next]_vars => Only'
  BY NextIsOpen, NextOnly DEF Success, Told, InOrder
<1>3. Only => SuccessIsExecuted
  BY OnlySucceeds
<1> QED
  BY <1>1, <1>2, <1>3, PTL DEF Spec

-----------------------------------------------------------------------------
(* The order of the commands of one process.                               *)

LEMMA TurnsExecuted == Success => OnlyStopsOvertake
<1> SUFFICES ASSUME Success, NEW i \in DOMAIN executed, NEW j \in DOMAIN executed, i < j,
                    executed[i].command.life = executed[j].command.life
             PROVE  \/ executed[i].command.id < executed[j].command.id
                    \/ /\ executed[i].command.id # executed[j].command.id
                       /\ SentByStop(i) \/ SentByStop(j)
  BY DEF OnlyStopsOvertake
<1>1. Typed /\ AtMostOnce /\ InTurn
  BY DEF Success, Told, InOrder, Once, OnePlace
<1>2. i # j
  BY <1>1, WayFields
<1>3. executed[i].command.id # executed[j].command.id
  BY <1>1, <1>2 DEF AtMostOnce, KeyOf
<1>4. Turn(executed[i].command, executed[j].command)
  <2>1. /\ i \in DOMAIN Way /\ Way[i] = executed[i].command
        /\ j \in DOMAIN Way /\ Way[j] = executed[j].command
    BY <1>1, WayFields
  <2> QED
    BY <1>1, <2>1 DEF InTurn
<1>5. /\ Stopped(executed[i].command) => SentByStop(i)
      /\ Stopped(executed[j].command) => SentByStop(j)
  BY AtSent DEF Stopped, SentByStop, Phases
<1> QED
  BY <1>3, <1>4, <1>5 DEF Turn

\* The gripper executes no command twice, and those of one controller process in the
\* order of their identifiers, except where a stop overtakes or is overtaken: whatever
\* gets lost, however often the backend reconnects, and over all processes of the two.
\* It rests on busy_: two requests that are no stops never stand between fetch_add()
\* and publish() at once.
THEOREM OvertakenOnlyByStops == Spec => []OnlyStopsOvertake
<1>1. Success => OnlyStopsOvertake
  BY TurnsExecuted
<1>2. Success /\ [Next]_vars => Success'
  BY NextIsOpen, NextSuccess DEF Success, Told, InOrder
<1> QED
  BY <1>1, <1>2, InitSuccess, PTL DEF Spec
=============================================================================
