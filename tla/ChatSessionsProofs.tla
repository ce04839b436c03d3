------------------------- MODULE ChatSessionsProofs -------------------------
(* What chat_sessions.py, chat_persistence.py and the chat handlers of       *)
(* api.py keep true for any number of sessions, connections, requests and    *)
(* turns, and any interleaving of their tasks with crashes, refused          *)
(* checkpoints and refused writes of the traces.                             *)
EXTENDS ChatSessions, FiniteSetTheorems, TLAPS

(* None is no object and no id, and no log is the absence of a row.          *)
LEMMA Nothing == None \notin Objects /\ None \notin Ids /\ NoRow \notin Log
  BY ChatAssumption DEF Log

(* An object stays one when a step assigns to its fields, one by one.        *)
LEMMA FieldUpdate ==
  ASSUME NEW x \in Object, NEW b \in BOOLEAN
  PROVE  /\ [x EXCEPT !.connected = b] \in Object
         /\ [x EXCEPT !.busy = b] \in Object
         /\ [x EXCEPT !.closed = b] \in Object
         /\ [x EXCEPT !.saved = b] \in Object
         /\ [x EXCEPT !.runtime = "closed"] \in Object
         /\ [x EXCEPT !.acloses = x.acloses + 1] \in Object
         /\ \A log \in Log : [x EXCEPT !.log = log] \in Object
         /\ \A a \in {"none", "clear", "set"} : [x EXCEPT !.abort = a] \in Object
         /\ \A m \in {"idle", "running", "orphaned", "stuck"} :
              [x EXCEPT !.inner = m] \in Object
  BY DEF Object

(* The assignments the steps make together.                                  *)
LEMMA ObjectUpdates ==
  ASSUME NEW x \in Object, NEW b \in BOOLEAN, NEW log \in Log,
         NEW a \in {"none", "clear", "set"},
         NEW m \in {"idle", "running", "orphaned", "stuck"}
  PROVE  /\ [x EXCEPT !.connected = b, !.abort = a] \in Object
         /\ [x EXCEPT !.log = log, !.saved = b] \in Object
         /\ [x EXCEPT !.inner = m, !.abort = a] \in Object
         /\ [x EXCEPT !.inner = m, !.abort = a, !.saved = b] \in Object
         /\ [x EXCEPT !.busy = TRUE, !.inner = m, !.abort = a] \in Object
         /\ [x EXCEPT !.log = log, !.busy = FALSE, !.inner = m, !.abort = a,
                      !.saved = b] \in Object
         /\ [x EXCEPT !.closed = TRUE, !.abort = a] \in Object
         /\ [x EXCEPT !.closed = TRUE, !.runtime = "closed", !.abort = a,
                      !.acloses = x.acloses + 1, !.saved = b] \in Object
<1> DEFINE logged == [x EXCEPT !.log = log]
           idle == [logged EXCEPT !.busy = FALSE]
           inner == [idle EXCEPT !.inner = m]
           unset == [inner EXCEPT !.abort = a]
           closed == [x EXCEPT !.closed = TRUE]
           shut == [closed EXCEPT !.runtime = "closed"]
           aborted == [shut EXCEPT !.abort = a]
           aclosed == [aborted EXCEPT !.acloses = aborted.acloses + 1]
           mini == [x EXCEPT !.inner = m]
           left == [mini EXCEPT !.abort = a]
           busy == [x EXCEPT !.busy = TRUE]
           begun == [busy EXCEPT !.inner = m]
<1>1. logged \in Object /\ closed \in Object /\ mini \in Object /\ busy \in Object
  BY FieldUpdate
<1>2. aborted.acloses = x.acloses
  BY DEF Object
<1> HIDE DEF logged, closed, mini, busy
<1>3. idle \in Object /\ shut \in Object /\ left \in Object /\ begun \in Object
  BY <1>1, FieldUpdate
<1> HIDE DEF idle, shut, left, begun
<1>4. inner \in Object /\ aborted \in Object /\ [begun EXCEPT !.abort = a] \in Object
  BY <1>3, FieldUpdate
<1> HIDE DEF inner, aborted
<1>5. unset \in Object /\ aclosed \in Object
  BY <1>4, FieldUpdate
<1> HIDE DEF unset, aclosed
<1>6. /\ [unset EXCEPT !.saved = b] \in Object /\ [aclosed EXCEPT !.saved = b] \in Object
      /\ [left EXCEPT !.saved = b] \in Object
  BY <1>3, <1>5, FieldUpdate
<1>7. [x EXCEPT !.connected = b, !.abort = a] \in Object
  BY DEF Object
<1>8. [logged EXCEPT !.saved = b] \in Object /\ [closed EXCEPT !.abort = a] \in Object
  BY <1>1, FieldUpdate
<1> QED
  BY <1>2, <1>3, <1>4, <1>6, <1>7, <1>8
     DEF logged, idle, inner, unset, closed, shut, aborted, aclosed, mini, left, busy, begun

(* A new object, over an empty or a stored log, and the two fields that are  *)
(* set at once.                                                              *)
LEMMA NewObjectTyped ==
  ASSUME NEW i \in Ids \cup {None}, NEW log \in Log, NEW b \in BOOLEAN
  PROVE  /\ NewObject(i, log) \in Object
         /\ [NewObject(i, log) EXCEPT !.saved = b] \in Object
         /\ [NewObject(i, log) EXCEPT !.connected = b] \in Object
<1>1. NewObject(i, log) \in Object
  BY DEF NewObject, Object
<1> QED
  BY <1>1, FieldUpdate

(* The records of the handlers, when they start, wait and end.               *)
LEMMA HandlersTyped ==
  /\ NoSocket \in Socket
  /\ NoDelete \in Delete
  /\ \A o \in Objects : [NoSocket EXCEPT !.phase = "open", !.obj = o] \in Socket
  /\ \A phase \in {"waiting", "closing"}, i \in Ids, o \in Objects, b \in BOOLEAN :
       [phase |-> phase, id |-> i, obj |-> o, failed |-> b] \in Delete
<1>1. 0 \in 0..MaxTurns
  BY ChatAssumption
<1>2. NoSocket \in Socket /\ NoDelete \in Delete
  BY <1>1 DEF NoSocket, Socket, NoDelete, Delete
<1>3. ASSUME NEW o \in Objects
      PROVE  [NoSocket EXCEPT !.phase = "open", !.obj = o] \in Socket
  <2> DEFINE open == [NoSocket EXCEPT !.phase = "open"]
  <2>1. open \in Socket
    BY <1>2 DEF Socket
  <2> HIDE DEF open
  <2>2. [open EXCEPT !.obj = o] \in Socket
    BY <2>1 DEF Socket
  <2> QED
    BY <2>2 DEF open
<1> QED
  BY <1>2, <1>3 DEF Delete

(* A transaction leaves the store and the bounds well typed.                 *)
LEMMA TransactionTyped ==
  ASSUME TypeOK, NEW i \in Ids, NEW row \in Log \cup {NoRow}, NEW ok \in BOOLEAN,
         Transaction(i, row, ok)
  PROVE  /\ store' \in [Ids -> Log \cup {NoRow}]
         /\ used' \in [turns: 0..MaxTurns, commands: 0..MaxCommands,
                       faults: 0..MaxFaults, crashes: 0..MaxCrashes]
  BY ChatAssumption DEF Transaction, TypeOK

(* So does one that meets the fault of a trace write.                        *)
LEMMA LockedTyped ==
  ASSUME TypeOK, NEW i \in Ids, NEW row \in Log \cup {NoRow}, NEW ok \in BOOLEAN,
         Locked(i, row, ok)
  PROVE  /\ store' \in [Ids -> Log \cup {NoRow}]
         /\ used' \in [turns: 0..MaxTurns, commands: 0..MaxCommands,
                       faults: 0..MaxFaults, crashes: 0..MaxCrashes]
  BY ChatAssumption DEF Locked, TypeOK

(* What a connection's task does to its own record and to the object it      *)
(* holds.                                                                    *)
LEMMA LeaveTyped ==
  ASSUME NEW s \in Sockets, NEW objects \in [Objects -> Object],
         sock \in [Sockets -> Socket], sock[s].obj \in Objects
  PROVE  /\ SocketAfterLeave(s) \in Socket
         /\ Aborted(sock[s].obj) \in {"none", "clear", "set"} =>
              ObjectAfterLeave(s, objects) \in [Objects -> Object]
<1> DEFINE o == sock[s].obj
<1>1. SocketAfterLeave(s) \in Socket
  BY ChatAssumption DEF SocketAfterLeave, Socket, NoSocket
<1> DEFINE detached == [objects EXCEPT ![o].connected = FALSE]
<1>2. detached \in [Objects -> Object]
  <2>1. [objects[o] EXCEPT !.connected = FALSE] \in Object
    BY FieldUpdate
  <2> QED
    BY <2>1
<1> HIDE DEF detached
<1>3. detached[o].abort \in {"none", "clear", "set"}
  BY <1>2 DEF Object
<1>4. ASSUME NEW a \in {"none", "clear", "set"}
      PROVE  [detached EXCEPT ![o].abort = a] \in [Objects -> Object]
  <2>1. [detached[o] EXCEPT !.abort = a] \in Object
    BY <1>2, FieldUpdate
  <2> QED
    BY <1>2, <2>1
<1>5. ASSUME Aborted(o) \in {"none", "clear", "set"}
      PROVE  ObjectAfterLeave(s, objects) \in [Objects -> Object]
  <2> DEFINE a == IF sock[s].turn = "none" THEN detached[o].abort ELSE Aborted(o)
  <2>1. a \in {"none", "clear", "set"}
    BY <1>3, <1>5
  <2>2. ObjectAfterLeave(s, objects) = [detached EXCEPT ![o].abort = a]
    BY DEF ObjectAfterLeave, detached
  <2> HIDE DEF a
  <2> QED
    BY <1>4, <2>1, <2>2
<1> QED
  BY <1>1, <1>5

(* A handler that is on holds an object, of the id it works for; the map     *)
(* holds the objects of its ids.                                             *)
References ==
  /\ \A s \in Sockets :
       /\ sock[s].phase = "off" => sock[s].obj = None /\ sock[s].turn = "none"
       /\ sock[s].phase # "off" => sock[s].obj \in Objects
                                   /\ obj[sock[s].obj].id # None
       /\ sock[s].turn # "none" => sock[s].number # 0
  /\ \A d \in Deletes :
       /\ del[d].phase = "off" => del[d].obj = None
       /\ del[d].phase # "off" =>
            /\ del[d].obj \in Objects /\ del[d].id \in Ids \cap deleted
            /\ obj[del[d].obj].id = del[d].id
  /\ \A i \in Ids : sessions[i] # None => i \in created /\ obj[sessions[i]].id = i

(* What the actions find in the variables they use.                          *)
LEMMA Found ==
  ASSUME TypeOK, References
  PROVE  /\ \A o \in Objects : /\ obj[o] \in Object
                               /\ Aborted(o) \in {"none", "clear", "set"}
                               /\ obj[o].log \in Log
                               /\ obj[o].id \in Ids \cup {None}
         /\ \A s \in Sockets : sock[s].phase # "off" \/ sock[s].turn # "none" =>
              /\ sock[s].obj \in Objects
              /\ obj[sock[s].obj].id \in Ids
  BY DEF TypeOK, References, Object, Aborted, Socket

(* The new state of an object over a stored snapshot.                        *)
LEMMA HydratedTyped ==
  ASSUME TypeOK, NEW i \in Ids, NEW o \in Objects, Live(i, o) \/ Hydrates(i, o)
  PROVE  ObjectsAfterGet(i, o) \in [Objects -> Object]
  BY NewObjectTyped DEF Hydrates, ObjectsAfterGet, TypeOK

(* The ways a turn task ends: object, connection, store and bounds.  Either  *)
(* its turn is Done, or it had none and leaves the object Idle, but for what *)
(* mini's generator makes of its own flags.                                  *)
Inners == {"idle", "running", "orphaned", "stuck"}
Aborts == {"none", "clear", "set"}
Done(o, log, m, a, ok) ==
  obj' = [obj EXCEPT ![o] = [obj[o] EXCEPT !.log = log, !.busy = FALSE, !.inner = m,
                                           !.abort = a, !.saved = ok]]
Idle(o, m, a, ok) ==
  obj' = [obj EXCEPT ![o] = [obj[o] EXCEPT !.inner = m, !.abort = a, !.saved = ok]]
TaskEnds(s, log, ok) ==
  LET o == sock[s].obj IN
  /\ \E m \in Inners, a \in Aborts :
       \/ sock[s].turn = "running" /\ Done(o, log, m, a, ok)
       \/ /\ sock[s].turn = "created" /\ log = obj[o].log /\ ~obj[o].busy
          /\ Idle(o, m, a, ok)
  /\ Transaction(obj[o].id, log, ok) \/ Locked(obj[o].id, log, ok)
  /\ sock' = [sock EXCEPT ![s].turn = "none"]

(* Such an end keeps the types.                                              *)
LEMMA TaskEndsTyped ==
  ASSUME TypeOK, References, NEW s \in Sockets, NEW log \in Log, NEW ok \in BOOLEAN,
         TaskEnds(s, log, ok)
  PROVE  /\ obj' \in [Objects -> Object]
         /\ sock' \in [Sockets -> Socket]
         /\ store' \in [Ids -> Log \cup {NoRow}]
         /\ used' \in [turns: 0..MaxTurns, commands: 0..MaxCommands,
                       faults: 0..MaxFaults, crashes: 0..MaxCrashes]
<1> DEFINE o == sock[s].obj
<1>1. o \in Objects /\ obj[o] \in Object /\ obj[o].id \in Ids
  BY Found DEF TaskEnds
<1>2. ASSUME NEW m \in Inners, NEW a \in Aborts
      PROVE  /\ [obj[o] EXCEPT !.log = log, !.busy = FALSE, !.inner = m, !.abort = a,
                               !.saved = ok] \in Object
             /\ [obj[o] EXCEPT !.inner = m, !.abort = a, !.saved = ok] \in Object
  <2> DEFINE x == obj[o]
  <2>1. x \in Object
    BY <1>1
  <2> HIDE DEF x
  <2>2. /\ [x EXCEPT !.log = log, !.busy = FALSE, !.inner = m, !.abort = a,
                     !.saved = ok] \in Object
        /\ [x EXCEPT !.inner = m, !.abort = a, !.saved = ok] \in Object
    <3>1. m \in {"idle", "running", "orphaned", "stuck"} /\ a \in {"none", "clear", "set"}
      BY DEF Inners, Aborts
    <3> QED
      BY <2>1, <3>1, ObjectUpdates, ZenonT(60)
  <2> QED
    BY <2>2 DEF x
<1>3. PICK x \in Object : obj' = [obj EXCEPT ![o] = x]
  BY <1>2 DEF TaskEnds, Done, Idle
<1>4. obj' \in [Objects -> Object]
  BY <1>1, <1>3 DEF TypeOK
<1>5. sock' \in [Sockets -> Socket]
  BY SMTT(30) DEF TaskEnds, TypeOK, Socket
<1>6. /\ store' \in [Ids -> Log \cup {NoRow}]
      /\ used' \in [turns: 0..MaxTurns, commands: 0..MaxCommands,
                    faults: 0..MaxFaults, crashes: 0..MaxCrashes]
  BY <1>1, TransactionTyped, LockedTyped DEF TaskEnds
<1> QED
  BY <1>4, <1>5, <1>6

(* The last steps of a turn task.                                            *)
TaskStep(s, ok) == TurnStep(s, ok) \/ Refused(s, ok)

(* They end the task, and add at most the number of the turn to the log.     *)
LEMMA TaskStepEnds ==
  ASSUME TypeOK, References, NEW s \in Sockets, NEW ok \in BOOLEAN, TaskStep(s, ok)
  PROVE  \E log \in Log :
           /\ TaskEnds(s, log, ok)
           /\ log \in {obj[sock[s].obj].log,
                       Append(obj[sock[s].obj].log, sock[s].number)}
           /\ UNCHANGED <<up, sessions, del, created, deleted, gone>>
           /\ \/ UNCHANGED acked
              \/ /\ ok /\ log = Append(obj[sock[s].obj].log, sock[s].number)
                 /\ acked' = [acked EXCEPT ![obj[sock[s].obj].id] =
                                 acked[obj[sock[s].obj].id] \cup {sock[s].number}]
<1> DEFINE o == sock[s].obj
           longer == Append(obj[o].log, sock[s].number)
<1>1. sock[s].turn # "none"
  BY DEF TaskStep, TurnStep, Refused, Answered, TurnAborted, TurnRaises, BeginRefused,
         BeginStuck, TraceRefused, Starts
<1>2. /\ o \in Objects /\ obj[o] \in Object /\ obj[o].log \in Log
      /\ obj[o].abort \in Aborts /\ obj[o].inner \in Inners
      /\ sock[s].number \in 0..MaxTurns
  BY <1>1, Found DEF TypeOK, Object, Socket, Aborts, Inners
<1>3. longer \in Log
  BY <1>2 DEF Log
<1>4. ASSUME NEW m, NEW a, NEW log,
             obj' = [obj EXCEPT ![o].log = log, ![o].busy = FALSE, ![o].inner = m,
                                ![o].abort = a, ![o].saved = ok]
      PROVE  Done(o, log, m, a, ok)
  <2> DEFINE x == [obj[o] EXCEPT !.log = log, !.busy = FALSE, !.inner = m,
                                 !.abort = a, !.saved = ok]
  <2>1. obj' = [obj EXCEPT ![o] = x]
    BY <1>2, <1>4 DEF TypeOK
  <2> QED
    BY <2>1 DEF Done
<1>5. ASSUME NEW log \in Log, EndTurn(s, log, ok), sock[s].turn = "running"
      PROVE  TaskEnds(s, log, ok) /\ UNCHANGED <<up, sessions, del, created, deleted, gone>>
  BY <1>4, <1>5 DEF EndTurn, TaskEnds, Inners, Aborts
<1>6. CASE Answered(s, ok)
  BY <1>3, <1>5, <1>6 DEF Answered
<1>7. CASE TurnAborted(s, ok) \/ TurnRaises(s, ok)
  BY <1>2, <1>5, <1>7 DEF TurnAborted, TurnRaises
<1>8. CASE TraceRefused(s, ok)
  <2>1. PICK log \in {obj[o].log, longer}, m \in {"idle", "orphaned"} :
          /\ obj' = [obj EXCEPT ![o].log = log, ![o].busy = FALSE, ![o].inner = m,
                                ![o].abort = IF m = "idle" THEN "none" ELSE obj[o].abort,
                                ![o].saved = ok]
          /\ Locked(obj[o].id, log, ok)
    <3>1. \A log, m : [obj EXCEPT ![o].log = log, ![o].busy = FALSE, ![o].inner = m,
                                  ![o].abort = IF m = "idle" THEN "none" ELSE @,
                                  ![o].saved = ok]
                     = [obj EXCEPT ![o].log = log, ![o].busy = FALSE, ![o].inner = m,
                                  ![o].abort = IF m = "idle" THEN "none" ELSE obj[o].abort,
                                  ![o].saved = ok]
      BY <1>2 DEF TypeOK, Object
    <3> QED
      BY <1>8, <3>1 DEF TraceRefused
  <2>2. Done(o, log, m, IF m = "idle" THEN "none" ELSE obj[o].abort, ok)
    BY <1>4, <2>1
  <2>3. TaskEnds(s, log, ok)
    BY <1>2, <1>8, <2>1, <2>2 DEF TraceRefused, TaskEnds, Inners, Aborts
  <2> QED
    BY <1>2, <1>3, <1>8, <2>1, <2>3 DEF TraceRefused, history
<1>9. CASE BeginRefused(s, ok) \/ BeginStuck(s, ok)
  <2>1. Idle(o, obj[o].inner, obj[o].abort, ok) \/ Idle(o, "stuck", "clear", ok)
    <3>1. CASE BeginRefused(s, ok)
      <4>1. [obj[o] EXCEPT !.saved = ok]
              = [obj[o] EXCEPT !.inner = obj[o].inner, !.abort = obj[o].abort, !.saved = ok]
        BY <1>2 DEF Object
      <4> QED
        BY <1>2, <3>1, <4>1 DEF BeginRefused, Idle, TypeOK
    <3>2. CASE BeginStuck(s, ok)
      BY <1>2, <3>2 DEF BeginStuck, Idle, TypeOK
    <3> QED
      BY <1>9, <3>1, <3>2
  <2>2. TaskEnds(s, obj[o].log, ok)
    BY <1>2, <1>9, <2>1 DEF BeginRefused, BeginStuck, Starts, TaskEnds, Inners, Aborts
  <2> QED
    BY <1>2, <1>9, <2>2 DEF BeginRefused, BeginStuck, history
<1> QED
  BY <1>6, <1>7, <1>8, <1>9 DEF TaskStep, TurnStep, Refused

(* A closed object.                                                          *)
LEMMA ClosedTyped ==
  ASSUME TypeOK, NEW o \in Objects, NEW ok \in BOOLEAN
  PROVE  /\ ClosedObject(o, ok) \in Object
         /\ Aborted(o) # "none" <=> obj[o].abort # "none"
         /\ LET x == ClosedObject(o, ok)
            IN /\ x.id = obj[o].id /\ x.log = obj[o].log /\ x.closed
               /\ x.runtime = "closed" /\ x.acloses = obj[o].acloses + 1
               /\ x.busy = obj[o].busy /\ x.inner = obj[o].inner
               /\ x.abort = Aborted(o) /\ x.connected = obj[o].connected
<1> DEFINE x == obj[o]
           a == Aborted(o)
<1>1. x \in Object /\ a \in {"none", "clear", "set"}
  BY DEF TypeOK, Object, Aborted
<1>2. Aborted(o) # "none" <=> obj[o].abort # "none"
  BY DEF Aborted
<1>3. ClosedObject(o, ok) = [x EXCEPT !.closed = TRUE, !.runtime = "closed", !.abort = a,
                                      !.acloses = x.acloses + 1, !.saved = ok]
  BY DEF ClosedObject
<1> HIDE DEF x, a
<1>4. ClosedObject(o, ok) \in Object
  <2>1. <<>> \in Log /\ "idle" \in {"idle", "running", "orphaned", "stuck"}
    BY DEF Log
  <2>2. [x EXCEPT !.closed = TRUE, !.runtime = "closed", !.abort = a,
                  !.acloses = x.acloses + 1, !.saved = ok] \in Object
    BY <1>1, <2>1, ObjectUpdates, ZenonT(60)
  <2> QED
    BY <1>3, <2>2
<1>5. LET y == ClosedObject(o, ok)
      IN /\ y.id = x.id /\ y.log = x.log /\ y.closed
         /\ y.runtime = "closed" /\ y.acloses = x.acloses + 1
         /\ y.busy = x.busy /\ y.inner = x.inner
         /\ y.abort = a /\ y.connected = x.connected
  BY <1>1, <1>3 DEF Object
<1> QED
  BY <1>2, <1>4, <1>5 DEF x, a

(* The close of an object no turn runs on.                                   *)
LEMMA CloseIdleTyped ==
  ASSUME TypeOK, NEW d \in Deletes, NEW i \in Ids, NEW o \in Objects,
         NEW ok \in BOOLEAN, CloseIdle(d, i, o, ok)
  PROVE  /\ obj' \in [Objects -> Object]
         /\ del' \in [Deletes -> Delete]
         /\ store' \in [Ids -> Log \cup {NoRow}]
         /\ used' \in [turns: 0..MaxTurns, commands: 0..MaxCommands,
                       faults: 0..MaxFaults, crashes: 0..MaxCrashes]
<1>1. obj[o] \in Object /\ obj[o].log \in Log
  BY DEF TypeOK, Object
<1>2. ClosedObject(o, ok) \in Object
  BY ClosedTyped
<1>3. obj' \in [Objects -> Object]
  BY <1>2 DEF CloseIdle, TypeOK
<1>4. del' \in [Deletes -> Delete]
  BY DEF CloseIdle, TypeOK, Delete
<1> QED
  BY <1>1, <1>3, <1>4, TransactionTyped DEF CloseIdle

(* A command that commits, and one whose checkpoint raises.                  *)
LEMMA CommandTyped ==
  ASSUME TypeOK, References, NEW s \in Sockets, NEW grows \in BOOLEAN, NEW ok \in BOOLEAN,
         Command(s, grows, ok)
  PROVE  /\ obj' \in [Objects -> Object]
         /\ sock' \in [Sockets -> Socket]
         /\ store' \in [Ids -> Log \cup {NoRow}]
         /\ used' \in [turns: 0..MaxTurns, commands: 0..MaxCommands,
                       faults: 0..MaxFaults, crashes: 0..MaxCrashes]
<1> DEFINE o == sock[s].obj
           log == LogAfterCommand(o, grows)
           objects == ObjectsAfterCommand(o, grows, ok)
<1>1. /\ o \in Objects /\ obj[o] \in Object /\ obj[o].log \in Log /\ obj[o].id \in Ids
      /\ Aborted(o) \in {"none", "clear", "set"}
  BY Found DEF Command
<1>2. log \in Log
  <2>1. 0 \in 0..MaxTurns
    BY ChatAssumption
  <2>2. \A l \in Log : Append(l, 0) \in Log
    BY <2>1 DEF Log
  <2> QED
    BY <1>1, <2>2 DEF LogAfterCommand
<1>3. objects \in [Objects -> Object]
  <2>1. [obj[o] EXCEPT !.log = log, !.saved = ok] \in Object
    BY <1>1, <1>2, ObjectUpdates
  <2> QED
    BY <1>1, <2>1 DEF TypeOK, ObjectsAfterCommand
<1>4. /\ SocketAfterLeave(s) \in Socket
      /\ ObjectAfterLeave(s, objects) \in [Objects -> Object]
  BY <1>1, <1>3, LeaveTyped DEF TypeOK
<1>5. used' \in [turns: 0..MaxTurns, commands: 0..MaxCommands,
                 faults: 0..MaxFaults, crashes: 0..MaxCrashes]
  <2> DEFINE spent == [used EXCEPT !.commands = used.commands + 1]
  <2>1. /\ spent \in [turns: 0..MaxTurns, commands: 0..MaxCommands,
                      faults: 0..MaxFaults, crashes: 0..MaxCrashes]
        /\ spent.faults = used.faults
    BY ChatAssumption DEF Command, TypeOK
  <2>2. \/ used' = spent
        \/ used.faults < MaxFaults /\ used' = [spent EXCEPT !.faults = used.faults + 1]
    BY <2>1 DEF Command
  <2> HIDE DEF spent
  <2> QED
    BY <2>1, <2>2, ChatAssumption
<1> QED
  BY <1>1, <1>2, <1>3, <1>4, <1>5 DEF Command, TypeOK

(* The sessions that close_all closes are those of different objects: as     *)
(* many as there are objects, or fewer.                                      *)
LEMMA FailingIsFinite ==
  ASSUME TypeOK, References, NEW failing \in SUBSET Ids, CloseAll(failing)
  PROVE  Cardinality(failing) \in Nat
<1> DEFINE f == [i \in failing |-> sessions[i]]
<1>1. \A i \in failing : sessions[i] \in Objects /\ obj[sessions[i]].id = i
  BY DEF CloseAll, Registered, References, TypeOK
<1>2. f \in Injection(failing, Objects)
  BY <1>1 DEF Injection, IsInjective
<1>3. IsFiniteSet(failing)
  BY <1>2, FS_Injection, ChatAssumption
<1> QED
  BY <1>3, FS_CardinalityType

(* Every variable keeps its type through every step.                         *)
LEMMA TypeStep == TypeOK /\ References /\ [Next]_vars => TypeOK'
<1> SUFFICES ASSUME TypeOK, References, [Next]_vars PROVE TypeOK'
  OBVIOUS
<1> USE DEF history
<1>1. CASE UNCHANGED vars
  BY <1>1 DEF vars, TypeOK
<1>2. ASSUME NEW i \in Ids, NEW o \in Objects, Get(i, o)
      PROVE  TypeOK'
  BY <1>2, HydratedTyped DEF Get, TypeOK
<1>3. ASSUME NEW i \in Ids, NEW o \in Objects, NEW ok \in BOOLEAN, Create(i, o, ok)
      PROVE  TypeOK'
  <2>1. <<>> \in Log
    BY DEF Log
  <2>2. obj' \in [Objects -> Object]
    BY <1>3, <2>1, NewObjectTyped DEF Create, TypeOK
  <2> QED
    BY <1>3, <2>1, <2>2, TransactionTyped DEF Create, TypeOK
<1>4. ASSUME NEW s \in Sockets, NEW i \in Ids, NEW o \in Objects, Connect(s, i, o)
      PROVE  TypeOK'
  <2> DEFINE objects == ObjectsAfterGet(i, o)
             x == [objects[o] EXCEPT !.connected = TRUE]
  <2>1. objects \in [Objects -> Object]
    BY <1>4, HydratedTyped DEF Connect
  <2>2. obj' = [objects EXCEPT ![o].connected = TRUE]
    BY <1>4 DEF Connect
  <2>3. objects[o] \in Object
    BY <2>1
  <2> HIDE DEF objects
  <2>4. x \in Object
    BY <2>3, FieldUpdate
  <2>5. obj' = [objects EXCEPT ![o] = x]
    BY <2>2
  <2> HIDE DEF x
  <2>6. obj' \in [Objects -> Object]
    BY <2>1, <2>4, <2>5
  <2>7. sock' \in [Sockets -> Socket]
    BY <1>4, HandlersTyped DEF Connect, TypeOK
  <2> QED
    BY <1>4, <2>6, <2>7 DEF Connect, TypeOK
<1>5. ASSUME NEW s \in Sockets, Prompt(s)
      PROVE  TypeOK'
  <2>1. used' \in [turns: 0..MaxTurns, commands: 0..MaxCommands,
                   faults: 0..MaxFaults, crashes: 0..MaxCrashes]
    BY <1>5, ChatAssumption DEF Prompt, TypeOK
  <2>2. used.turns + 1 \in 0..MaxTurns
    BY <1>5, ChatAssumption DEF Prompt, TypeOK
  <2>3. sock' \in [Sockets -> Socket]
    BY <1>5, <2>2, ZenonT(60) DEF Prompt, TypeOK, Socket
  <2> QED
    BY <1>5, <2>1, <2>3 DEF Prompt, TypeOK
<1>6. ASSUME NEW s \in Sockets, Abort(s)
      PROVE  TypeOK'
  <2>1. sock[s].obj \in Objects
    BY <1>6, Found DEF Abort
  <2>2. obj' \in [Objects -> Object]
    BY <1>6, <2>1, Found, FieldUpdate DEF Abort, TypeOK
  <2> QED
    BY <1>6, <2>2 DEF Abort, TypeOK
<1>7. ASSUME NEW s \in Sockets, Disconnect(s)
      PROVE  TypeOK'
  <2>1. sock[s].obj \in Objects
    BY <1>7, Found DEF Disconnect
  <2> QED
    BY <1>7, <2>1, Found, LeaveTyped DEF Disconnect, TypeOK
<1>8. ASSUME NEW s \in Sockets, Drained(s)
      PROVE  TypeOK'
  BY <1>8, ChatAssumption DEF Drained, TypeOK, Socket, NoSocket
<1>9. ASSUME NEW s \in Sockets, NEW grows \in BOOLEAN, NEW ok \in BOOLEAN,
             Command(s, grows, ok)
      PROVE  TypeOK'
  <2>1. UNCHANGED <<up, sessions, del, created, deleted, gone, acked>>
    BY <1>9 DEF Command
  <2> QED
    BY <1>9, <2>1, CommandTyped DEF TypeOK
<1>10. ASSUME NEW s \in Sockets, BeginTurn(s)
       PROVE  TypeOK'
  <2> DEFINE o == sock[s].obj
  <2>1. o \in Objects
    BY <1>10, Found DEF BeginTurn
  <2>2. sock' \in [Sockets -> Socket]
    BY <1>10 DEF BeginTurn, TypeOK, Socket
  <2>3. [obj[o] EXCEPT !.busy = TRUE, !.inner = "running", !.abort = "clear"] \in Object
    BY <2>1, Found, ObjectUpdates
  <2>4. \/ obj' = obj
        \/ obj' = [obj EXCEPT ![o] = [obj[o] EXCEPT !.busy = TRUE, !.inner = "running",
                                                    !.abort = "clear"]]
    BY <1>10, <2>1 DEF BeginTurn, TypeOK
  <2>5. obj' \in [Objects -> Object]
    BY <2>3, <2>4 DEF TypeOK
  <2> QED
    BY <1>10, <2>2, <2>5 DEF BeginTurn, TypeOK
<1>11. ASSUME NEW s \in Sockets, Progress(s)
       PROVE  TypeOK'
  <2> DEFINE o == sock[s].obj
  <2>1. o \in Objects /\ obj[o].log \in Log /\ sock[s].number \in 0..MaxTurns
    BY <1>11, Found DEF Progress, TypeOK, Socket
  <2>2. Append(obj[o].log, sock[s].number) \in Log
    BY <2>1 DEF Log
  <2>3. [obj[o] EXCEPT !.log = Append(obj[o].log, sock[s].number)] \in Object
    BY <2>1, <2>2, Found, FieldUpdate
  <2> QED
    BY <1>11, <2>3 DEF Progress, TypeOK
<1>12. ASSUME NEW s \in Sockets, NEW ok \in BOOLEAN, TaskStep(s, ok)
       PROVE  TypeOK'
  <2> DEFINE o == sock[s].obj
  <2>1. PICK log \in Log :
          /\ TaskEnds(s, log, ok)
          /\ UNCHANGED <<up, sessions, del, created, deleted, gone>>
          /\ \/ UNCHANGED acked
             \/ acked' = [acked EXCEPT ![obj[o].id] = acked[obj[o].id] \cup {sock[s].number}]
    BY <1>12, TaskStepEnds
  <2>2. sock[s].turn # "none" /\ sock[s].number \in 0..MaxTurns
    BY <2>1 DEF TaskEnds, TypeOK, Socket
  <2>3. obj[o].id \in Ids /\ sock[s].number \in 1..MaxTurns
    BY <2>2, Found DEF References
  <2>4. acked' \in [Ids -> SUBSET (1..MaxTurns)]
    BY <2>1, <2>3 DEF TypeOK
  <2> QED
    BY <2>1, <2>4, TaskEndsTyped DEF TypeOK
<1>13. ASSUME NEW d \in Deletes, NEW i \in Ids, NEW o \in Objects, NEW ok \in BOOLEAN,
              DeleteLive(d, i, o, ok)
       PROVE  TypeOK'
  <2>3. i \in created
    BY <1>13, Nothing DEF DeleteLive, Live, References
  <2>1. CASE obj[o].busy
    <3>1. [obj[o] EXCEPT !.closed = TRUE, !.abort = Aborted(o)] \in Object
      BY Found, ObjectUpdates
    <3>2. obj' = [obj EXCEPT ![o] = [obj[o] EXCEPT !.closed = TRUE, !.abort = Aborted(o)]]
      <4> DEFINE a == Aborted(o)
      <4>1. obj' = [obj EXCEPT ![o].closed = TRUE, ![o].abort = a]
        BY <1>13, <2>1 DEF DeleteLive
      <4> HIDE DEF a
      <4>2. obj' = [obj EXCEPT ![o] = [obj[o] EXCEPT !.closed = TRUE, !.abort = a]]
        BY <4>1 DEF TypeOK
      <4> QED
        BY <4>2 DEF a
    <3>3. del' \in [Deletes -> Delete]
      <4>1. del' = [del EXCEPT ![d] = [phase |-> "waiting", id |-> i, obj |-> o,
                                       failed |-> FALSE]]
        BY <1>13, <2>1 DEF DeleteLive
      <4> QED
        BY <4>1, HandlersTyped DEF TypeOK
    <3> QED
      BY <1>13, <2>1, <2>3, <3>1, <3>2, <3>3 DEF DeleteLive, TypeOK
  <2>2. CASE ~obj[o].busy
    <3>1. CloseIdle(d, i, o, ok)
      BY <1>13, <2>2 DEF DeleteLive
    <3> QED
      BY <1>13, <2>3, <3>1, CloseIdleTyped DEF DeleteLive, TypeOK
  <2> QED
    BY <2>1, <2>2
<1>14. ASSUME NEW d \in Deletes, NEW ok \in BOOLEAN, DeleteResumes(d, ok)
       PROVE  TypeOK'
  <2>1. del[d].id \in Ids /\ del[d].obj \in Objects
    BY <1>14 DEF DeleteResumes, References
  <2> QED
    BY <1>14, <2>1, CloseIdleTyped DEF DeleteResumes, TypeOK
<1>15. ASSUME NEW d \in Deletes, NEW ok \in BOOLEAN, DeleteFinishes(d, ok)
       PROVE  TypeOK'
  <2>1. del[d].id \in Ids
    BY <1>15 DEF DeleteFinishes, References
  <2>3. gone' \subseteq deleted
    BY <1>15 DEF DeleteFinishes, References, TypeOK
  <2>2. del' \in [Deletes -> Delete]
    <3>1. del' = [del EXCEPT ![d] = NoDelete]
      BY <1>15 DEF DeleteFinishes
    <3> QED
      BY <3>1, HandlersTyped DEF TypeOK
  <2>4. /\ store' \in [Ids -> Log \cup {NoRow}]
        /\ used' \in [turns: 0..MaxTurns, commands: 0..MaxCommands,
                      faults: 0..MaxFaults, crashes: 0..MaxCrashes]
    <3>1. CASE del[d].failed
      BY <1>15, <3>1 DEF DeleteFinishes, TypeOK
    <3>2. CASE ~del[d].failed
      BY <1>15, <2>1, <3>2, TransactionTyped DEF DeleteFinishes
    <3> QED
      BY <3>1, <3>2
  <2> QED
    BY <1>15, <2>2, <2>3, <2>4 DEF DeleteFinishes, TypeOK
<1>16. ASSUME NEW i \in Ids, NEW ok \in BOOLEAN, DeleteStored(i, ok)
       PROVE  TypeOK'
  BY <1>16, TransactionTyped, SMTT(30) DEF DeleteStored, TypeOK
<1>17. ASSUME NEW failing \in SUBSET Ids, CloseAll(failing)
       PROVE  TypeOK'
  <2>1. Cardinality(failing) \in Nat
    BY <1>17, FailingIsFinite
  <2>2. used' \in [turns: 0..MaxTurns, commands: 0..MaxCommands,
                   faults: 0..MaxFaults, crashes: 0..MaxCrashes]
    <3>1. used.faults + Cardinality(failing) \in 0..MaxFaults
      BY <1>17, <2>1, ChatAssumption DEF CloseAll, TypeOK
    <3> QED
      BY <1>17, <3>1 DEF CloseAll, TypeOK
  <2>3. ASSUME NEW o \in Objects
        PROVE  ClosedObject(o, obj[o].id \notin failing) \in Object
    BY ClosedTyped
  <2>4. obj' \in [Objects -> Object]
    BY <1>17, <2>3, Found DEF CloseAll
  <2>5. \A i \in Registered : obj[sessions[i]].log \in Log
    BY Found DEF Registered, TypeOK
  <2>6. store' \in [Ids -> Log \cup {NoRow}]
    BY <1>17, <2>5 DEF CloseAll, TypeOK
  <2> QED
    <3>1. sessions' \in [Ids -> Objects \cup {None}] /\ up' \in BOOLEAN
      BY <1>17 DEF CloseAll
    <3> QED
      BY <1>17, <2>2, <2>4, <2>6, <3>1 DEF CloseAll, TypeOK
<1>19. ASSUME NEW o \in Objects, Finalize(o)
       PROVE  TypeOK'
  <2>1. [obj[o] EXCEPT !.inner = "idle", !.abort = "none"] \in Object
    BY Found, ObjectUpdates
  <2>2. obj' = [obj EXCEPT ![o] = [obj[o] EXCEPT !.inner = "idle", !.abort = "none"]]
    BY <1>19 DEF Finalize, TypeOK
  <2> QED
    BY <1>19, <2>1, <2>2 DEF Finalize, TypeOK
<1>18. CASE Crash \/ Restart
  <2>1. NoObject \in Object
    <3>1. <<>> \in Log
      BY DEF Log
    <3> QED
      BY <3>1, NewObjectTyped DEF NoObject
  <2>2. NoSocket \in Socket /\ NoDelete \in Delete
    BY ChatAssumption DEF NoSocket, Socket, NoDelete, Delete
  <2>3. used' \in [turns: 0..MaxTurns, commands: 0..MaxCommands,
                   faults: 0..MaxFaults, crashes: 0..MaxCrashes]
    BY <1>18, ChatAssumption DEF Crash, Restart, TypeOK
  <2> QED
    BY <1>18, <2>1, <2>2, <2>3 DEF Crash, Restart, TypeOK
<1> QED
  BY <1>1, <1>2, <1>3, <1>4, <1>5, <1>6, <1>7, <1>8, <1>9, <1>10, <1>11, <1>12,
     <1>13, <1>14, <1>15, <1>16, <1>17, <1>18, <1>19 DEF Next, DeleteStep, TaskStep

-----------------------------------------------------------------------------
(* Every task that runs, and every live session, needs a process; a closed   *)
(* object that is still there is one a DELETE took.                          *)
InProcess ==
  /\ ~up => /\ \A s \in Sockets : sock[s].phase = "off"
            /\ \A d \in Deletes : del[d].phase = "off"
            /\ \A i \in Ids : sessions[i] = None
  /\ up => \A o \in Objects : obj[o].closed => obj[o].id \in deleted

(* The map holds exactly the objects that are not closed.                    *)
Registry ==
  /\ \A i \in Ids : sessions[i] # None => ~obj[sessions[i]].closed
  /\ \A o \in Objects :
       /\ obj[o].id # None /\ ~obj[o].closed => sessions[obj[o].id] = o
       /\ obj[o].id = None => ~obj[o].closed

(* A closing object is closed by one DELETE, which finds the runtime open if *)
(* it had to wait.                                                           *)
OneCloser ==
  /\ \A d \in Deletes :
       /\ del[d].phase # "off" => obj[del[d].obj].closed
       /\ del[d].phase = "waiting" => obj[del[d].obj].runtime = "open"
  /\ \A d, e \in Deletes : del[d].phase # "off" /\ del[d].obj = del[e].obj => d = e

RuntimeOpen ==
  \A o \in Objects :
    /\ obj[o].acloses = IF obj[o].runtime = "closed" THEN 1 ELSE 0
    /\ obj[o].runtime = "closed" => obj[o].closed /\ ~obj[o].busy

(* The flags of an object tell whether a connection is attached and whether  *)
(* a turn runs, which is the one mini has active, with its abort event, and  *)
(* there is at most one of each.                                             *)
AttachedTo(s, o) == sock[s].phase = "open" /\ sock[s].obj = o
RunsOn(s, o) == sock[s].turn = "running" /\ sock[s].obj = o
Flags ==
  /\ \A o \in Objects :
       /\ obj[o].connected <=> \E s \in Sockets : AttachedTo(s, o)
       /\ obj[o].busy <=> \E s \in Sockets : RunsOn(s, o)
       /\ obj[o].inner = "running" <=> obj[o].busy
       /\ obj[o].abort # "none" <=> obj[o].inner # "idle"
  /\ \A o \in Objects, s, t \in Sockets :
       /\ AttachedTo(s, o) /\ AttachedTo(t, o) => s = t
       /\ RunsOn(s, o) /\ RunsOn(t, o) => s = t

(* Turn numbers are handed out once, and until a turn is over nothing but    *)
(* the log of its own object has its number.                                 *)
Numbers ==
  /\ \A o \in Objects : ToSet(obj[o].log) \subseteq 0..used.turns
  /\ \A i \in Ids : store[i] # NoRow => ToSet(store[i]) \subseteq 0..used.turns
  /\ \A s \in Sockets : sock[s].turn # "none" =>
       /\ sock[s].number \in 1..used.turns
       /\ \A t \in Sockets :
            sock[t].turn # "none" /\ sock[t].number = sock[s].number => s = t
       /\ \A i \in Ids : store[i] # NoRow => sock[s].number \notin ToSet(store[i])
       /\ \A o \in Objects : ~RunsOn(s, o) => sock[s].number \notin ToSet(obj[o].log)

(* When no turn runs, the row is the live log, unless the checkpoint raised. *)
Settled ==
  \A i \in Kept :
    sessions[i] # None /\ ~obj[sessions[i]].busy /\ obj[sessions[i]].saved
      => store[i] = obj[sessions[i]].log

(* The row of a session is a beginning of its live log and has every turn    *)
(* that was reported.                                                        *)
Durable ==
  \A i \in Ids :
    /\ i \notin created => store[i] = NoRow /\ acked[i] = {}
    /\ i \notin deleted =>
         /\ store[i] = NoRow => acked[i] = {}
         /\ store[i] # NoRow =>
              /\ acked[i] \subseteq ToSet(store[i])
              /\ sessions[i] # None => IsPrefix(store[i], obj[sessions[i]].log)


Inv == /\ TypeOK /\ References /\ InProcess /\ Registry /\ OneCloser /\ RuntimeOpen
       /\ Flags /\ Numbers /\ Settled /\ Durable

(* What the steps do to a log.                                               *)
LEMMA SeqFacts ==
  ASSUME NEW S
  PROVE  /\ ToSet(<<>>) = {}
         /\ \A l \in Seq(S), x \in S : /\ ToSet(Append(l, x)) = ToSet(l) \cup {x}
                                       /\ IsPrefix(l, Append(l, x))
         /\ \A l \in Seq(S) : IsPrefix(<<>>, l) /\ IsPrefix(l, l)
         /\ \A l, m \in Seq(S) : IsPrefix(l, m) => ToSet(l) \subseteq ToSet(m)
         /\ \A l, m, n \in Seq(S) : IsPrefix(l, m) /\ IsPrefix(m, n) => IsPrefix(l, n)
<1>1. ASSUME NEW l \in Seq(S), NEW m \in Seq(S)
      PROVE  IsPrefix(l, m) <=> Len(l) <= Len(m) /\ \A k \in 1..Len(l) : l[k] = m[k]
  <2>1. ASSUME Len(l) <= Len(m)
        PROVE  /\ SubSeq(l, 1, Len(l)) \in Seq(S) /\ SubSeq(m, 1, Len(l)) \in Seq(S)
               /\ Len(SubSeq(l, 1, Len(l))) = Len(l) /\ Len(SubSeq(m, 1, Len(l))) = Len(l)
               /\ \A k \in 1..Len(l) : /\ SubSeq(l, 1, Len(l))[k] = l[k]
                                       /\ SubSeq(m, 1, Len(l))[k] = m[k]
    BY <2>1
  <2> QED
    BY <2>1 DEF IsPrefix
<1>2. ToSet(<<>>) = {}
  BY DEF ToSet
<1>3. ASSUME NEW l \in Seq(S), NEW x \in S
      PROVE  ToSet(Append(l, x)) = ToSet(l) \cup {x} /\ IsPrefix(l, Append(l, x))
  <2>1. /\ Append(l, x) \in Seq(S) /\ Len(Append(l, x)) = Len(l) + 1
        /\ \A k \in 1..Len(l) : Append(l, x)[k] = l[k]
        /\ Append(l, x)[Len(l) + 1] = x
    OBVIOUS
  <2>2. IsPrefix(l, Append(l, x))
    <3> DEFINE m == Append(l, x)
    <3>1. m \in Seq(S) /\ Len(l) <= Len(m) /\ \A k \in 1..Len(l) : l[k] = m[k]
      BY <2>1
    <3> HIDE DEF m
    <3>2. IsPrefix(l, m)
      BY <1>1, <3>1
    <3> QED
      BY <3>2 DEF m
  <2>3. ToSet(Append(l, x)) = ToSet(l) \cup {x}
    BY <2>1 DEF ToSet
  <2> QED
    BY <2>2, <2>3
<1>4. \A l \in Seq(S) : IsPrefix(<<>>, l) /\ IsPrefix(l, l)
  <2>1. <<>> \in Seq(S) /\ Len(<<>>) = 0
    OBVIOUS
  <2>2. ASSUME NEW l \in Seq(S) PROVE IsPrefix(<<>>, l)
    <3> DEFINE e == <<>>
    <3>1. e \in Seq(S) /\ Len(e) <= Len(l) /\ \A k \in 1..Len(e) : e[k] = l[k]
      <4>1. Len(l) \in Nat /\ 1..Len(e) = {}
        BY <2>1
      <4> QED
        BY <2>1, <4>1
    <3> HIDE DEF e
    <3>2. IsPrefix(e, l)
      BY <1>1, <3>1
    <3> QED
      BY <3>2 DEF e
  <2> QED
    BY <1>1, <2>2
<1>5. \A l, m \in Seq(S) : IsPrefix(l, m) => ToSet(l) \subseteq ToSet(m)
  BY <1>1 DEF ToSet
<1>6. \A l, m, n \in Seq(S) : IsPrefix(l, m) /\ IsPrefix(m, n) => IsPrefix(l, n)
  BY <1>1
<1> QED
  BY <1>2, <1>3, <1>4, <1>5, <1>6

(* The same for logs.                                                        *)
LEMMA LogFacts ==
  /\ <<>> \in Log /\ ToSet(<<>>) = {} /\ 0 \in 0..MaxTurns
  /\ \A l \in Log, x \in 0..MaxTurns :
       /\ Append(l, x) \in Log /\ IsPrefix(l, Append(l, x))
       /\ ToSet(Append(l, x)) = ToSet(l) \cup {x}
  /\ \A l \in Log : IsPrefix(<<>>, l) /\ IsPrefix(l, l)
  /\ \A l, m \in Log : IsPrefix(l, m) => ToSet(l) \subseteq ToSet(m)
  /\ \A l, m, n \in Log : IsPrefix(l, m) /\ IsPrefix(m, n) => IsPrefix(l, n)
<1>1. 0 \in 0..MaxTurns
  BY ChatAssumption
<1>2. /\ <<>> \in Log
      /\ \A l \in Log, x \in 0..MaxTurns : Append(l, x) \in Log
  BY DEF Log
<1> QED
  BY <1>1, <1>2, SeqFacts DEF Log

(* Where the invariant finds the objects its parts talk about.               *)
LEMMA Places ==
  ASSUME TypeOK, References
  PROVE  /\ \A i \in Ids : sessions[i] # None =>
              sessions[i] \in Objects /\ obj[sessions[i]].id = i
         /\ \A s \in Sockets : sock[s].phase # "off" \/ sock[s].turn # "none" =>
              /\ sock[s].phase # "off" /\ sock[s].obj \in Objects
              /\ obj[sock[s].obj].id \in Ids
         /\ \A d \in Deletes : del[d].phase # "off" =>
              /\ del[d].obj \in Objects /\ del[d].id \in Ids \cap deleted
              /\ obj[del[d].obj].id = del[d].id
         /\ \A o \in Objects : obj[o].id \in Ids \cup {None} /\ obj[o].log \in Log
<1>1. \A i \in Ids : sessions[i] # None =>
        sessions[i] \in Objects /\ obj[sessions[i]].id = i
  BY DEF TypeOK, References
<1>2. \A o \in Objects : obj[o].id \in Ids \cup {None} /\ obj[o].log \in Log
  BY DEF TypeOK, Object
<1>3. \A s \in Sockets : sock[s].phase # "off" \/ sock[s].turn # "none" =>
        /\ sock[s].phase # "off" /\ sock[s].obj \in Objects
        /\ obj[sock[s].obj].id \in Ids
  BY <1>2 DEF References
<1>4. \A d \in Deletes : del[d].phase # "off" =>
        /\ del[d].obj \in Objects /\ del[d].id \in Ids \cap deleted
        /\ obj[del[d].obj].id = del[d].id
  BY DEF References
<1> QED
  BY <1>1, <1>2, <1>3, <1>4

(* What a step leaves alone: the other connections, requests and rows, the   *)
(* identity and the closing of the objects, what they have stored, whether   *)
(* they run a turn and whether a connection is attached.                     *)
OnlySocket(s) == \A t \in Sockets \ {s} : sock'[t] = sock[t]
OnlyDelete(d) == \A e \in Deletes \ {d} : del'[e] = del[e]
OnlyRow(i) == \A j \in Ids \ {i} : store'[j] = store[j]
OnlyObject(o) == \A p \in Objects \ {o} : obj'[p] = obj[p]
SameLife(p) ==
  /\ obj'[p].id = obj[p].id /\ (obj'[p].closed <=> obj[p].closed)
  /\ obj'[p].runtime = obj[p].runtime /\ obj'[p].acloses = obj[p].acloses
SameLog(p) == obj'[p].log = obj[p].log /\ (obj'[p].saved <=> obj[p].saved)
SameTurn(p) ==
  /\ (obj'[p].busy <=> obj[p].busy) /\ obj'[p].inner = obj[p].inner
  /\ obj'[p].abort # "none" <=> obj[p].abort # "none"
SameConnection(p) == obj'[p].connected <=> obj[p].connected
SameLives == \A p \in Objects : SameLife(p)
SameLogs == \A p \in Objects : SameLog(p)
SameTurns == \A p \in Objects : SameTurn(p)
SameConnected == \A p \in Objects : SameConnection(p)

(* A step that writes one object leaves of all what it leaves of that one.   *)
LEMMA OneObject ==
  ASSUME NEW o \in Objects, OnlyObject(o)
  PROVE  /\ SameLife(o) => SameLives
         /\ SameLog(o) => SameLogs
         /\ SameTurn(o) => SameTurns
         /\ SameConnection(o) => SameConnected
  BY DEF OnlyObject, SameLives, SameLogs, SameTurns, SameConnected,
         SameLife, SameLog, SameTurn, SameConnection

(* What the finally of chat_stream does.                                     *)
SocketLeft(s) ==
  /\ OnlySocket(s) /\ sock'[s].turn = sock[s].turn
  /\ \/ sock'[s].phase = "off" /\ sock'[s].turn = "none" /\ sock'[s].obj = None
     \/ /\ sock'[s].phase = "draining" /\ sock[s].turn # "none"
        /\ sock'[s].obj = sock[s].obj /\ sock'[s].number = sock[s].number
Leaves(s) ==
  /\ SocketLeft(s)
  /\ \A p \in Objects : obj'[p].connected <=> obj[p].connected /\ p # sock[s].obj

LeftAs(p, objects, s) ==
  /\ obj'[p].id = objects[p].id /\ (obj'[p].closed <=> objects[p].closed)
  /\ obj'[p].runtime = objects[p].runtime /\ obj'[p].acloses = objects[p].acloses
  /\ obj'[p].log = objects[p].log /\ (obj'[p].saved <=> objects[p].saved)
  /\ (obj'[p].busy <=> objects[p].busy) /\ obj'[p].inner = objects[p].inner
  /\ obj'[p].abort # "none" <=> objects[p].abort # "none"
  /\ obj'[p].connected <=> objects[p].connected /\ p # sock[s].obj
(* The finally of chat_stream detaches, and at most sets an abort event that *)
(* is there.                                                                 *)
LEMMA LeaveFields ==
  ASSUME NEW s \in Sockets, NEW objects \in [Objects -> Object], sock[s].obj \in Objects,
         objects[sock[s].obj].abort = obj[sock[s].obj].abort,
         obj' = ObjectAfterLeave(s, objects), NEW p \in Objects
  PROVE  LeftAs(p, objects, s)
<1> DEFINE o == sock[s].obj
           a == IF sock[s].turn = "none" THEN objects[o].abort ELSE Aborted(o)
<1>1. a # "none" <=> objects[o].abort # "none"
  BY DEF Aborted
<1> DEFINE detached == [objects EXCEPT ![o].connected = FALSE]
<1>2. detached[o].abort = objects[o].abort
  BY DEF Object
<1>3. ObjectAfterLeave(s, objects) = [detached EXCEPT ![o].abort = a]
  BY <1>2 DEF ObjectAfterLeave
<1> HIDE DEF a
<1>4. /\ p # o => obj'[p] = objects[p]
      /\ p = o => obj'[p] = [objects[o] EXCEPT !.connected = FALSE, !.abort = a]
  BY <1>3
<1>5. objects[p] \in Object
  OBVIOUS
<1> HIDE DEF detached
<1>6. CASE p # o
  BY <1>4, <1>6 DEF LeftAs
<1>7. CASE p = o
  <2>1. \A x \in Object : LET y == [x EXCEPT !.connected = FALSE, !.abort = a] IN
          /\ y.id = x.id /\ y.closed = x.closed /\ y.runtime = x.runtime
          /\ y.acloses = x.acloses /\ y.log = x.log /\ y.saved = x.saved
          /\ y.busy = x.busy /\ y.inner = x.inner /\ y.connected = FALSE /\ y.abort = a
    BY DEF Object
  <2>2. obj'[p] = [objects[p] EXCEPT !.connected = FALSE, !.abort = a]
    BY <1>4, <1>7
  <2> QED
    BY <1>1, <1>5, <1>7, <2>1, <2>2 DEF LeftAs
<1> QED
  BY <1>6, <1>7

(* The object of a task is the one in the map, unless a DELETE has taken it. *)
LEMMA LiveObject ==
  ASSUME Inv, NEW o \in Objects, obj[o].id \in Ids \ deleted,
         up \/ \E s \in Sockets : sock[s].phase # "off"
  PROVE  up /\ ~obj[o].closed /\ sessions[obj[o].id] = o
<1>1. up
  BY DEF Inv, InProcess
<1>2. obj[o].id # None
  BY Nothing
<1> QED
  BY <1>1, <1>2 DEF Inv, InProcess, Registry

(* A new object takes the place of one nothing refers to.                    *)
OnlySession(i) == \A j \in Ids \ {i} : sessions'[j] = sessions[j]
Fresh(o, i, log) ==
  /\ obj'[o].id = i /\ obj'[o].log = log /\ ~obj'[o].busy /\ ~obj'[o].closed
  /\ obj'[o].runtime = "open" /\ obj'[o].acloses = 0
  /\ obj'[o].inner = "idle" /\ obj'[o].abort = "none"

(* A close of an object no turn runs on, by a DELETE.                        *)
Shuts(d, i, o, ok) ==
  /\ OnlyObject(o) /\ SameTurn(o) /\ SameConnection(o)
  /\ obj'[o].id = obj[o].id /\ obj'[o].log = obj[o].log /\ obj'[o].closed
  /\ obj'[o].runtime = "closed" /\ obj'[o].acloses = obj[o].acloses + 1
  /\ OnlyDelete(d) /\ del'[d].phase = "closing" /\ del'[d].id = i /\ del'[d].obj = o
  /\ \/ ok /\ OnlyRow(i) /\ store'[i] = obj[o].log
     \/ ~ok /\ UNCHANGED store
  /\ used'.turns = used.turns

(* ChatSession.close, once no turn runs, does that.                          *)
LEMMA CloseIdleShuts ==
  ASSUME TypeOK, NEW d \in Deletes, NEW i \in Ids, NEW o \in Objects,
         NEW ok \in BOOLEAN, CloseIdle(d, i, o, ok)
  PROVE  Shuts(d, i, o, ok)
<1>1. /\ OnlyObject(o) /\ obj[o] \in Object
      /\ obj'[o] = [obj[o] EXCEPT !.closed = TRUE, !.runtime = "closed",
                                  !.abort = Aborted(o), !.acloses = obj[o].acloses + 1,
                                  !.saved = ok]
      /\ Aborted(o) # "none" <=> obj[o].abort # "none"
  BY DEF TypeOK, CloseIdle, ClosedObject, OnlyObject, Aborted
<1>2. /\ obj'[o].id = obj[o].id /\ obj'[o].log = obj[o].log /\ obj'[o].closed
      /\ obj'[o].runtime = "closed" /\ obj'[o].acloses = obj[o].acloses + 1
      /\ SameTurn(o) /\ SameConnection(o)
  BY <1>1 DEF Object, SameTurn, SameConnection
<1>3. OnlyDelete(d) /\ del'[d].phase = "closing" /\ del'[d].id = i /\ del'[d].obj = o
  BY DEF TypeOK, CloseIdle, OnlyDelete
<1>4. /\ \/ ok /\ OnlyRow(i) /\ store'[i] = obj[o].log
         \/ ~ok /\ UNCHANGED store
      /\ used'.turns = used.turns
  BY DEF TypeOK, CloseIdle, Transaction, OnlyRow
<1> QED
  BY <1>1, <1>2, <1>3, <1>4 DEF Shuts

(* What the steps do to the promise of Conversation.                         *)
Serves == [Served!Next]_(Served!vars)
SameView(i) == /\ Shown(i)' = Shown(i) /\ (i \in deleted' <=> i \in deleted)
               /\ i \notin deleted => acked'[i] = acked[i]

(* The promise reads logs as this module does.                               *)
LEMMA SameOperators ==
  /\ \A l, m : Served!IsPrefix(l, m) <=> IsPrefix(l, m)
  /\ \A l : Served!ToSet(l) = ToSet(l)
  BY DEF Served!IsPrefix, IsPrefix, Served!ToSet, ToSet

(* A step no client can see.                                                 *)
LEMMA ViewKept ==
  ASSUME UNCHANGED up, deleted' = deleted, \A i \in Ids : SameView(i)
  PROVE  Serves
<1>1. [i \in Ids |-> Shown(i)]' = [i \in Ids |-> Shown(i)]
  BY DEF SameView
<1>2. [i \in Ids |-> IF i \in deleted THEN {} ELSE acked[i]]'
        = [i \in Ids |-> IF i \in deleted THEN {} ELSE acked[i]]
  BY DEF SameView
<1> QED
  BY <1>1, <1>2 DEF Serves, Served!vars

(* A step that adds to one conversation.                                     *)
LEMMA ViewGrows ==
  ASSUME UNCHANGED up, up, deleted' = deleted, NEW i \in Ids \ deleted,
         \A j \in Ids \ {i} : SameView(j),
         Shown(i)' # NoRow, Shown(i) # NoRow => IsPrefix(Shown(i), Shown(i)'),
         acked[i] \subseteq acked'[i],
         acked'[i] \subseteq acked[i] \cup ToSet(Shown(i)')
  PROVE  Serves
<1>1. Served!Talk(i)
  BY SameOperators DEF Served!Talk, Served!Others, Served!Exists, SameView
<1> QED
  BY <1>1 DEF Serves, Served!Next

(* A step that takes one conversation away.                                  *)
LEMMA ViewWithdrawn ==
  ASSUME UNCHANGED up, up, NEW i \in Ids, deleted' = deleted \cup {i},
         \A j \in Ids \ {i} : SameView(j)
  PROVE  Serves
<1>1. Shown(i)' = NoRow
  BY DEF Shown
<1>2. Served!Withdraw(i)
  BY <1>1 DEF Served!Withdraw, Served!Others, SameView
<1> QED
  BY <1>2 DEF Serves, Served!Next

(* A step that stops the server.                                             *)
LEMMA ViewShortened ==
  ASSUME up, ~up', UNCHANGED <<acked, deleted>>,
         \A i \in Ids \ deleted :
           \/ /\ Shown(i) # NoRow /\ Shown(i)' # NoRow
              /\ IsPrefix(Shown(i)', Shown(i)) /\ acked[i] \subseteq ToSet(Shown(i)')
           \/ Shown(i)' = NoRow /\ acked[i] = {}
  PROVE  Serves
<1>1. \A i \in Ids \cap deleted : Shown(i)' = NoRow
  BY DEF Shown
<1>2. Served!Stop
  BY <1>1, SameOperators DEF Served!Stop, Served!Exists
<1> QED
  BY <1>2 DEF Serves, Served!Next

(* A prompt gets the next turn number.                                       *)
LEMMA PromptKeeps ==
  ASSUME Inv, TypeOK', NEW s \in Sockets, Prompt(s)
  PROVE  Inv' /\ Serves
<1>1. /\ OnlySocket(s) /\ sock'[s].phase = "open" /\ sock[s].phase = "open"
      /\ sock'[s].obj = sock[s].obj /\ sock[s].turn = "none" /\ sock'[s].turn = "created"
      /\ sock'[s].number = used.turns + 1 /\ used'.turns = used.turns + 1
      /\ used.turns \in Nat
      /\ \A t \in Sockets : sock[t].number \in Nat
      /\ UNCHANGED <<up, sessions, obj, store, del, created, deleted, gone, acked>>
  BY DEF Inv, TypeOK, Socket, Prompt, history, OnlySocket
<1>2. References'
BY <1>1, Places DEF Inv, References, OnlySocket
<1>3. InProcess'
BY <1>1, Places DEF Inv, InProcess, OnlySocket
<1>4. Registry'
BY <1>1, Places DEF Inv, Registry, OnlySocket
<1>5. OneCloser'
BY <1>1, Places DEF Inv, OneCloser, OnlySocket
<1>6. RuntimeOpen'
BY <1>1, Places DEF Inv, RuntimeOpen, OnlySocket
<1>7. Flags'
BY <1>1, Places DEF Inv, Flags, AttachedTo, RunsOn, OnlySocket
<1>8. Numbers'
BY <1>1, Places DEF Inv, Numbers, RunsOn, OnlySocket
<1>9. Settled'
BY <1>1, Places DEF Inv, Settled, Kept, OnlySocket
<1>10. Durable'
BY <1>1, Places DEF Inv, Durable, OnlySocket
<1>11. Serves
  <2>1. \A j \in Ids : SameView(j)
BY <1>1, Nothing, Places DEF Inv, SameView, Shown, OnlySocket
  <2> QED
    BY <1>1, <2>1, ViewKept
<1> QED
  BY <1>2, <1>3, <1>4, <1>5, <1>6, <1>7, <1>8, <1>9, <1>10, <1>11 DEF Inv

(* An abort.                                                                 *)
LEMMA AbortKeeps ==
  ASSUME Inv, TypeOK', NEW s \in Sockets, Abort(s)
  PROVE  Inv' /\ Serves
<1>1. /\ SameLives /\ SameLogs /\ SameTurns /\ SameConnected
      /\ UNCHANGED <<up, sessions, store, sock, del, used, created, deleted, gone, acked>>
  <2> DEFINE o == sock[s].obj
  <2>1. o \in Objects
    BY Places DEF Inv, Abort
  <2>2. \A p \in Objects \ {o} : obj'[p] = obj[p]
    BY <2>1 DEF Inv, TypeOK, Abort
  <2>3. /\ obj'[o] = [obj[o] EXCEPT !.abort = Aborted(o)] /\ obj[o] \in Object
        /\ Aborted(o) # "none" <=> obj[o].abort # "none"
    BY <2>1 DEF Inv, TypeOK, Abort, Aborted
  <2> QED
    BY <2>1, <2>2, <2>3
       DEF Abort, history, Object, SameLives, SameLogs, SameTurns, SameConnected,
          SameLife, SameLog, SameTurn, SameConnection
<1>2. References'
BY <1>1, Places DEF Inv, References, SameLives, SameLogs, SameTurns, SameConnected,
     SameLife, SameLog, SameTurn, SameConnection
<1>3. InProcess'
BY <1>1, Places DEF Inv, InProcess, SameLives, SameLogs, SameTurns, SameConnected,
     SameLife, SameLog, SameTurn, SameConnection
<1>4. Registry'
BY <1>1, Places DEF Inv, Registry, SameLives, SameLogs, SameTurns, SameConnected,
     SameLife, SameLog, SameTurn, SameConnection
<1>5. OneCloser'
BY <1>1, Places DEF Inv, OneCloser, SameLives, SameLogs, SameTurns, SameConnected,
     SameLife, SameLog, SameTurn, SameConnection
<1>6. RuntimeOpen'
BY <1>1, Places DEF Inv, RuntimeOpen, SameLives, SameLogs, SameTurns, SameConnected,
     SameLife, SameLog, SameTurn, SameConnection
<1>7. Flags'
BY <1>1, Places DEF Inv, Flags, AttachedTo, RunsOn, SameLives, SameLogs, SameTurns,
     SameConnected, SameLife, SameLog, SameTurn, SameConnection
<1>8. Numbers'
BY <1>1, Places DEF Inv, Numbers, RunsOn, SameLives, SameLogs, SameTurns,
     SameConnected, SameLife, SameLog, SameTurn, SameConnection
<1>9. Settled'
BY <1>1, Places DEF Inv, Settled, Kept, SameLives, SameLogs, SameTurns,
     SameConnected, SameLife, SameLog, SameTurn, SameConnection
<1>10. Durable'
BY <1>1, Places DEF Inv, Durable, SameLives, SameLogs, SameTurns, SameConnected,
     SameLife, SameLog, SameTurn, SameConnection
<1>11. Serves
  <2>1. \A j \in Ids : SameView(j)
BY <1>1, Nothing, Places DEF Inv, SameView, Shown, SameLives, SameLogs, SameTurns,
       SameConnected, SameLife, SameLog, SameTurn, SameConnection
  <2> QED
    BY <1>1, <2>1, ViewKept
<1> QED
  BY <1>2, <1>3, <1>4, <1>5, <1>6, <1>7, <1>8, <1>9, <1>10, <1>11 DEF Inv

(* The end of an orphaned generator.                                         *)
LEMMA FinalizeKeeps ==
  ASSUME Inv, TypeOK', NEW o \in Objects, Finalize(o)
  PROVE  Inv' /\ Serves
<1>1. /\ SameLives /\ SameLogs /\ SameConnected /\ OnlyObject(o)
      /\ ~obj[o].busy /\ ~obj'[o].busy
      /\ obj'[o].inner = "idle" /\ obj'[o].abort = "none"
      /\ UNCHANGED <<up, sessions, store, sock, del, used, created, deleted, gone, acked>>
  <2>1. /\ OnlyObject(o) /\ obj[o] \in Object
        /\ obj'[o] = [obj[o] EXCEPT !.inner = "idle", !.abort = "none"]
    BY DEF Inv, TypeOK, Finalize, OnlyObject
  <2>2. /\ SameLife(o) /\ SameLog(o) /\ SameConnection(o) /\ obj'[o].busy = obj[o].busy
        /\ obj'[o].inner = "idle" /\ obj'[o].abort = "none"
    BY <2>1 DEF Object, SameLife, SameLog, SameConnection
  <2>3. ~obj[o].busy
    BY DEF Inv, Flags, Finalize
  <2> QED
    BY <2>1, <2>2, <2>3, OneObject DEF Finalize, history
<1>0. \A p \in Objects : obj'[p].busy <=> obj[p].busy
  BY <1>1 DEF OnlyObject
<1>2. References'
  BY <1>0, <1>1, Places DEF Inv, References, OnlyObject, SameLives, SameLogs,
     SameConnected, SameLife, SameLog, SameConnection
<1>3. InProcess'
  BY <1>0, <1>1, Places DEF Inv, InProcess, OnlyObject, SameLives, SameLogs,
     SameConnected, SameLife, SameLog, SameConnection
<1>4. Registry'
  BY <1>0, <1>1, Places DEF Inv, Registry, OnlyObject, SameLives, SameLogs,
     SameConnected, SameLife, SameLog, SameConnection
<1>5. OneCloser'
  BY <1>0, <1>1, Places DEF Inv, OneCloser, OnlyObject, SameLives, SameLogs,
     SameConnected, SameLife, SameLog, SameConnection
<1>6. RuntimeOpen'
  BY <1>0, <1>1, Places DEF Inv, RuntimeOpen, OnlyObject, SameLives, SameLogs,
     SameConnected, SameLife, SameLog, SameConnection
<1>7. Flags'
  BY <1>0, <1>1, Places DEF Inv, Flags, AttachedTo, RunsOn, OnlyObject, SameLives, SameLogs,
     SameConnected, SameLife, SameLog, SameConnection
<1>8. Numbers'
  BY <1>0, <1>1, Places DEF Inv, Numbers, RunsOn, OnlyObject, SameLives, SameLogs,
     SameConnected, SameLife, SameLog, SameConnection
<1>9. Settled'
  BY <1>0, <1>1, Places DEF Inv, Settled, Kept, OnlyObject, SameLives, SameLogs,
     SameConnected, SameLife, SameLog, SameConnection
<1>10. Durable'
  BY <1>0, <1>1, Places DEF Inv, Durable, OnlyObject, SameLives, SameLogs,
     SameConnected, SameLife, SameLog, SameConnection
<1>11. Serves
  <2>1. \A j \in Ids : SameView(j)
    BY <1>1, Nothing, Places DEF Inv, SameView, Shown, SameLogs, SameLog
  <2> QED
    BY <1>1, <2>1, ViewKept
<1> QED
  BY <1>2, <1>3, <1>4, <1>5, <1>6, <1>7, <1>8, <1>9, <1>10, <1>11 DEF Inv

(* A disconnection.                                                          *)
LEMMA DisconnectKeeps ==
  ASSUME Inv, TypeOK', NEW s \in Sockets, Disconnect(s)
  PROVE  Inv' /\ Serves
<1>1. /\ sock[s].phase = "open" /\ Leaves(s)
      /\ SameLives /\ SameLogs /\ SameTurns
      /\ UNCHANGED <<up, sessions, store, del, used, created, deleted, gone, acked>>
  <2> DEFINE o == sock[s].obj
  <2>1. o \in Objects /\ sock[s].phase = "open"
    BY Places DEF Inv, Disconnect
  <2>2. obj \in [Objects -> Object] /\ obj' = ObjectAfterLeave(s, obj)
    BY DEF Inv, TypeOK, Disconnect
  <2>3. \A p \in Objects : LeftAs(p, obj, s)
    BY <2>1, <2>2, LeaveFields
  <2>4. /\ SameLives /\ SameLogs /\ SameTurns
        /\ \A p \in Objects : obj'[p].connected <=> obj[p].connected /\ p # o
    BY <2>3 DEF LeftAs, SameLives, SameLogs, SameTurns, SameLife, SameLog, SameTurn
  <2>5. SocketLeft(s)
    BY DEF Inv, TypeOK, Socket, Disconnect, SocketAfterLeave, NoSocket, SocketLeft,
       OnlySocket
  <2> QED
    BY <2>1, <2>4, <2>5 DEF Disconnect, history, Leaves
<1>2. References'
BY <1>1, Places DEF Inv, References, Leaves, SameLives, SameLogs, SameTurns,
     SocketLeft, OnlySocket, SameLife, SameLog, SameTurn
<1>3. InProcess'
BY <1>1, Places DEF Inv, InProcess, Leaves, SameLives, SameLogs, SameTurns,
     SocketLeft, OnlySocket, SameLife, SameLog, SameTurn
<1>4. Registry'
BY <1>1, Places DEF Inv, Registry, Leaves, SameLives, SameLogs, SameTurns,
     SocketLeft, OnlySocket, SameLife, SameLog, SameTurn
<1>5. OneCloser'
BY <1>1, Places DEF Inv, OneCloser, Leaves, SameLives, SameLogs, SameTurns,
     SocketLeft, OnlySocket, SameLife, SameLog, SameTurn
<1>6. RuntimeOpen'
BY <1>1, Places DEF Inv, RuntimeOpen, Leaves, SameLives, SameLogs, SameTurns,
     SocketLeft, OnlySocket, SameLife, SameLog, SameTurn
<1>7. Flags'
BY <1>1, Places DEF Inv, Flags, AttachedTo, RunsOn, Leaves, SameLives, SameLogs,
     SameTurns, SocketLeft, OnlySocket, SameLife, SameLog, SameTurn
<1>8. Numbers'
BY <1>1, Places DEF Inv, Numbers, RunsOn, Leaves, SameLives, SameLogs, SameTurns,
     SocketLeft, OnlySocket, SameLife, SameLog, SameTurn
<1>9. Settled'
BY <1>1, Places DEF Inv, Settled, Kept, Leaves, SameLives, SameLogs, SameTurns,
     SocketLeft, OnlySocket, SameLife, SameLog, SameTurn
<1>10. Durable'
BY <1>1, Places DEF Inv, Durable, Leaves, SameLives, SameLogs, SameTurns,
     SocketLeft, OnlySocket, SameLife, SameLog, SameTurn
<1>11. Serves
  <2>1. \A j \in Ids : SameView(j)
BY <1>1, Nothing, Places DEF Inv, SameView, Shown, Leaves, SameLives, SameLogs,
       SameTurns, SocketLeft, OnlySocket, SameLife, SameLog, SameTurn
  <2> QED
    BY <1>1, <2>1, ViewKept
<1> QED
  BY <1>2, <1>3, <1>4, <1>5, <1>6, <1>7, <1>8, <1>9, <1>10, <1>11 DEF Inv

(* The end of a connection that waited for its turn.                         *)
LEMMA DrainedKeeps ==
  ASSUME Inv, TypeOK', NEW s \in Sockets, Drained(s)
  PROVE  Inv' /\ Serves
<1>1. /\ OnlySocket(s) /\ sock[s].turn = "none" /\ sock[s].phase = "draining"
      /\ sock'[s].phase = "off" /\ sock'[s].turn = "none" /\ sock'[s].obj = None
      /\ UNCHANGED <<up, sessions, obj, store, del, used, created, deleted, gone, acked>>
  BY DEF Inv, TypeOK, Drained, NoSocket, history, OnlySocket
<1>2. References'
BY <1>1, Places DEF Inv, References, OnlySocket
<1>3. InProcess'
BY <1>1, Places DEF Inv, InProcess, OnlySocket
<1>4. Registry'
BY <1>1, Places DEF Inv, Registry, OnlySocket
<1>5. OneCloser'
BY <1>1, Places DEF Inv, OneCloser, OnlySocket
<1>6. RuntimeOpen'
BY <1>1, Places DEF Inv, RuntimeOpen, OnlySocket
<1>7. Flags'
BY <1>1, Places DEF Inv, Flags, AttachedTo, RunsOn, OnlySocket
<1>8. Numbers'
BY <1>1, Places DEF Inv, Numbers, RunsOn, OnlySocket
<1>9. Settled'
BY <1>1, Places DEF Inv, Settled, Kept, OnlySocket
<1>10. Durable'
BY <1>1, Places DEF Inv, Durable, OnlySocket
<1>11. Serves
  <2>1. \A j \in Ids : SameView(j)
BY <1>1, Nothing, Places DEF Inv, SameView, Shown, OnlySocket
  <2> QED
    BY <1>1, <2>1, ViewKept
<1> QED
  BY <1>2, <1>3, <1>4, <1>5, <1>6, <1>7, <1>8, <1>9, <1>10, <1>11 DEF Inv

(* A command, and the handler it ends when its checkpoint raises.            *)
LEMMA CommandKeeps ==
  ASSUME Inv, TypeOK', NEW s \in Sockets, NEW grows \in BOOLEAN, NEW ok \in BOOLEAN,
         Command(s, grows, ok)
  PROVE  Inv' /\ Serves
<1> DEFINE o == sock[s].obj
           log == LogAfterCommand(o, grows)
<1>1. /\ sock[s].phase = "open" /\ o \in Objects /\ ~obj[o].busy /\ obj[o].id \in Ids
      /\ ToSet(log) \subseteq ToSet(obj[o].log) \cup {0} /\ IsPrefix(obj[o].log, log)
      /\ ToSet(obj[o].log) \subseteq ToSet(log) /\ log \in Log
      /\ SameLives /\ SameTurns
      /\ \A p \in Objects \ {o} :
           obj'[p].log = obj[p].log /\ (obj'[p].saved <=> obj[p].saved)
      /\ obj'[o].log = log /\ (obj'[o].saved <=> ok)
      /\ \/ /\ ok /\ OnlyRow(obj[o].id) /\ store'[obj[o].id] = log
            /\ SameConnected /\ UNCHANGED sock
         \/ ~ok /\ Leaves(s) /\ UNCHANGED store
      /\ used'.turns = used.turns /\ used.turns \in Nat
      /\ UNCHANGED <<up, sessions, del, created, deleted, gone, acked>>
  <2> DEFINE objects == ObjectsAfterCommand(o, grows, ok)
  <2>1. /\ sock[s].phase = "open" /\ o \in Objects /\ ~obj[o].busy /\ obj[o].id \in Ids
        /\ obj[o] \in Object /\ obj[o].log \in Log
    BY Places DEF Inv, TypeOK, Command
  <2>2. /\ ToSet(log) \subseteq ToSet(obj[o].log) \cup {0} /\ IsPrefix(obj[o].log, log)
        /\ ToSet(obj[o].log) \subseteq ToSet(log) /\ log \in Log
    <3>1. 0 \in 0..MaxTurns
      BY ChatAssumption
    <3>2. /\ Append(obj[o].log, 0) \in Log
          /\ ToSet(Append(obj[o].log, 0)) = ToSet(obj[o].log) \cup {0}
          /\ IsPrefix(obj[o].log, Append(obj[o].log, 0))
          /\ IsPrefix(obj[o].log, obj[o].log)
      BY <2>1, <3>1, LogFacts
    <3> QED
      BY <2>1, <3>2 DEF LogAfterCommand
  <2> HIDE DEF log
  <2>3. /\ objects \in [Objects -> Object]
        /\ \A p \in Objects \ {o} : objects[p] = obj[p]
        /\ objects[o] = [obj[o] EXCEPT !.log = log, !.saved = ok]
    <3>1. [obj[o] EXCEPT !.log = log, !.saved = ok] \in Object
      BY <2>1, <2>2, ObjectUpdates
    <3> QED
      BY <2>1, <3>1 DEF Inv, TypeOK, ObjectsAfterCommand, log
  <2> HIDE DEF objects
  <2>4. /\ \A p \in Objects :
             /\ objects[p].id = obj[p].id /\ objects[p].closed = obj[p].closed
             /\ objects[p].runtime = obj[p].runtime /\ objects[p].acloses = obj[p].acloses
             /\ objects[p].busy = obj[p].busy /\ objects[p].abort = obj[p].abort
             /\ objects[p].inner = obj[p].inner
             /\ objects[p].connected = obj[p].connected
             /\ p # o => objects[p].log = obj[p].log /\ objects[p].saved = obj[p].saved
        /\ objects[o].log = log /\ objects[o].saved = ok
    <3>1. /\ objects[o].id = obj[o].id /\ objects[o].closed = obj[o].closed
          /\ objects[o].runtime = obj[o].runtime /\ objects[o].acloses = obj[o].acloses
          /\ objects[o].busy = obj[o].busy /\ objects[o].abort = obj[o].abort
          /\ objects[o].inner = obj[o].inner
          /\ objects[o].connected = obj[o].connected
          /\ objects[o].log = log /\ objects[o].saved = ok
      BY <2>1, <2>3 DEF Object
    <3> QED
      BY <2>3, <3>1
  <2>5. CASE ok
    <3>1. obj' = objects /\ UNCHANGED sock
      BY <2>5 DEF Command, objects
    <3>2. OnlyRow(obj[o].id) /\ store'[obj[o].id] = log
      BY <2>1, <2>5 DEF Inv, TypeOK, Command, OnlyRow, log
    <3>3. SameConnected /\ SameLives /\ SameTurns
      BY <2>4, <3>1 DEF SameConnected, SameLives, SameTurns, SameLife, SameTurn,
         SameConnection
    <3>4. /\ obj'[o].log = log /\ (obj'[o].saved <=> ok)
          /\ \A p \in Objects \ {o} :
               obj'[p].log = obj[p].log /\ (obj'[p].saved <=> obj[p].saved)
      BY <2>1, <2>4, <3>1
    <3>5. used'.turns = used.turns /\ used.turns \in Nat
      BY <2>5 DEF Inv, TypeOK, Command
    <3> QED
      BY <2>1, <2>2, <2>5, <3>1, <3>2, <3>3, <3>4, <3>5 DEF Command, history
  <2>6. CASE ~ok
    <3>1. obj' = ObjectAfterLeave(s, objects) /\ UNCHANGED store
      BY <2>6 DEF Command, objects
    <3>2. SocketLeft(s)
      BY <2>6 DEF Inv, TypeOK, Socket, Command, SocketAfterLeave, NoSocket, SocketLeft,
                  OnlySocket
    <3>3. /\ SameLives /\ SameTurns
          /\ \A p \in Objects : obj'[p].connected <=> obj[p].connected /\ p # o
          /\ obj'[o].log = log /\ (obj'[o].saved <=> ok)
          /\ \A p \in Objects \ {o} :
               obj'[p].log = obj[p].log /\ (obj'[p].saved <=> obj[p].saved)
      <4>1. \A p \in Objects : LeftAs(p, objects, s)
        BY <2>1, <2>3, <2>4, <3>1, LeaveFields
      <4> QED
        BY <2>1, <2>4, <4>1 DEF LeftAs, SameLives, SameTurns, SameLife, SameTurn
    <3>4. used'.turns = used.turns /\ used.turns \in Nat
      <4>1. used' = [[used EXCEPT !.commands = used.commands + 1]
                       EXCEPT !.faults = used.faults + 1]
        BY <2>6 DEF Inv, TypeOK, Command
      <4>2. used \in [turns: 0..MaxTurns, commands: 0..MaxCommands,
                      faults: 0..MaxFaults, crashes: 0..MaxCrashes]
        BY DEF Inv, TypeOK
      <4>3. \A a, b : [[used EXCEPT !.commands = a] EXCEPT !.faults = b].turns = used.turns
        BY <4>2
      <4>4. used'.turns = used.turns
        BY <4>1, <4>3
      <4> QED
        BY <4>2, <4>4
    <3> QED
      BY <2>1, <2>2, <2>6, <3>1, <3>2, <3>3, <3>4 DEF Command, history, Leaves
  <2> QED
    BY <2>5, <2>6
<1> HIDE DEF o, log
<1>2. References'
BY <1>1, Places DEF Inv, References, Leaves, OnlyRow, SameLives, SameTurns,
     SameConnected, SocketLeft, OnlySocket, SameLife, SameTurn, SameConnection
<1>3. InProcess'
BY <1>1, Places DEF Inv, InProcess, Leaves, OnlyRow, SameLives, SameTurns,
     SameConnected, SocketLeft, OnlySocket, SameLife, SameTurn, SameConnection
<1>4. Registry'
BY <1>1, Places DEF Inv, Registry, Leaves, OnlyRow, SameLives, SameTurns,
     SameConnected, SocketLeft, OnlySocket, SameLife, SameTurn, SameConnection
<1>5. OneCloser'
BY <1>1, Places DEF Inv, OneCloser, Leaves, OnlyRow, SameLives, SameTurns,
     SameConnected, SocketLeft, OnlySocket, SameLife, SameTurn, SameConnection
<1>6. RuntimeOpen'
BY <1>1, Places DEF Inv, RuntimeOpen, Leaves, OnlyRow, SameLives, SameTurns,
     SameConnected, SocketLeft, OnlySocket, SameLife, SameTurn, SameConnection
<1>7. Flags'
BY <1>1, Places DEF Inv, Flags, AttachedTo, RunsOn, Leaves, OnlyRow, SameLives,
     SameTurns, SameConnected, SocketLeft, OnlySocket, SameLife, SameTurn,
     SameConnection
<1>8. Numbers'
  <2>1. \A t \in Sockets : ~RunsOn(t, o)
    BY <1>1 DEF Inv, Flags
  <2>2. \A t \in Sockets : sock'[t].turn = sock[t].turn
    BY <1>1 DEF Leaves, SocketLeft, OnlySocket
  <2>3. \A t \in Sockets : sock[t].turn # "none" =>
          sock'[t].number = sock[t].number /\ sock'[t].obj = sock[t].obj
    BY <1>1, <2>2 DEF Leaves, SocketLeft, OnlySocket
  <2>4. ASSUME NEW p \in Objects
        PROVE  /\ ToSet(obj'[p].log) \subseteq ToSet(obj[p].log) \cup {0}
               /\ p # o => obj'[p].log = obj[p].log
    BY <1>1
  <2>5. ASSUME NEW i \in Ids, store'[i] # NoRow
        PROVE  store'[i] = store[i] \/ ToSet(store'[i]) \subseteq ToSet(obj[o].log) \cup {0}
    BY <1>1, <2>5 DEF OnlyRow
  <2> QED
    BY <1>1, <2>1, <2>2, <2>3, <2>4, <2>5 DEF Inv, Numbers, RunsOn
<1>9. Settled'
  <2>1. ASSUME NEW i \in Kept, sessions[i] = o
        PROVE  obj'[o].saved => store'[i] = obj'[o].log
    BY <1>1, <2>1, Nothing, Places DEF Inv, Kept
  <2>2. ASSUME NEW i \in Kept, sessions[i] # o, sessions[i] # None
        PROVE  /\ store'[i] = store[i] /\ obj'[sessions[i]].log = obj[sessions[i]].log
               /\ obj'[sessions[i]].saved <=> obj[sessions[i]].saved
               /\ obj'[sessions[i]].busy <=> obj[sessions[i]].busy
    BY <1>1, <2>2, Places, LiveObject DEF Inv, Kept, OnlyRow, SameTurns, SameTurn
  <2> QED
    BY <1>1, <2>1, <2>2 DEF Inv, Settled, Kept
<1>10. Durable'
  <2>1. ASSUME NEW i \in Ids, store'[i] # store[i]
        PROVE  i = obj[o].id /\ store'[i] = log
    BY <1>1, <2>1 DEF OnlyRow
  <2>2. obj[o].id \notin deleted => sessions[obj[o].id] = o
    BY <1>1, LiveObject
  <2>3. \A i \in Ids : sessions[i] # None =>
          IsPrefix(obj[sessions[i]].log, obj'[sessions[i]].log)
    BY <1>1, Places, LogFacts DEF Inv
  <2>4. obj[o].id \in created
    BY <1>1, <2>2, Nothing DEF Inv, References, TypeOK
  <2>5. ASSUME NEW i \in Ids, store'[i] = NoRow
        PROVE  store[i] = NoRow
    BY <1>1, <2>1, <2>5, Nothing
  <2>6. ASSUME NEW i \in Ids \ deleted, store'[i] # NoRow
        PROVE  /\ acked[i] \subseteq ToSet(store'[i])
               /\ sessions[i] # None => IsPrefix(store'[i], obj'[sessions[i]].log)
    <3>1. CASE store'[i] = store[i]
      <4>1. store[i] \in Log /\ acked[i] \subseteq ToSet(store[i])
        BY <2>6, <3>1 DEF Inv, TypeOK, Durable
      <4>2. ASSUME sessions[i] # None
            PROVE  /\ obj[sessions[i]].log \in Log /\ obj'[sessions[i]].log \in Log
                   /\ IsPrefix(store[i], obj[sessions[i]].log)
        BY <1>1, <2>6, <3>1, <4>2, Places DEF Inv, Durable
      <4> QED
        BY <2>3, <3>1, <4>1, <4>2, LogFacts
    <3>2. CASE store'[i] # store[i]
      <4>1. i = obj[o].id /\ store'[i] = log /\ sessions[i] = o /\ obj'[o].log = log
        BY <1>1, <2>1, <2>2, <2>6, <3>2
      <4>2. acked[i] \subseteq ToSet(obj[o].log)
        <5>1. CASE store[i] = NoRow
          BY <2>6, <5>1 DEF Inv, Durable
        <5>2. CASE store[i] # NoRow
          <6>1. /\ acked[i] \subseteq ToSet(store[i]) /\ store[i] \in Log
                /\ IsPrefix(store[i], obj[o].log) /\ obj[o].log \in Log
            BY <1>1, <2>6, <4>1, <5>2, Nothing, Places DEF Inv, TypeOK, Durable
          <6> QED
            BY <6>1, LogFacts
        <5> QED
          BY <5>1, <5>2
      <4> QED
        BY <1>1, <4>1, <4>2, LogFacts
    <3> QED
      BY <3>1, <3>2
  <2> QED
    BY <1>1, <2>1, <2>4, <2>5, <2>6 DEF Inv, Durable
<1>11. Serves
  <2>1. PICK i \in Ids : i = obj[o].id
    BY <1>1
  <2>2. \A p \in Objects \ {o} : obj'[p].log = obj[p].log
    BY <1>1
  <2>3. \A j \in Ids \ {i} : SameView(j)
    BY <1>1, <2>1, <2>2, Places DEF Inv, SameView, Shown, OnlyRow
  <2>4. CASE i \in deleted
    <3>1. SameView(i)
      BY <1>1, <2>1, <2>2, <2>4 DEF SameView, Shown
    <3> QED
      BY <1>1, <2>3, <3>1, ViewKept
  <2>5. CASE i \notin deleted
    <3>1. up /\ sessions[i] = o /\ o # None /\ obj[o].log # NoRow
      BY <1>1, <2>1, <2>5, LiveObject, Nothing, Places DEF Inv
    <3>2. Shown(i) = obj[o].log /\ Shown(i)' = log
      BY <1>1, <2>1, <2>5, <3>1 DEF Shown
    <3>3. log # NoRow
      BY <1>1, Nothing
    <3> QED
      BY <1>1, <2>1, <2>3, <2>5, <3>1, <3>2, <3>3, ViewGrows
  <2> QED
    BY <2>4, <2>5
<1> QED
  BY <1>2, <1>3, <1>4, <1>5, <1>6, <1>7, <1>8, <1>9, <1>10, <1>11 DEF Inv

(* The first step of a turn task.                                            *)
LEMMA BeginTurnKeeps ==
  ASSUME Inv, TypeOK', NEW s \in Sockets, BeginTurn(s)
  PROVE  Inv' /\ Serves
<1> DEFINE o == sock[s].obj
<1>1. /\ o \in Objects /\ sock[s].turn = "created"
      /\ OnlySocket(s) /\ sock'[s].phase = sock[s].phase /\ sock'[s].obj = sock[s].obj
      /\ sock'[s].number = sock[s].number
      /\ SameLives /\ SameLogs /\ SameConnected
      /\ \/ SameTurns /\ sock'[s].turn = "none"
         \/ /\ ~obj[o].closed /\ ~obj[o].busy /\ sock'[s].turn = "running"
            /\ OnlyObject(o) /\ obj'[o].busy
            /\ obj'[o].inner = "running" /\ obj'[o].abort # "none"
      /\ UNCHANGED <<up, sessions, store, del, used, created, deleted, gone, acked>>
  <2>1. o \in Objects /\ obj[o] \in Object /\ sock[s] \in Socket
    BY Places DEF Inv, TypeOK, BeginTurn
  <2>2. CASE obj[o].closed \/ obj[o].busy
    <3>1. sock' = [sock EXCEPT ![s].turn = "none"] /\ UNCHANGED obj
      BY <2>2 DEF BeginTurn
    <3> QED
      BY <2>1, <3>1 DEF Inv, TypeOK, Socket, BeginTurn, history, OnlySocket, SameLives,
                        SameLogs, SameTurns, SameConnected, SameLife, SameLog, SameTurn,
                        SameConnection
  <2>3. CASE ~obj[o].closed /\ ~obj[o].busy
    <3>1. /\ sock' = [sock EXCEPT ![s].turn = "running"]
          /\ obj' = [obj EXCEPT ![o].busy = TRUE, ![o].inner = "running",
                                ![o].abort = "clear"]
      BY <2>3 DEF BeginTurn
    <3>2. /\ OnlyObject(o)
          /\ obj'[o] = [obj[o] EXCEPT !.busy = TRUE, !.inner = "running", !.abort = "clear"]
      BY <2>1, <3>1 DEF Inv, TypeOK, OnlyObject
    <3>3. /\ SameLife(o) /\ SameLog(o) /\ SameConnection(o)
          /\ obj'[o].busy /\ obj'[o].inner = "running" /\ obj'[o].abort # "none"
      BY <2>1, <3>2 DEF Object, SameLife, SameLog, SameConnection
    <3>4. /\ OnlySocket(s) /\ sock'[s].phase = sock[s].phase /\ sock'[s].obj = sock[s].obj
          /\ sock'[s].number = sock[s].number /\ sock'[s].turn = "running"
      BY <2>1, <3>1 DEF Inv, TypeOK, Socket, OnlySocket
    <3> QED
      BY <2>1, <2>3, <3>2, <3>3, <3>4, OneObject DEF BeginTurn, history
  <2> QED
    BY <2>2, <2>3
<1> HIDE DEF o
<1>2. References'
BY <1>1, Places DEF Inv, References, OnlySocket, OnlyObject, SameLives, SameLogs,
     SameTurns, SameConnected, SameLife, SameLog, SameTurn, SameConnection
<1>3. InProcess'
BY <1>1, Places DEF Inv, InProcess, OnlySocket, OnlyObject, SameLives, SameLogs,
     SameTurns, SameConnected, SameLife, SameLog, SameTurn, SameConnection
<1>4. Registry'
BY <1>1, Places DEF Inv, Registry, OnlySocket, OnlyObject, SameLives, SameLogs,
     SameTurns, SameConnected, SameLife, SameLog, SameTurn, SameConnection
<1>5. OneCloser'
BY <1>1, Places DEF Inv, OneCloser, OnlySocket, OnlyObject, SameLives, SameLogs,
     SameTurns, SameConnected, SameLife, SameLog, SameTurn, SameConnection
<1>6. RuntimeOpen'
BY <1>1, Places DEF Inv, RuntimeOpen, OnlySocket, OnlyObject, SameLives, SameLogs,
     SameTurns, SameConnected, SameLife, SameLog, SameTurn, SameConnection
<1>7. Flags'
  <2>1. \A t \in Sockets : sock'[t].phase = sock[t].phase /\ sock'[t].obj = sock[t].obj
    BY <1>1 DEF OnlySocket
  <2>2. \A p \in Objects :
          /\ obj'[p].connected <=>
               \E t \in Sockets : sock'[t].phase = "open" /\ sock'[t].obj = p
          /\ \A t, u \in Sockets :
               /\ sock'[t].phase = "open" /\ sock'[t].obj = p
               /\ sock'[u].phase = "open" /\ sock'[u].obj = p
               => t = u
    BY <1>1, <2>1 DEF Inv, Flags, AttachedTo, SameConnected, SameConnection
  <2>3. CASE SameTurns /\ sock'[s].turn = "none"
    <3>1. \A t \in Sockets : sock'[t].turn = "running" <=> sock[t].turn = "running"
      BY <1>1, <2>3 DEF OnlySocket
    <3> QED
      BY <2>1, <2>2, <2>3, <3>1 DEF Inv, Flags, AttachedTo, RunsOn, SameTurns, SameTurn
  <2>4. CASE /\ ~obj[o].closed /\ ~obj[o].busy /\ sock'[s].turn = "running"
             /\ OnlyObject(o) /\ obj'[o].busy
             /\ obj'[o].inner = "running" /\ obj'[o].abort # "none"
    <3>1. \A t \in Sockets : ~(sock[t].turn = "running" /\ sock[t].obj = o)
      BY <1>1, <2>4 DEF Inv, Flags, RunsOn
    <3>2. \A t \in Sockets : sock'[t].turn = "running" <=> sock[t].turn = "running" \/ t = s
      BY <1>1, <2>4 DEF OnlySocket
    <3>3. \A p \in Objects :
            /\ obj'[p].busy <=>
                 \E t \in Sockets : sock'[t].turn = "running" /\ sock'[t].obj = p
            /\ (obj'[p].inner = "running" <=> obj'[p].busy)
            /\ obj'[p].abort # "none" <=> obj'[p].inner # "idle"
            /\ \A t, u \in Sockets :
                 /\ sock'[t].turn = "running" /\ sock'[t].obj = p
                 /\ sock'[u].turn = "running" /\ sock'[u].obj = p
                 => t = u
      BY <1>1, <2>1, <2>4, <3>1, <3>2 DEF Inv, Flags, RunsOn, OnlyObject, o
    <3> QED
      BY <2>2, <3>3 DEF Flags, AttachedTo, RunsOn
  <2> QED
    BY <1>1, <2>3, <2>4
<1>8. Numbers'
BY <1>1, Places DEF Inv, Numbers, RunsOn, OnlySocket, OnlyObject, SameLives,
     SameLogs, SameTurns, SameConnected, SameLife, SameLog, SameTurn, SameConnection
<1>9. Settled'
BY <1>1, Places DEF Inv, Settled, Kept, OnlySocket, OnlyObject, SameLives, SameLogs,
     SameTurns, SameConnected, SameLife, SameLog, SameTurn, SameConnection
<1>10. Durable'
BY <1>1, Places DEF Inv, Durable, OnlySocket, OnlyObject, SameLives, SameLogs,
     SameTurns, SameConnected, SameLife, SameLog, SameTurn, SameConnection
<1>11. Serves
  <2>1. \A j \in Ids : SameView(j)
BY <1>1, Nothing, Places DEF Inv, SameView, Shown, OnlySocket, OnlyObject,
       SameLives, SameLogs, SameTurns, SameConnected, SameLife, SameLog, SameTurn,
       SameConnection
  <2> QED
    BY <1>1, <2>1, ViewKept
<1> QED
  BY <1>2, <1>3, <1>4, <1>5, <1>6, <1>7, <1>8, <1>9, <1>10, <1>11 DEF Inv

(* An entry of a running turn.                                               *)
LEMMA ProgressKeeps ==
  ASSUME Inv, TypeOK', NEW s \in Sockets, Progress(s)
  PROVE  Inv' /\ Serves
<1> DEFINE o == sock[s].obj
           log == Append(obj[o].log, sock[s].number)
<1>1. /\ o \in Objects /\ sock[s].turn = "running" /\ obj[o].busy
      /\ obj[o].id \in Ids /\ sock[s].phase # "off"
      /\ log \in Log /\ IsPrefix(obj[o].log, log)
      /\ ToSet(log) = ToSet(obj[o].log) \cup {sock[s].number}
      /\ SameLives /\ SameTurns /\ SameConnected
      /\ \A p \in Objects : /\ obj'[p].log = IF p = o THEN log ELSE obj[p].log
                            /\ obj'[p].saved <=> obj[p].saved
      /\ UNCHANGED <<up, sessions, store, sock, del, used, created, deleted, gone, acked>>
  <2>1. /\ o \in Objects /\ obj[o] \in Object /\ obj[o].log \in Log
        /\ sock[s].number \in 0..MaxTurns /\ sock[s].turn = "running"
        /\ obj[o].id \in Ids /\ sock[s].phase # "off"
    BY Places DEF Inv, TypeOK, Socket, Progress
  <2>2. /\ log \in Log /\ IsPrefix(obj[o].log, log)
        /\ ToSet(log) = ToSet(obj[o].log) \cup {sock[s].number}
    BY <2>1, LogFacts
  <2>3. obj[o].busy
    BY <2>1 DEF Inv, Flags, RunsOn
  <2>4. OnlyObject(o) /\ obj'[o] = [obj[o] EXCEPT !.log = log]
    BY <2>1 DEF Inv, TypeOK, Progress, OnlyObject
  <2> HIDE DEF log
  <2>5. /\ SameLives /\ SameTurns /\ SameConnected
        /\ \A p \in Objects : /\ obj'[p].log = IF p = o THEN log ELSE obj[p].log
                              /\ obj'[p].saved <=> obj[p].saved
    BY <2>1, <2>4 DEF Object, OnlyObject, SameLives, SameTurns, SameConnected,
       SameLife, SameTurn, SameConnection
  <2> QED
    BY <2>1, <2>2, <2>3, <2>5 DEF Progress, history
<1> HIDE DEF o, log
<1>2. References'
BY <1>1, Places, LogFacts DEF Inv, References, SameLives, SameTurns, SameConnected,
     SameLife, SameTurn, SameConnection
<1>3. InProcess'
BY <1>1, Places, LogFacts DEF Inv, InProcess, SameLives, SameTurns, SameConnected,
     SameLife, SameTurn, SameConnection
<1>4. Registry'
BY <1>1, Places, LogFacts DEF Inv, Registry, SameLives, SameTurns, SameConnected,
     SameLife, SameTurn, SameConnection
<1>5. OneCloser'
BY <1>1, Places, LogFacts DEF Inv, OneCloser, SameLives, SameTurns, SameConnected,
     SameLife, SameTurn, SameConnection
<1>6. RuntimeOpen'
BY <1>1, Places, LogFacts DEF Inv, RuntimeOpen, SameLives, SameTurns, SameConnected,
     SameLife, SameTurn, SameConnection
<1>7. Flags'
BY <1>1, Places, LogFacts DEF Inv, Flags, AttachedTo, RunsOn, SameLives, SameTurns,
     SameConnected, SameLife, SameTurn, SameConnection
<1>8. Numbers'
  <2>1. ASSUME NEW p \in Objects
        PROVE  /\ ToSet(obj'[p].log) \subseteq ToSet(obj[p].log) \cup {sock[s].number}
               /\ p # o => obj'[p].log = obj[p].log
    BY <1>1 DEF log
  <2>2. \A t \in Sockets \ {s} : sock[t].turn # "none" => sock[t].number # sock[s].number
    BY <1>1 DEF Inv, Numbers
  <2>3. RunsOn(s, o) /\ sock[s].number \in 0..used.turns
    BY <1>1 DEF Inv, Numbers, RunsOn, o
  <2> QED
    BY <1>1, <2>1, <2>2, <2>3 DEF Inv, Numbers, RunsOn
<1>9. Settled'
BY <1>1, Places, LogFacts DEF Inv, Settled, Kept, SameLives, SameTurns,
     SameConnected, SameLife, SameTurn, SameConnection
<1>10. Durable'
  <2>1. ASSUME NEW i \in Ids, sessions[i] # None, IsPrefix(store[i], obj[sessions[i]].log),
               store[i] \in Log
        PROVE  IsPrefix(store[i], obj'[sessions[i]].log)
    BY <1>1, <2>1, Places, LogFacts DEF Inv
  <2>2. \A i \in Ids : store[i] # NoRow => store[i] \in Log
    BY DEF Inv, TypeOK
  <2> QED
    BY <1>1, <2>1, <2>2 DEF Inv, Durable
<1>11. Serves
  <2>1. PICK i \in Ids : i = obj[o].id
    BY <1>1
  <2>2. \A p \in Objects \ {o} : obj'[p].log = obj[p].log
    BY <1>1
  <2>3. \A j \in Ids \ {i} : SameView(j)
    BY <1>1, <2>1, <2>2, Places DEF Inv, SameView, Shown
  <2>4. CASE i \in deleted
    <3>1. SameView(i)
      BY <1>1, <2>1, <2>2, <2>4 DEF SameView, Shown
    <3> QED
      BY <1>1, <2>3, <3>1, ViewKept
  <2>5. CASE i \notin deleted
    <3>1. up /\ sessions[i] = o /\ o # None /\ obj[o].log # NoRow
      BY <1>1, <2>1, <2>5, LiveObject, Nothing, Places DEF Inv
    <3>2. Shown(i) = obj[o].log /\ Shown(i)' = log
      BY <1>1, <2>1, <2>5, <3>1 DEF Shown
    <3>3. log # NoRow
      BY <1>1, Nothing
    <3> QED
      BY <1>1, <2>1, <2>3, <2>5, <3>1, <3>2, <3>3, ViewGrows
  <2> QED
    BY <2>4, <2>5
<1> QED
  BY <1>2, <1>3, <1>4, <1>5, <1>6, <1>7, <1>8, <1>9, <1>10, <1>11 DEF Inv

(* What the end of a turn task leaves of mini's turn: nothing it could take  *)
(* for a running one, and an abort event exactly with what is left.          *)
LEMMA TaskEndLeaves ==
  ASSUME Inv, NEW s \in Sockets, NEW ok \in BOOLEAN, TaskStep(s, ok)
  PROVE  LET x == obj'[sock[s].obj]
         IN x.inner # "running" /\ (x.abort # "none" <=> x.inner # "idle")
<1> DEFINE o == sock[s].obj
<1>1. sock[s].turn # "none"
  BY DEF TaskStep, TurnStep, Refused, Answered, TurnAborted, TurnRaises, BeginRefused,
         BeginStuck, TraceRefused, Starts
<1>2. /\ o \in Objects /\ obj[o] \in Object /\ obj \in [Objects -> Object]
      /\ obj[o].inner = "running" <=> obj[o].busy
      /\ obj[o].abort # "none" <=> obj[o].inner # "idle"
      /\ sock[s].turn = "running" => obj[o].busy
  <2>1. o \in Objects
    BY <1>1, Places DEF Inv
  <2> QED
    BY <2>1 DEF Inv, TypeOK, Flags, RunsOn
<1>3. ASSUME NEW log, NEW m, NEW a,
             obj' = [obj EXCEPT ![o].log = log, ![o].busy = FALSE, ![o].inner = m,
                                ![o].abort = a, ![o].saved = ok]
      PROVE  obj'[o].inner = m /\ obj'[o].abort = a
  BY <1>2, <1>3 DEF Object
<1>4. CASE TurnStep(s, ok)
  <2>1. PICK log : EndTurn(s, log, ok)
    BY <1>4 DEF TurnStep, Answered, TurnAborted, TurnRaises
  <2>2. obj'[o].inner = "idle" /\ obj'[o].abort = "none"
    BY <1>3, <2>1 DEF EndTurn
  <2> QED
    BY <2>2
<1>5. CASE TraceRefused(s, ok)
  <2>1. PICK log \in {obj[o].log, Append(obj[o].log, sock[s].number)},
             m \in {"idle", "orphaned"} :
          /\ obj' = [obj EXCEPT ![o].log = log, ![o].busy = FALSE, ![o].inner = m,
                                ![o].abort = IF m = "idle" THEN "none" ELSE @,
                                ![o].saved = ok]
          /\ Locked(obj[o].id, log, ok)
    BY <1>5 DEF TraceRefused
  <2>2. obj'[o].inner = m /\ obj'[o].abort = IF m = "idle" THEN "none" ELSE obj[o].abort
    BY <1>2, <2>1 DEF Object
  <2> QED
    BY <1>2, <1>5, <2>2 DEF TraceRefused
<1>6. CASE BeginRefused(s, ok)
  <2>1. obj'[o].inner = obj[o].inner /\ obj'[o].abort = obj[o].abort
    BY <1>2, <1>6 DEF BeginRefused, Object
  <2> QED
    BY <1>2, <1>6, <2>1 DEF BeginRefused, Starts
<1>7. CASE BeginStuck(s, ok)
  <2>1. obj'[o].inner = "stuck" /\ obj'[o].abort = "clear"
    BY <1>2, <1>7 DEF BeginStuck, Object
  <2> QED
    BY <2>1
<1> QED
  BY <1>4, <1>5, <1>6, <1>7 DEF TaskStep, Refused

(* The end of a turn task, with its checkpoint.                              *)
LEMMA TaskEndKeeps ==
  ASSUME Inv, TypeOK', NEW s \in Sockets, NEW ok \in BOOLEAN, TaskStep(s, ok)
  PROVE  Inv' /\ Serves
<1> DEFINE o == sock[s].obj
           log == obj'[o].log
<1>1. /\ o \in Objects /\ sock[s].turn # "none" /\ obj[o].id \in Ids /\ sock[s].phase # "off"
      /\ sock[s].turn = "running" \/ (~obj[o].busy /\ log = obj[o].log)
      /\ log \in Log /\ IsPrefix(obj[o].log, log)
      /\ ToSet(log) \subseteq ToSet(obj[o].log) \cup {sock[s].number}
      /\ OnlySocket(s) /\ sock'[s].phase = sock[s].phase /\ sock'[s].obj = sock[s].obj
      /\ sock'[s].turn = "none"
      /\ SameLives /\ SameConnected /\ OnlyObject(o)
      /\ ~obj'[o].busy /\ obj'[o].inner # "running" /\ (obj'[o].saved <=> ok)
      /\ obj'[o].abort # "none" <=> obj'[o].inner # "idle"
      /\ \/ ok /\ OnlyRow(obj[o].id) /\ store'[obj[o].id] = log
         \/ ~ok /\ UNCHANGED store
      /\ \A i \in Ids \ {obj[o].id} : acked'[i] = acked[i]
      /\ acked[obj[o].id] \subseteq acked'[obj[o].id]
      /\ \/ acked'[obj[o].id] = acked[obj[o].id]
         \/ ok /\ acked'[obj[o].id] \subseteq acked[obj[o].id] \cup ToSet(log)
      /\ used'.turns = used.turns
      /\ UNCHANGED <<up, sessions, del, created, deleted, gone>>
  <2>1. PICK l \in Log :
          /\ TaskEnds(s, l, ok)
          /\ l \in {obj[o].log, Append(obj[o].log, sock[s].number)}
          /\ UNCHANGED <<up, sessions, del, created, deleted, gone>>
          /\ \/ UNCHANGED acked
             \/ /\ ok /\ l = Append(obj[o].log, sock[s].number)
                /\ acked' = [acked EXCEPT ![obj[o].id] =
                                acked[obj[o].id] \cup {sock[s].number}]
    BY TaskStepEnds DEF Inv
  <2>2. /\ o \in Objects /\ obj[o] \in Object /\ obj[o].log \in Log /\ obj[o].id \in Ids
        /\ sock[s].turn # "none" /\ sock[s].number \in 0..MaxTurns
        /\ sock[s] \in Socket /\ sock[s].phase # "off"
    BY <2>1, Places DEF Inv, TypeOK, Socket, TaskEnds
  <2>3. /\ IsPrefix(obj[o].log, l)
        /\ ToSet(l) \subseteq ToSet(obj[o].log) \cup {sock[s].number}
        /\ \/ UNCHANGED acked
           \/ /\ ok /\ sock[s].number \in ToSet(l)
              /\ acked' = [acked EXCEPT ![obj[o].id] =
                              acked[obj[o].id] \cup {sock[s].number}]
    <3> DEFINE longer == Append(obj[o].log, sock[s].number)
    <3>1. /\ IsPrefix(obj[o].log, obj[o].log) /\ IsPrefix(obj[o].log, longer)
          /\ ToSet(longer) = ToSet(obj[o].log) \cup {sock[s].number}
      BY <2>2, LogFacts
    <3>2. l \in {obj[o].log, longer}
      BY <2>1
    <3>3. \/ UNCHANGED acked
          \/ /\ ok /\ l = longer
             /\ acked' = [acked EXCEPT ![obj[o].id] =
                             acked[obj[o].id] \cup {sock[s].number}]
      BY <2>1
    <3> HIDE DEF longer
    <3> QED
      BY <3>1, <3>2, <3>3
  <2> HIDE DEF o
  <2>4. PICK m \in Inners, a \in Aborts :
          \/ sock[s].turn = "running" /\ Done(o, l, m, a, ok)
          \/ /\ sock[s].turn = "created" /\ l = obj[o].log /\ ~obj[o].busy
             /\ Idle(o, m, a, ok)
    BY <2>1 DEF TaskEnds, o
  <2>5. /\ OnlyObject(o)
        /\ \/ /\ sock[s].turn = "running"
              /\ obj'[o] = [obj[o] EXCEPT !.log = l, !.busy = FALSE, !.inner = m,
                                          !.abort = a, !.saved = ok]
           \/ /\ l = obj[o].log /\ ~obj[o].busy
              /\ obj'[o] = [obj[o] EXCEPT !.inner = m, !.abort = a, !.saved = ok]
    BY <2>2, <2>4 DEF Inv, TypeOK, Done, Idle, OnlyObject
  <2>6. /\ SameLife(o) /\ SameConnection(o) /\ obj'[o].log = l
        /\ sock[s].turn = "running" \/ (~obj[o].busy /\ l = obj[o].log)
        /\ ~obj'[o].busy /\ (obj'[o].saved <=> ok)
    <3> DEFINE x == obj[o]
               y == obj'[o]
    <3>1. x \in Object
      BY <2>2
    <3>2. \/ /\ sock[s].turn = "running"
             /\ y = [x EXCEPT !.log = l, !.busy = FALSE, !.inner = m, !.abort = a,
                              !.saved = ok]
          \/ /\ l = x.log /\ ~x.busy
             /\ y = [x EXCEPT !.inner = m, !.abort = a, !.saved = ok]
      BY <2>5
    <3> HIDE DEF x, y
    <3> DEFINE Same == /\ y.id = x.id /\ y.closed = x.closed /\ y.runtime = x.runtime
                       /\ y.acloses = x.acloses /\ y.connected = x.connected
                       /\ y.log = l /\ y.saved = ok /\ ~y.busy
    <3>3. ASSUME y = [x EXCEPT !.log = l, !.busy = FALSE, !.inner = m, !.abort = a,
                               !.saved = ok]
          PROVE  Same
      BY <3>1, <3>3 DEF Object
    <3>4. ASSUME l = x.log, ~x.busy, y = [x EXCEPT !.inner = m, !.abort = a, !.saved = ok]
          PROVE  Same
      BY <3>1, <3>4 DEF Object
    <3> HIDE DEF Same
    <3>5. Same
      BY <3>2, <3>3, <3>4
    <3>6. sock[s].turn = "running" \/ (~x.busy /\ l = x.log)
      BY <3>2
    <3> QED
      BY <3>5, <3>6 DEF Same, SameLife, SameConnection, x, y
  <2>7. obj'[o].inner # "running" /\ (obj'[o].abort # "none" <=> obj'[o].inner # "idle")
    BY TaskEndLeaves DEF o
  <2>8. /\ OnlySocket(s) /\ sock'[s].phase = sock[s].phase /\ sock'[s].obj = sock[s].obj
        /\ sock'[s].turn = "none"
    BY <2>1, <2>2 DEF Inv, TypeOK, Socket, TaskEnds, OnlySocket
  <2>9. /\ \/ ok /\ OnlyRow(obj[o].id) /\ store'[obj[o].id] = l
           \/ ~ok /\ UNCHANGED store
        /\ used'.turns = used.turns
    <3>1. Transaction(obj[o].id, l, ok) \/ Locked(obj[o].id, l, ok)
      BY <2>1 DEF TaskEnds, o
    <3> QED
      BY <2>2, <3>1, SMTT(30) DEF Inv, TypeOK, Transaction, Locked, OnlyRow
  <2>10. /\ \A i \in Ids \ {obj[o].id} : acked'[i] = acked[i]
         /\ acked[obj[o].id] \subseteq acked'[obj[o].id]
         /\ \/ acked'[obj[o].id] = acked[obj[o].id]
            \/ ok /\ acked'[obj[o].id] \subseteq acked[obj[o].id] \cup ToSet(l)
    BY <2>2, <2>3 DEF Inv, TypeOK
  <2> QED
    BY <2>1, <2>2, <2>3, <2>5, <2>6, <2>7, <2>8, <2>9, <2>10, OneObject
<1> HIDE DEF o, log
<1>2. References'
BY <1>1, Places DEF Inv, References, OnlySocket, OnlyRow, OnlyObject, SameLives,
     SameConnected, SameLife, SameConnection
<1>3. InProcess'
BY <1>1, Places DEF Inv, InProcess, OnlySocket, OnlyRow, OnlyObject, SameLives,
     SameConnected, SameLife, SameConnection
<1>4. Registry'
BY <1>1, Places DEF Inv, Registry, OnlySocket, OnlyRow, OnlyObject, SameLives,
     SameConnected, SameLife, SameConnection
<1>5. OneCloser'
BY <1>1, Places DEF Inv, OneCloser, OnlySocket, OnlyRow, OnlyObject, SameLives,
     SameConnected, SameLife, SameConnection
<1>6. RuntimeOpen'
BY <1>1, Places DEF Inv, RuntimeOpen, OnlySocket, OnlyRow, OnlyObject, SameLives,
     SameConnected, SameLife, SameConnection
<1>7. Flags'
  <2>1. \A t \in Sockets : sock'[t].phase = sock[t].phase /\ sock'[t].obj = sock[t].obj
    BY <1>1 DEF OnlySocket
  <2>2. \A p \in Objects :
          /\ obj'[p].connected <=>
               \E t \in Sockets : sock'[t].phase = "open" /\ sock'[t].obj = p
          /\ \A t, u \in Sockets :
               /\ sock'[t].phase = "open" /\ sock'[t].obj = p
               /\ sock'[u].phase = "open" /\ sock'[u].obj = p
               => t = u
    BY <1>1, <2>1 DEF Inv, Flags, AttachedTo, SameConnected, SameConnection
  <2>3. \A t \in Sockets : sock'[t].turn = "running" <=> sock[t].turn = "running" /\ t # s
    BY <1>1 DEF OnlySocket
  <2>4. \A t \in Sockets \ {s} : ~(sock[t].turn = "running" /\ sock[t].obj = o)
    BY <1>1, SMTT(30) DEF Inv, Flags, RunsOn, o
  <2>5. \A p \in Objects :
          /\ obj'[p].busy <=>
               \E t \in Sockets : sock'[t].turn = "running" /\ sock'[t].obj = p
          /\ obj'[p].inner = "running" <=> obj'[p].busy
          /\ obj'[p].abort # "none" <=> obj'[p].inner # "idle"
          /\ \A t, u \in Sockets :
               /\ sock'[t].turn = "running" /\ sock'[t].obj = p
               /\ sock'[u].turn = "running" /\ sock'[u].obj = p
               => t = u
    BY <1>1, <2>1, <2>3, <2>4, SMTT(30) DEF Inv, Flags, RunsOn, OnlyObject, o
  <2> QED
    BY <2>2, <2>5 DEF Flags, AttachedTo, RunsOn
<1>8. Numbers'
  <2>1. ASSUME NEW p \in Objects
        PROVE  ToSet(obj'[p].log) \subseteq ToSet(obj[p].log) \cup {sock[s].number}
    BY <1>1 DEF OnlyObject, log
  <2>2. ASSUME NEW i \in Ids, store'[i] # NoRow
        PROVE  \/ store'[i] = store[i]
               \/ ToSet(store'[i]) \subseteq ToSet(obj[o].log) \cup {sock[s].number}
    BY <1>1, <2>2 DEF OnlyRow
  <2>3. \A t \in Sockets : sock'[t].turn # "none" =>
          t # s /\ sock'[t] = sock[t] /\ sock[t].number # sock[s].number
    BY <1>1 DEF Inv, Numbers, OnlySocket
  <2>4. \A t \in Sockets \ {s} : ~RunsOn(t, o)
    BY <1>1, SMTT(30) DEF Inv, Flags, RunsOn, o
  <2>5. RunsOn(s, o) \/ \A p \in Objects : obj'[p].log = obj[p].log
    BY <1>1 DEF RunsOn, OnlyObject, o, log
  <2>6. sock[s].number \in 0..used.turns
    BY <1>1 DEF Inv, Numbers
  <2>7. \A p \in Objects : ToSet(obj'[p].log) \subseteq 0..used.turns
    BY <1>1, <2>1, <2>6 DEF Inv, Numbers
  <2>8. \A i \in Ids : store'[i] # NoRow => ToSet(store'[i]) \subseteq 0..used.turns
    BY <1>1, <2>2, <2>6 DEF Inv, Numbers
  <2>9. ASSUME NEW t \in Sockets, sock'[t].turn # "none"
        PROVE  /\ t # s /\ sock'[t] = sock[t] /\ sock[t].number \in 1..used.turns
               /\ \A u \in Sockets : sock'[u].turn # "none" /\ sock'[u].number = sock'[t].number
                    => t = u
               /\ sock[t].number \notin ToSet(obj[o].log) \cup {sock[s].number}
    BY <1>1, <2>3, <2>4, <2>9 DEF Inv, Numbers
  <2>10. ASSUME NEW t \in Sockets, sock'[t].turn # "none"
         PROVE  /\ \A i \in Ids : store'[i] # NoRow => sock'[t].number \notin ToSet(store'[i])
                /\ \A p \in Objects : ~(sock'[t].turn = "running" /\ sock'[t].obj = p)
                     => sock'[t].number \notin ToSet(obj'[p].log)
    <3>1. \A i \in Ids : store'[i] # NoRow => sock'[t].number \notin ToSet(store'[i])
      BY <2>2, <2>9, <2>10 DEF Inv, Numbers
    <3>2. ASSUME NEW p \in Objects, ~(sock'[t].turn = "running" /\ sock'[t].obj = p)
          PROVE  sock'[t].number \notin ToSet(obj'[p].log)
      BY <2>1, <2>9, <2>10, <3>2 DEF Inv, Numbers, RunsOn
    <3> QED
      BY <3>1, <3>2
  <2> QED
    BY <1>1, <2>7, <2>8, <2>9, <2>10 DEF Numbers, RunsOn
<1>9. Settled'
  <2>1. ASSUME NEW i \in Kept, sessions[i] = o
        PROVE  obj'[o].saved => store'[i] = obj'[o].log
    BY <1>1, <2>1, Nothing, Places DEF Inv, Kept, log
  <2>2. ASSUME NEW i \in Kept, sessions[i] # o, sessions[i] # None
        PROVE  store'[i] = store[i] /\ obj'[sessions[i]] = obj[sessions[i]]
    BY <1>1, <2>2, Places, LiveObject DEF Inv, Kept, OnlyRow, OnlyObject
  <2> QED
    BY <1>1, <2>1, <2>2 DEF Inv, Settled, Kept
<1>10. Durable'
  <2>1. ASSUME NEW i \in Ids, store'[i] # store[i]
        PROVE  i = obj[o].id /\ store'[i] = log
    BY <1>1, <2>1 DEF OnlyRow
  <2>2. obj[o].id \notin deleted => sessions[obj[o].id] = o
    BY <1>1, LiveObject
  <2>3. \A i \in Ids : sessions[i] # None =>
          IsPrefix(obj[sessions[i]].log, obj'[sessions[i]].log)
    BY <1>1, Places, LogFacts DEF Inv, OnlyObject, log
  <2>4. obj[o].id \in created
    BY <1>1, <2>2, Nothing DEF Inv, References, TypeOK
  <2>5. ASSUME NEW i \in Ids, store'[i] = NoRow
        PROVE  store[i] = NoRow
    BY <1>1, <2>1, <2>5, Nothing
  <2>6. ASSUME NEW i \in Ids \ deleted, store'[i] # NoRow
        PROVE  /\ acked'[i] \subseteq ToSet(store'[i])
               /\ sessions[i] # None => IsPrefix(store'[i], obj'[sessions[i]].log)
    <3>1. CASE i # obj[o].id \/ ~ok
      <4>1. /\ store'[i] = store[i] /\ acked'[i] = acked[i]
            /\ store[i] \in Log /\ acked[i] \subseteq ToSet(store[i])
        BY <1>1, <2>6, <3>1 DEF Inv, TypeOK, Durable, OnlyRow
      <4>2. ASSUME sessions[i] # None
            PROVE  /\ obj[sessions[i]].log \in Log /\ obj'[sessions[i]].log \in Log
                   /\ IsPrefix(store[i], obj[sessions[i]].log)
        BY <1>1, <2>6, <4>1, <4>2, Places DEF Inv, Durable, OnlyObject, log
      <4> QED
        BY <2>3, <4>1, <4>2, LogFacts
    <3>2. CASE i = obj[o].id /\ ok
      <4>1. store'[i] = log /\ sessions[i] = o
        BY <1>1, <2>2, <2>6, <3>2
      <4>2. acked[i] \subseteq ToSet(obj[o].log)
        <5>1. CASE store[i] = NoRow
          BY <2>6, <5>1 DEF Inv, Durable
        <5>2. CASE store[i] # NoRow
          <6>1. /\ acked[i] \subseteq ToSet(store[i]) /\ store[i] \in Log
                /\ IsPrefix(store[i], obj[o].log) /\ obj[o].log \in Log
            BY <1>1, <2>6, <4>1, <5>2, Nothing, Places DEF Inv, TypeOK, Durable
          <6> QED
            BY <6>1, LogFacts
        <5> QED
          BY <5>1, <5>2
      <4>3. ToSet(obj[o].log) \subseteq ToSet(log) /\ IsPrefix(log, log)
        BY <1>1, Places, LogFacts DEF Inv
      <4> QED
        BY <1>1, <3>2, <4>1, <4>2, <4>3 DEF log
    <3> QED
      BY <3>1, <3>2
  <2> QED
    BY <1>1, <2>1, <2>4, <2>5, <2>6, Nothing DEF Inv, Durable
<1>11. Serves
  <2>1. PICK i \in Ids : i = obj[o].id
    BY <1>1
  <2>2. \A p \in Objects \ {o} : obj'[p].log = obj[p].log
    BY <1>1 DEF OnlyObject
  <2>3. \A j \in Ids \ {i} : SameView(j)
    BY <1>1, <2>1, <2>2, Places DEF Inv, SameView, Shown, OnlyRow, OnlyObject
  <2>4. CASE i \in deleted
    <3>1. SameView(i)
      BY <1>1, <2>1, <2>2, <2>4 DEF SameView, Shown
    <3> QED
      BY <1>1, <2>3, <3>1, ViewKept
  <2>5. CASE i \notin deleted
    <3>1. up /\ sessions[i] = o /\ o # None /\ obj[o].log # NoRow
      BY <1>1, <2>1, <2>5, LiveObject, Nothing, Places DEF Inv
    <3>2. Shown(i) = obj[o].log /\ Shown(i)' = log
      BY <1>1, <2>1, <2>5, <3>1 DEF Shown, log
    <3>3. log # NoRow
      BY <1>1, Nothing
    <3> QED
      BY <1>1, <2>1, <2>3, <2>5, <3>1, <3>2, <3>3, ViewGrows
  <2> QED
    BY <2>4, <2>5
<1> QED
  BY <1>2, <1>3, <1>4, <1>5, <1>6, <1>7, <1>8, <1>9, <1>10, <1>11 DEF Inv

(* A new session.                                                            *)
LEMMA CreateKeeps ==
  ASSUME Inv, TypeOK', NEW i \in Ids, NEW o \in Objects, NEW ok \in BOOLEAN,
         Create(i, o, ok)
  PROVE  Inv' /\ Serves
<1>1. /\ up /\ i \notin created /\ i \notin deleted /\ created' = created \cup {i}
      /\ sessions[i] = None /\ store[i] = NoRow /\ acked[i] = {}
      /\ Unreferenced(o) /\ OnlyObject(o) /\ Fresh(o, i, <<>>) /\ ~obj'[o].connected
      /\ obj'[o].saved <=> ok
      /\ OnlySession(i) /\ sessions'[i] = o /\ o # None /\ i # None
      /\ \/ ok /\ OnlyRow(i) /\ store'[i] = <<>>
         \/ ~ok /\ UNCHANGED store
      /\ used'.turns = used.turns /\ used.turns \in Nat
      /\ UNCHANGED <<up, sock, del, deleted, gone, acked>>
  <2>1. /\ up /\ i \notin created /\ i \notin deleted /\ created' = created \cup {i}
        /\ Unreferenced(o) /\ o # None /\ i # None
        /\ UNCHANGED <<up, sock, del, deleted, gone, acked>>
    BY Nothing DEF Inv, TypeOK, Create
  <2>2. sessions[i] = None /\ store[i] = NoRow /\ acked[i] = {}
    BY <2>1 DEF Inv, References, Durable
  <2>3. OnlyObject(o) /\ obj'[o] = [NewObject(i, <<>>) EXCEPT !.saved = ok]
    BY DEF Inv, TypeOK, Create, OnlyObject
  <2>4. Fresh(o, i, <<>>) /\ ~obj'[o].connected /\ (obj'[o].saved <=> ok)
    BY <2>3 DEF NewObject, Fresh
  <2>5. OnlySession(i) /\ sessions'[i] = o
    BY DEF Inv, TypeOK, Create, OnlySession
  <2>6. /\ \/ ok /\ OnlyRow(i) /\ store'[i] = <<>>
           \/ ~ok /\ UNCHANGED store
        /\ used'.turns = used.turns /\ used.turns \in Nat
    BY DEF Inv, TypeOK, Create, Transaction, OnlyRow
  <2> QED
    BY <2>1, <2>2, <2>3, <2>4, <2>5, <2>6
<1>2. References'
BY <1>1, Places DEF Inv, References, Unreferenced, Fresh, OnlySession, OnlyRow,
     OnlyObject
<1>3. InProcess'
BY <1>1, Places DEF Inv, InProcess, Unreferenced, Fresh, OnlySession, OnlyRow,
     OnlyObject
<1>4. Registry'
  <2>1. \A p \in Objects \ {o} :
          /\ obj'[p] = obj[p] /\ p # None /\ obj[p].id \in Ids \cup {None}
          /\ obj[p].id # None /\ ~obj[p].closed => obj[p].id # i
    BY <1>1, Nothing, Places DEF Inv, Registry, OnlyObject
  <2>2. \A j \in Ids \ {i} : sessions'[j] = sessions[j] /\ sessions[j] # o
    BY <1>1 DEF OnlySession, Unreferenced
  <2>3. \A j \in Ids : sessions'[j] # None => ~obj'[sessions'[j]].closed
    BY <1>1, <2>1, <2>2, Places DEF Inv, Registry, Fresh
  <2>4. \A p \in Objects :
          /\ obj'[p].id # None /\ ~obj'[p].closed => sessions'[obj'[p].id] = p
          /\ obj'[p].id = None => ~obj'[p].closed
    BY <1>1, <2>1, <2>2 DEF Inv, Registry, Fresh
  <2> QED
    BY <2>3, <2>4 DEF Registry
<1>5. OneCloser'
BY <1>1, Places DEF Inv, OneCloser, Unreferenced, Fresh, OnlySession, OnlyRow,
     OnlyObject
<1>6. RuntimeOpen'
BY <1>1, Places DEF Inv, RuntimeOpen, Unreferenced, Fresh, OnlySession, OnlyRow,
     OnlyObject
<1>7. Flags'
BY <1>1, Places DEF Inv, Flags, AttachedTo, RunsOn, Unreferenced, Fresh,
     OnlySession, OnlyRow, OnlyObject
<1>8. Numbers'
  <2>1. ToSet(<<>>) = {}
    BY LogFacts
  <2> QED
    BY <1>1, <2>1 DEF Inv, Numbers, RunsOn, Unreferenced, Fresh, OnlyRow, OnlyObject
<1>9. Settled'
BY <1>1, Places DEF Inv, Settled, Kept, Unreferenced, Fresh, OnlySession, OnlyRow,
     OnlyObject
<1>10. Durable'
  <2>1. <<>> \in Log /\ NoRow \notin Log /\ IsPrefix(<<>>, <<>>)
    BY LogFacts, Nothing
  <2>2. \A j \in Ids \ {i} :
          /\ store'[j] = store[j] /\ sessions'[j] = sessions[j]
          /\ sessions[j] # None => obj'[sessions[j]] = obj[sessions[j]]
    BY <1>1, Places DEF Inv, OnlyRow, OnlySession, OnlyObject, Unreferenced
  <2> QED
    BY <1>1, <2>1, <2>2 DEF Inv, Durable, Fresh
<1>11. Serves
  <2>1. \A j \in Ids \ {i} : SameView(j)
    BY <1>1, Places DEF Inv, SameView, Shown, OnlyRow, OnlySession, OnlyObject,
       Unreferenced
  <2>2. Shown(i) = NoRow /\ Shown(i)' = <<>> /\ <<>> # NoRow
    BY <1>1, LogFacts, Nothing DEF Shown, Fresh
  <2> QED
    BY <1>1, <2>1, <2>2, ViewGrows
<1> QED
  BY <1>2, <1>3, <1>4, <1>5, <1>6, <1>7, <1>8, <1>9, <1>10, <1>11 DEF Inv

(* A read that hydrates a session.                                           *)
LEMMA GetKeeps ==
  ASSUME Inv, TypeOK', NEW i \in Ids, NEW o \in Objects, Get(i, o)
  PROVE  Inv' /\ Serves
<1>1. /\ up /\ i \in created /\ sessions[i] = None /\ store[i] # NoRow
      /\ Unreferenced(o) /\ OnlyObject(o) /\ Fresh(o, i, store[i]) /\ ~obj'[o].connected
      /\ OnlySession(i) /\ sessions'[i] = o /\ o # None /\ i # None
      /\ store[i] \in Log /\ IsPrefix(store[i], store[i])
      /\ UNCHANGED <<up, store, sock, del, used, created, deleted, gone, acked>>
  <2>1. /\ up /\ sessions[i] = None /\ store[i] # NoRow
        /\ Unreferenced(o) /\ o # None /\ i # None
        /\ UNCHANGED <<up, store, sock, del, used, created, deleted, gone, acked>>
    BY Nothing DEF Get, Hydrates, history
  <2>2. i \in created /\ store[i] \in Log
    BY <2>1 DEF Inv, TypeOK, Durable
  <2>3. OnlyObject(o) /\ obj'[o] = NewObject(i, store[i])
    BY <2>1 DEF Inv, TypeOK, Get, ObjectsAfterGet, Live, OnlyObject
  <2>4. Fresh(o, i, store[i]) /\ ~obj'[o].connected
    BY <2>3 DEF NewObject, Fresh
  <2>5. OnlySession(i) /\ sessions'[i] = o
    BY DEF Inv, TypeOK, Get, OnlySession
  <2> QED
    BY <2>1, <2>2, <2>3, <2>4, <2>5, LogFacts
<1>2. References'
BY <1>1, Places DEF Inv, References, Unreferenced, Fresh, OnlySession, OnlyObject
<1>3. InProcess'
BY <1>1, Places DEF Inv, InProcess, Unreferenced, Fresh, OnlySession, OnlyObject
<1>4. Registry'
  <2>1. \A p \in Objects \ {o} :
          /\ obj'[p] = obj[p] /\ p # None /\ obj[p].id \in Ids \cup {None}
          /\ obj[p].id # None /\ ~obj[p].closed => obj[p].id # i
    BY <1>1, Nothing, Places DEF Inv, Registry, OnlyObject
  <2>2. \A j \in Ids \ {i} : sessions'[j] = sessions[j] /\ sessions[j] # o
    BY <1>1 DEF OnlySession, Unreferenced
  <2>3. \A j \in Ids : sessions'[j] # None => ~obj'[sessions'[j]].closed
    BY <1>1, <2>1, <2>2, Places DEF Inv, Registry, Fresh
  <2>4. \A p \in Objects :
          /\ obj'[p].id # None /\ ~obj'[p].closed => sessions'[obj'[p].id] = p
          /\ obj'[p].id = None => ~obj'[p].closed
    BY <1>1, <2>1, <2>2 DEF Inv, Registry, Fresh
  <2> QED
    BY <2>3, <2>4 DEF Registry
<1>5. OneCloser'
BY <1>1, Places DEF Inv, OneCloser, Unreferenced, Fresh, OnlySession, OnlyObject
<1>6. RuntimeOpen'
BY <1>1, Places DEF Inv, RuntimeOpen, Unreferenced, Fresh, OnlySession, OnlyObject
<1>7. Flags'
BY <1>1, Places DEF Inv, Flags, AttachedTo, RunsOn, Unreferenced, Fresh,
     OnlySession, OnlyObject
<1>8. Numbers'
BY <1>1, Places DEF Inv, Numbers, RunsOn, Unreferenced, Fresh, OnlySession,
     OnlyObject
<1>9. Settled'
BY <1>1, Places DEF Inv, Settled, Kept, Unreferenced, Fresh, OnlySession, OnlyObject
<1>10. Durable'
BY <1>1, Places DEF Inv, Durable, Unreferenced, Fresh, OnlySession, OnlyObject
<1>11. Serves
  <2>1. \A j \in Ids : SameView(j)
BY <1>1, Nothing, Places DEF Inv, SameView, Shown, Unreferenced, Fresh, OnlySession,
       OnlyObject
  <2> QED
    BY <1>1, <2>1, ViewKept
<1> QED
  BY <1>2, <1>3, <1>4, <1>5, <1>6, <1>7, <1>8, <1>9, <1>10, <1>11 DEF Inv

(* A connection to a live session.                                           *)
LEMMA AttachKeeps ==
  ASSUME Inv, TypeOK', NEW s \in Sockets, NEW i \in Ids, NEW o \in Objects,
         Connect(s, i, o), Live(i, o)
  PROVE  Inv' /\ Serves
<1>1. /\ up /\ sock[s].phase = "off" /\ ~obj[o].connected
      /\ OnlySocket(s) /\ sock'[s].phase = "open" /\ sock'[s].obj = o
      /\ sock'[s].turn = "none"
      /\ SameLives /\ SameLogs /\ SameTurns /\ OnlyObject(o) /\ obj'[o].connected
      /\ obj[o].id # None
      /\ UNCHANGED <<up, sessions, store, del, used, created, deleted, gone, acked>>
  <2>1. /\ up /\ sock[s].phase = "off" /\ ~obj[o].connected /\ obj[o] \in Object
        /\ obj[o].id # None
        /\ UNCHANGED <<up, store, del, used, created, deleted, gone, acked>>
    BY Nothing DEF Inv, TypeOK, References, Connect, Live, ObjectsAfterGet, history
  <2>2. UNCHANGED sessions
    BY DEF Inv, TypeOK, Connect, Live
  <2>3. OnlyObject(o) /\ obj'[o] = [obj[o] EXCEPT !.connected = TRUE]
    BY <2>1 DEF Inv, TypeOK, Connect, Live, ObjectsAfterGet, OnlyObject
  <2>4. SameLife(o) /\ SameLog(o) /\ SameTurn(o) /\ obj'[o].connected
    BY <2>1, <2>3 DEF Object, SameLife, SameLog, SameTurn
  <2>5. /\ OnlySocket(s) /\ sock'[s].phase = "open" /\ sock'[s].obj = o
        /\ sock'[s].turn = "none"
    BY DEF Inv, TypeOK, Connect, OnlySocket, NoSocket
  <2> QED
    BY <2>1, <2>2, <2>3, <2>4, <2>5, OneObject
<1>2. References'
BY <1>1, Places DEF Inv, References, OnlySocket, OnlyObject, SameLives, SameLogs,
     SameTurns, SameLife, SameLog, SameTurn
<1>3. InProcess'
BY <1>1, Places DEF Inv, InProcess, OnlySocket, OnlyObject, SameLives, SameLogs,
     SameTurns, SameLife, SameLog, SameTurn
<1>4. Registry'
BY <1>1, Places DEF Inv, Registry, OnlySocket, OnlyObject, SameLives, SameLogs,
     SameTurns, SameLife, SameLog, SameTurn
<1>5. OneCloser'
BY <1>1, Places DEF Inv, OneCloser, OnlySocket, OnlyObject, SameLives, SameLogs,
     SameTurns, SameLife, SameLog, SameTurn
<1>6. RuntimeOpen'
BY <1>1, Places DEF Inv, RuntimeOpen, OnlySocket, OnlyObject, SameLives, SameLogs,
     SameTurns, SameLife, SameLog, SameTurn
<1>7. Flags'
BY <1>1, Places DEF Inv, Flags, AttachedTo, RunsOn, OnlySocket, OnlyObject,
     SameLives, SameLogs, SameTurns, SameLife, SameLog, SameTurn
<1>8. Numbers'
BY <1>1, Places DEF Inv, Numbers, RunsOn, OnlySocket, OnlyObject, SameLives,
     SameLogs, SameTurns, SameLife, SameLog, SameTurn
<1>9. Settled'
BY <1>1, Places DEF Inv, Settled, Kept, OnlySocket, OnlyObject, SameLives, SameLogs,
     SameTurns, SameLife, SameLog, SameTurn
<1>10. Durable'
BY <1>1, Places DEF Inv, Durable, OnlySocket, OnlyObject, SameLives, SameLogs,
     SameTurns, SameLife, SameLog, SameTurn
<1>11. Serves
  <2>1. \A j \in Ids : SameView(j)
BY <1>1, Nothing, Places DEF Inv, SameView, Shown, OnlySocket, OnlyObject,
       SameLives, SameLogs, SameTurns, SameLife, SameLog, SameTurn
  <2> QED
    BY <1>1, <2>1, ViewKept
<1> QED
  BY <1>2, <1>3, <1>4, <1>5, <1>6, <1>7, <1>8, <1>9, <1>10, <1>11 DEF Inv

(* A connection to a stored session.                                         *)
LEMMA HydrateAndAttachKeeps ==
  ASSUME Inv, TypeOK', NEW s \in Sockets, NEW i \in Ids, NEW o \in Objects,
         Connect(s, i, o), Hydrates(i, o)
  PROVE  Inv' /\ Serves
<1>1. /\ up /\ i \in created /\ sessions[i] = None /\ store[i] # NoRow
      /\ sock[s].phase = "off"
      /\ OnlySocket(s) /\ sock'[s].phase = "open" /\ sock'[s].obj = o
      /\ sock'[s].turn = "none"
      /\ Unreferenced(o) /\ OnlyObject(o) /\ Fresh(o, i, store[i]) /\ obj'[o].connected
      /\ OnlySession(i) /\ sessions'[i] = o /\ o # None /\ i # None
      /\ store[i] \in Log /\ IsPrefix(store[i], store[i])
      /\ UNCHANGED <<up, store, del, used, created, deleted, gone, acked>>
  <2>1. /\ up /\ sessions[i] = None /\ store[i] # NoRow /\ sock[s].phase = "off"
        /\ Unreferenced(o) /\ o # None /\ i # None
        /\ UNCHANGED <<up, store, del, used, created, deleted, gone, acked>>
    BY Nothing DEF Connect, Hydrates, history
  <2>2. i \in created /\ store[i] \in Log
    BY <2>1 DEF Inv, TypeOK, Durable
  <2>3. OnlyObject(o) /\ obj'[o] = [NewObject(i, store[i]) EXCEPT !.connected = TRUE]
    BY <2>1 DEF Inv, TypeOK, Connect, ObjectsAfterGet, Live, OnlyObject
  <2>4. Fresh(o, i, store[i]) /\ obj'[o].connected
    BY <2>3 DEF NewObject, Fresh
  <2>5. OnlySession(i) /\ sessions'[i] = o
    BY DEF Inv, TypeOK, Connect, OnlySession
  <2>6. /\ OnlySocket(s) /\ sock'[s].phase = "open" /\ sock'[s].obj = o
        /\ sock'[s].turn = "none"
    BY DEF Inv, TypeOK, Connect, OnlySocket, NoSocket
  <2> QED
    BY <2>1, <2>2, <2>3, <2>4, <2>5, <2>6, LogFacts
<1>2. References'
BY <1>1, Places DEF Inv, References, Unreferenced, Fresh, OnlySession, OnlySocket,
     OnlyObject
<1>3. InProcess'
BY <1>1, Places DEF Inv, InProcess, Unreferenced, Fresh, OnlySession, OnlySocket,
     OnlyObject
<1>4. Registry'
  <2>1. \A p \in Objects \ {o} :
          /\ obj'[p] = obj[p] /\ p # None /\ obj[p].id \in Ids \cup {None}
          /\ obj[p].id # None /\ ~obj[p].closed => obj[p].id # i
    BY <1>1, Nothing, Places DEF Inv, Registry, OnlyObject
  <2>2. \A j \in Ids \ {i} : sessions'[j] = sessions[j] /\ sessions[j] # o
    BY <1>1 DEF OnlySession, Unreferenced
  <2>3. \A j \in Ids : sessions'[j] # None => ~obj'[sessions'[j]].closed
    BY <1>1, <2>1, <2>2, Places DEF Inv, Registry, Fresh
  <2>4. \A p \in Objects :
          /\ obj'[p].id # None /\ ~obj'[p].closed => sessions'[obj'[p].id] = p
          /\ obj'[p].id = None => ~obj'[p].closed
    BY <1>1, <2>1, <2>2 DEF Inv, Registry, Fresh
  <2> QED
    BY <2>3, <2>4 DEF Registry
<1>5. OneCloser'
BY <1>1, Places DEF Inv, OneCloser, Unreferenced, Fresh, OnlySession, OnlySocket,
     OnlyObject
<1>6. RuntimeOpen'
BY <1>1, Places DEF Inv, RuntimeOpen, Unreferenced, Fresh, OnlySession, OnlySocket,
     OnlyObject
<1>7. Flags'
BY <1>1, Places DEF Inv, Flags, AttachedTo, RunsOn, Unreferenced, Fresh,
     OnlySession, OnlySocket, OnlyObject
<1>8. Numbers'
BY <1>1, Places DEF Inv, Numbers, RunsOn, Unreferenced, Fresh, OnlySession,
     OnlySocket, OnlyObject
<1>9. Settled'
BY <1>1, Places DEF Inv, Settled, Kept, Unreferenced, Fresh, OnlySession,
     OnlySocket, OnlyObject
<1>10. Durable'
BY <1>1, Places DEF Inv, Durable, Unreferenced, Fresh, OnlySession, OnlySocket,
     OnlyObject
<1>11. Serves
  <2>1. \A j \in Ids : SameView(j)
BY <1>1, Nothing, Places DEF Inv, SameView, Shown, Unreferenced, Fresh, OnlySession,
       OnlySocket, OnlyObject
  <2> QED
    BY <1>1, <2>1, ViewKept
<1> QED
  BY <1>2, <1>3, <1>4, <1>5, <1>6, <1>7, <1>8, <1>9, <1>10, <1>11 DEF Inv

(* A DELETE of a session that runs a turn.                                   *)
LEMMA DeleteWaitsKeeps ==
  ASSUME Inv, TypeOK', NEW d \in Deletes, NEW i \in Ids, NEW o \in Objects,
         NEW ok \in BOOLEAN, DeleteLive(d, i, o, ok), obj[o].busy
  PROVE  Inv' /\ Serves
<1>1. /\ up /\ del[d].phase = "off" /\ sessions[i] = o /\ obj[o].id = i /\ ~obj[o].closed
      /\ obj[o].runtime = "open" /\ obj[o].acloses = 0 /\ i \in created /\ i # None
      /\ OnlySession(i) /\ sessions'[i] = None /\ deleted' = deleted \cup {i}
      /\ OnlyObject(o) /\ obj'[o].id = i /\ obj'[o].closed /\ obj'[o].runtime = "open"
      /\ obj'[o].acloses = 0
      /\ SameLogs /\ SameTurns /\ SameConnected
      /\ OnlyDelete(d) /\ del'[d].phase = "waiting" /\ del'[d].id = i /\ del'[d].obj = o
      /\ UNCHANGED <<up, store, used, sock, created, gone, acked>>
  <2>1. /\ up /\ del[d].phase = "off" /\ sessions[i] = o /\ i # None /\ obj[o] \in Object
        /\ deleted' = deleted \cup {i}
        /\ UNCHANGED <<up, store, used, sock, created, gone, acked>>
    BY Nothing DEF Inv, TypeOK, DeleteLive, Live
  <2>2. /\ obj[o].id = i /\ i \in created /\ ~obj[o].closed
        /\ obj[o].runtime = "open" /\ obj[o].acloses = 0
    BY <2>1, Nothing DEF Inv, TypeOK, Object, References, Registry, RuntimeOpen
  <2>3. OnlySession(i) /\ sessions'[i] = None
    BY DEF Inv, TypeOK, DeleteLive, OnlySession
  <2>4. \E a : /\ OnlyObject(o) /\ obj'[o] = [obj[o] EXCEPT !.closed = TRUE, !.abort = a]
               /\ a # "none" <=> obj[o].abort # "none"
    <3>1. Aborted(o) # "none" <=> obj[o].abort # "none"
      BY DEF Aborted
    <3> DEFINE a == Aborted(o)
    <3>2. obj' = [obj EXCEPT ![o].closed = TRUE, ![o].abort = a]
      BY DEF DeleteLive
    <3> HIDE DEF a
    <3>3. OnlyObject(o) /\ obj'[o] = [obj[o] EXCEPT !.closed = TRUE, !.abort = a]
      BY <3>2 DEF Inv, TypeOK, OnlyObject
    <3> QED
      BY <3>1, <3>3 DEF a
  <2>5. /\ OnlyObject(o) /\ obj'[o].id = obj[o].id /\ obj'[o].closed
        /\ obj'[o].runtime = obj[o].runtime
        /\ obj'[o].acloses = obj[o].acloses /\ SameLog(o) /\ SameTurn(o) /\ SameConnection(o)
    BY <2>1, <2>4 DEF Object, SameLog, SameTurn, SameConnection
  <2>6. OnlyDelete(d) /\ del'[d].phase = "waiting" /\ del'[d].id = i /\ del'[d].obj = o
    BY DEF Inv, TypeOK, DeleteLive, OnlyDelete
  <2> QED
    BY <2>1, <2>2, <2>3, <2>5, <2>6, OneObject
<1>2. References'
BY <1>1, Places DEF Inv, References, OnlySession, OnlyDelete, OnlyObject, SameLogs,
     SameTurns, SameConnected, SameLog, SameTurn, SameConnection
<1>3. InProcess'
BY <1>1, Places DEF Inv, InProcess, OnlySession, OnlyDelete, OnlyObject, SameLogs,
     SameTurns, SameConnected, SameLog, SameTurn, SameConnection
<1>4. Registry'
BY <1>1, Places DEF Inv, Registry, OnlySession, OnlyDelete, OnlyObject, SameLogs,
     SameTurns, SameConnected, SameLog, SameTurn, SameConnection
<1>5. OneCloser'
  <2>1. \A e \in Deletes \ {d} : del'[e] = del[e] /\ del[e].obj # o
    BY <1>1, Nothing, Places DEF Inv, References, OneCloser, OnlyDelete
  <2>2. \A e \in Deletes \ {d} : del[e].phase # "off" =>
          del[e].obj \in Objects /\ obj'[del[e].obj] = obj[del[e].obj]
    BY <1>1, <2>1, Places DEF Inv, OnlyObject
  <2> QED
    BY <1>1, <2>1, <2>2 DEF Inv, OneCloser
<1>6. RuntimeOpen'
BY <1>1, Places DEF Inv, RuntimeOpen, OnlySession, OnlyDelete, OnlyObject, SameLogs,
     SameTurns, SameConnected, SameLog, SameTurn, SameConnection
<1>7. Flags'
BY <1>1, Places DEF Inv, Flags, AttachedTo, RunsOn, OnlySession, OnlyDelete,
     OnlyObject, SameLogs, SameTurns, SameConnected, SameLog, SameTurn,
     SameConnection
<1>8. Numbers'
BY <1>1, Places DEF Inv, Numbers, RunsOn, OnlySession, OnlyDelete, OnlyObject,
     SameLogs, SameTurns, SameConnected, SameLog, SameTurn, SameConnection
<1>9. Settled'
BY <1>1, Places DEF Inv, Settled, Kept, OnlySession, OnlyDelete, OnlyObject,
     SameLogs, SameTurns, SameConnected, SameLog, SameTurn, SameConnection
<1>10. Durable'
BY <1>1, Places DEF Inv, Durable, OnlySession, OnlyDelete, OnlyObject, SameLogs,
     SameTurns, SameConnected, SameLog, SameTurn, SameConnection
<1>11. Serves
  <2>1. \A j \in Ids \ {i} : SameView(j)
    BY <1>1, Places DEF Inv, SameView, Shown, SameLogs, SameLog, OnlySession
  <2> QED
    BY <1>1, <2>1, ViewWithdrawn
<1> QED
  BY <1>2, <1>3, <1>4, <1>5, <1>6, <1>7, <1>8, <1>9, <1>10, <1>11 DEF Inv

(* A DELETE of a live session that runs no turn.                             *)
LEMMA DeleteIdleKeeps ==
  ASSUME Inv, TypeOK', NEW d \in Deletes, NEW i \in Ids, NEW o \in Objects,
         NEW ok \in BOOLEAN, DeleteLive(d, i, o, ok), ~obj[o].busy
  PROVE  Inv' /\ Serves
<1>1. /\ up /\ del[d].phase = "off" /\ sessions[i] = o /\ obj[o].id = i /\ ~obj[o].closed
      /\ obj[o].runtime = "open" /\ obj[o].acloses = 0 /\ i \in created /\ i # None
      /\ OnlySession(i) /\ sessions'[i] = None /\ deleted' = deleted \cup {i}
      /\ Shuts(d, i, o, ok)
      /\ UNCHANGED <<up, sock, created, gone, acked>>
  <2>1. /\ up /\ del[d].phase = "off" /\ sessions[i] = o /\ i # None /\ obj[o] \in Object
        /\ deleted' = deleted \cup {i} /\ UNCHANGED <<up, sock, created, gone, acked>>
    BY Nothing DEF Inv, TypeOK, DeleteLive, Live
  <2>2. /\ obj[o].id = i /\ i \in created /\ ~obj[o].closed
        /\ obj[o].runtime = "open" /\ obj[o].acloses = 0
    BY <2>1, Nothing DEF Inv, TypeOK, Object, References, Registry, RuntimeOpen
  <2>3. OnlySession(i) /\ sessions'[i] = None
    BY DEF Inv, TypeOK, DeleteLive, OnlySession
  <2>4. Shuts(d, i, o, ok)
    BY CloseIdleShuts DEF Inv, DeleteLive
  <2> QED
    BY <2>1, <2>2, <2>3, <2>4
<1>2. References'
BY <1>1, Places DEF Inv, References, Shuts, OnlySession, OnlyObject, OnlyDelete,
     OnlyRow, SameTurn, SameConnection
<1>3. InProcess'
BY <1>1, Places DEF Inv, InProcess, Shuts, OnlySession, OnlyObject, OnlyDelete,
     OnlyRow, SameTurn, SameConnection
<1>4. Registry'
BY <1>1, Places DEF Inv, Registry, Shuts, OnlySession, OnlyObject, OnlyDelete,
     OnlyRow, SameTurn, SameConnection
<1>5. OneCloser'
  <2>1. \A e \in Deletes \ {d} : del'[e] = del[e] /\ del[e].obj # o
    BY <1>1, Nothing, Places DEF Inv, References, OneCloser, OnlyDelete, Shuts
  <2>2. \A e \in Deletes \ {d} : del[e].phase # "off" =>
          del[e].obj \in Objects /\ obj'[del[e].obj] = obj[del[e].obj]
    BY <1>1, <2>1, Places DEF Inv, OnlyObject, Shuts
  <2> QED
    BY <1>1, <2>1, <2>2 DEF Inv, OneCloser, Shuts
<1>6. RuntimeOpen'
BY <1>1, Places DEF Inv, RuntimeOpen, Shuts, OnlySession, OnlyObject, OnlyDelete,
     OnlyRow, SameTurn, SameConnection
<1>7. Flags'
BY <1>1, Places DEF Inv, Flags, AttachedTo, RunsOn, Shuts, OnlySession, OnlyObject,
     OnlyDelete, OnlyRow, SameTurn, SameConnection
<1>8. Numbers'
  <2>1. \A t \in Sockets : ~(sock[t].turn = "running" /\ sock[t].obj = o)
    BY <1>1 DEF Inv, Flags, RunsOn
  <2>2. \A p \in Objects : obj'[p].log = obj[p].log
    BY <1>1 DEF Shuts, OnlyObject
  <2>3. \A j \in Ids : store'[j] = store[j] \/ store'[j] = obj[o].log
    BY <1>1 DEF Shuts, OnlyRow
  <2>4. used'.turns = used.turns /\ UNCHANGED sock
    BY <1>1 DEF Shuts
  <2> QED
    BY <1>1, <2>1, <2>2, <2>3, <2>4 DEF Inv, Numbers, RunsOn
<1>9. Settled'
BY <1>1, Places DEF Inv, Settled, Kept, Shuts, OnlySession, OnlyObject, OnlyDelete,
     OnlyRow, SameTurn, SameConnection
<1>10. Durable'
BY <1>1, Places DEF Inv, Durable, Shuts, OnlySession, OnlyObject, OnlyDelete,
     OnlyRow, SameTurn, SameConnection
<1>11. Serves
  <2>1. \A j \in Ids \ {i} : SameView(j)
    BY <1>1, Places DEF Inv, SameView, Shown, OnlySession, Shuts, OnlyRow, OnlyObject
  <2> QED
    BY <1>1, <2>1, ViewWithdrawn
<1> QED
  BY <1>2, <1>3, <1>4, <1>5, <1>6, <1>7, <1>8, <1>9, <1>10, <1>11 DEF Inv

(* A DELETE that has waited for the turn.                                    *)
LEMMA DeleteResumesKeeps ==
  ASSUME Inv, TypeOK', NEW d \in Deletes, NEW ok \in BOOLEAN, DeleteResumes(d, ok)
  PROVE  Inv' /\ Serves
<1> DEFINE i == del[d].id
           o == del[d].obj
<1>1. /\ del[d].phase = "waiting" /\ o \in Objects /\ i \in Ids
      /\ i \in deleted /\ i \in created
      /\ obj[o].id = i /\ obj[o].closed /\ ~obj[o].busy
      /\ obj[o].runtime = "open" /\ obj[o].acloses = 0
      /\ Shuts(d, i, o, ok)
      /\ UNCHANGED <<up, sessions, sock, created, deleted, gone, acked>>
  <2>1. /\ del[d].phase = "waiting" /\ o \in Objects /\ i \in Ids /\ i \in deleted
        /\ obj[o].id = i /\ ~obj[o].busy
        /\ UNCHANGED <<up, sessions, sock, created, deleted, gone, acked>>
    BY Places DEF Inv, DeleteResumes, history
  <2>2. obj[o].runtime = "open" /\ obj[o].acloses = 0 /\ obj[o].closed /\ i \in created
    BY <2>1 DEF Inv, TypeOK, OneCloser, RuntimeOpen
  <2>3. Shuts(d, i, o, ok)
    BY <2>1, CloseIdleShuts DEF Inv, DeleteResumes
  <2> QED
    BY <2>1, <2>2, <2>3
<1> HIDE DEF i, o
<1>2. References'
BY <1>1, Places DEF Inv, References, Shuts, OnlyObject, OnlyDelete
<1>3. InProcess'
BY <1>1 DEF Inv, InProcess, Shuts, OnlyObject
<1>4. Registry'
BY <1>1, Places DEF Inv, Registry, Shuts, OnlyObject
<1>5. OneCloser'
  <2>1. \A e \in Deletes \ {d} : del'[e] = del[e] /\ del[e].obj # o
    BY <1>1 DEF Inv, References, OneCloser, OnlyDelete, Shuts, o
  <2>2. \A e \in Deletes \ {d} : del[e].phase # "off" =>
          del[e].obj \in Objects /\ obj'[del[e].obj] = obj[del[e].obj]
    BY <1>1, <2>1, Places DEF Inv, OnlyObject, Shuts
  <2> QED
    BY <1>1, <2>1, <2>2 DEF Inv, OneCloser, Shuts
<1>6. RuntimeOpen'
BY <1>1 DEF Inv, RuntimeOpen, Shuts, OnlyObject, SameTurn
<1>7. Flags'
BY <1>1 DEF Inv, Flags, AttachedTo, RunsOn, Shuts, OnlyObject, SameTurn, SameConnection
<1>8. Numbers'
  <2>1. \A t \in Sockets : ~(sock[t].turn = "running" /\ sock[t].obj = o)
    BY <1>1 DEF Inv, Flags, RunsOn
  <2>2. \A p \in Objects : obj'[p].log = obj[p].log
    BY <1>1 DEF Shuts, OnlyObject
  <2>3. \A j \in Ids : store'[j] = store[j] \/ store'[j] = obj[o].log
    BY <1>1 DEF Shuts, OnlyRow
  <2>4. used'.turns = used.turns /\ UNCHANGED sock
    BY <1>1 DEF Shuts
  <2> QED
    BY <1>1, <2>1, <2>2, <2>3, <2>4 DEF Inv, Numbers, RunsOn
<1>9. Settled'
BY <1>1, Places DEF Inv, Settled, Kept, Shuts, OnlyObject, OnlyRow
<1>10. Durable'
BY <1>1, Places DEF Inv, Durable, Shuts, OnlyObject, OnlyRow
<1>11. Serves
  <2>1. \A j \in Ids : SameView(j)
BY <1>1, Places DEF Inv, SameView, Shown, Shuts, OnlyObject, OnlyRow
  <2> QED
    BY <1>1, <2>1, ViewKept
<1> QED
  BY <1>2, <1>3, <1>4, <1>5, <1>6, <1>7, <1>8, <1>9, <1>10, <1>11 DEF Inv

(* The end of a DELETE.                                                      *)
LEMMA DeleteFinishesKeeps ==
  ASSUME Inv, TypeOK', NEW d \in Deletes, NEW ok \in BOOLEAN, DeleteFinishes(d, ok)
  PROVE  Inv' /\ Serves
<1> DEFINE i == del[d].id
<1>1. /\ del[d].phase = "closing" /\ i \in Ids /\ i \in deleted
      /\ OnlyDelete(d) /\ del'[d].phase = "off" /\ del'[d].obj = None
      /\ OnlyRow(i) /\ (store'[i] = NoRow \/ store'[i] = store[i])
      /\ used'.turns = used.turns
      /\ UNCHANGED <<up, sessions, obj, sock, created, deleted, acked>>
  <2>1. /\ del[d].phase = "closing" /\ i \in Ids /\ i \in deleted
        /\ UNCHANGED <<up, sessions, obj, sock, created, deleted, acked>>
    BY Places DEF Inv, DeleteFinishes
  <2>2. OnlyDelete(d) /\ del'[d].phase = "off" /\ del'[d].obj = None
    BY DEF Inv, TypeOK, DeleteFinishes, NoDelete, OnlyDelete
  <2>3. /\ OnlyRow(i) /\ (store'[i] = NoRow \/ store'[i] = store[i])
        /\ used'.turns = used.turns
    BY <2>1 DEF Inv, TypeOK, DeleteFinishes, Transaction, OnlyRow
  <2> QED
    BY <2>1, <2>2, <2>3
<1> HIDE DEF i
<1>2. References'
BY <1>1, Places DEF Inv, References, OnlyDelete, OnlyRow
<1>3. InProcess'
BY <1>1, Places DEF Inv, InProcess, OnlyDelete, OnlyRow
<1>4. Registry'
BY <1>1, Places DEF Inv, Registry, OnlyDelete, OnlyRow
<1>5. OneCloser'
  <2>1. \A e \in Deletes \ {d} : del'[e] = del[e]
    BY <1>1 DEF OnlyDelete
  <2>2. \A e \in Deletes : del[e].phase # "off" => del[e].obj # None
    BY Nothing, Places DEF Inv
  <2> QED
    BY <1>1, <2>1, <2>2 DEF Inv, OneCloser
<1>6. RuntimeOpen'
BY <1>1, Places DEF Inv, RuntimeOpen, OnlyDelete, OnlyRow
<1>7. Flags'
BY <1>1, Places DEF Inv, Flags, AttachedTo, RunsOn, OnlyDelete, OnlyRow
<1>8. Numbers'
BY <1>1, Places DEF Inv, Numbers, RunsOn, OnlyDelete, OnlyRow
<1>9. Settled'
BY <1>1, Places DEF Inv, Settled, Kept, OnlyDelete, OnlyRow
<1>10. Durable'
BY <1>1, Places DEF Inv, Durable, OnlyDelete, OnlyRow
<1>11. Serves
  <2>1. \A j \in Ids : SameView(j)
BY <1>1, Nothing, Places DEF Inv, SameView, Shown, OnlyDelete, OnlyRow
  <2> QED
    BY <1>1, <2>1, ViewKept
<1> QED
  BY <1>2, <1>3, <1>4, <1>5, <1>6, <1>7, <1>8, <1>9, <1>10, <1>11 DEF Inv

(* A DELETE of a session that is only stored.                                *)
LEMMA DeleteStoredKeeps ==
  ASSUME Inv, TypeOK', NEW i \in Ids, NEW ok \in BOOLEAN, DeleteStored(i, ok)
  PROVE  Inv' /\ Serves
<1>1. /\ up /\ i \in created /\ sessions[i] = None /\ deleted' = deleted \cup {i}
      /\ OnlyRow(i) /\ (store'[i] = NoRow \/ store'[i] = store[i])
      /\ used'.turns = used.turns
      /\ UNCHANGED <<up, sessions, obj, sock, del, created, acked>>
  BY DEF Inv, TypeOK, DeleteStored, Transaction, OnlyRow
<1>2. References'
BY <1>1, Places DEF Inv, References, OnlyRow
<1>3. InProcess'
BY <1>1, Places DEF Inv, InProcess, OnlyRow
<1>4. Registry'
BY <1>1, Places DEF Inv, Registry, OnlyRow
<1>5. OneCloser'
BY <1>1, Places DEF Inv, OneCloser, OnlyRow
<1>6. RuntimeOpen'
BY <1>1, Places DEF Inv, RuntimeOpen, OnlyRow
<1>7. Flags'
BY <1>1, Places DEF Inv, Flags, AttachedTo, RunsOn, OnlyRow
<1>8. Numbers'
BY <1>1, Places DEF Inv, Numbers, RunsOn, OnlyRow
<1>9. Settled'
BY <1>1, Places DEF Inv, Settled, Kept, OnlyRow
<1>10. Durable'
BY <1>1, Places DEF Inv, Durable, OnlyRow
<1>11. Serves
  <2>1. \A j \in Ids \ {i} : SameView(j)
    BY <1>1, Places DEF Inv, SameView, Shown, OnlyRow
  <2> QED
    BY <1>1, <2>1, ViewWithdrawn
<1> QED
  BY <1>2, <1>3, <1>4, <1>5, <1>6, <1>7, <1>8, <1>9, <1>10, <1>11 DEF Inv

(* A shutdown.                                                               *)
LEMMA CloseAllKeeps ==
  ASSUME Inv, TypeOK', NEW failing \in SUBSET Ids, CloseAll(failing)
  PROVE  Inv' /\ Serves
<1>1. /\ up /\ ~up'
      /\ \A s \in Sockets : sock[s].phase = "off" /\ sock[s].turn = "none"
      /\ \A d \in Deletes : del[d].phase = "off"
      /\ \A i \in Ids : sessions'[i] = None
      /\ \A p \in Objects :
           /\ obj'[p].id = obj[p].id /\ SameTurn(p) /\ SameConnection(p)
           /\ obj'[p].log = obj[p].log
           /\ \/ /\ obj[p].id \in Ids /\ sessions[obj[p].id] = p
                 /\ ~obj[p].closed /\ obj'[p].closed
                 /\ obj[p].acloses = 0 /\ obj'[p].acloses = 1
                 /\ obj'[p].runtime = "closed"
              \/ (\A i \in Ids : sessions[i] # p) /\ obj'[p] = obj[p]
      /\ \A i \in Ids : \/ store'[i] = store[i]
                        \/ sessions[i] # None /\ store'[i] = obj[sessions[i]].log
      /\ used'.turns = used.turns
      /\ UNCHANGED <<sock, del, created, deleted, gone, acked>>
  <2>1. /\ up /\ ~up'
        /\ \A s \in Sockets : sock[s].phase = "off" /\ sock[s].turn = "none"
        /\ \A d \in Deletes : del[d].phase = "off"
        /\ \A i \in Ids : sessions'[i] = None
        /\ UNCHANGED <<sock, del, created, deleted, gone, acked>>
    BY DEF Inv, References, CloseAll, history
  <2>2. ASSUME NEW p \in Objects, NEW i \in Ids, sessions[i] = p
        PROVE  /\ obj'[p].id = obj[p].id /\ SameTurn(p) /\ SameConnection(p)
               /\ obj'[p].log = obj[p].log /\ obj[p].id \in Ids /\ sessions[obj[p].id] = p
               /\ ~obj[p].closed /\ obj'[p].closed
               /\ obj[p].acloses = 0 /\ obj'[p].acloses = 1
               /\ obj'[p].runtime = "closed"
    <3>1. obj'[p] = ClosedObject(p, obj[p].id \notin failing)
      BY <2>2 DEF CloseAll, Live
    <3>2. /\ obj[p] \in Object /\ obj[p].id = i /\ ~obj[p].closed /\ obj[p].acloses = 0
      BY <2>2, Nothing DEF Inv, TypeOK, Object, References, Registry, RuntimeOpen
    <3> DEFINE ok == obj[p].id \notin failing
    <3>3. ok \in BOOLEAN
      OBVIOUS
    <3> HIDE DEF ok
    <3>4. /\ Aborted(p) # "none" <=> obj[p].abort # "none"
          /\ LET x == ClosedObject(p, ok)
             IN /\ x.id = obj[p].id /\ x.log = obj[p].log /\ x.closed
                /\ x.runtime = "closed" /\ x.acloses = obj[p].acloses + 1
                /\ x.busy = obj[p].busy /\ x.inner = obj[p].inner
                /\ x.abort = Aborted(p) /\ x.connected = obj[p].connected
      BY <3>3, ClosedTyped DEF Inv
    <3>5. obj'[p] = ClosedObject(p, ok)
      BY <3>1 DEF ok
    <3> QED
      BY <2>2, <3>2, <3>4, <3>5 DEF SameTurn, SameConnection
  <2>3. ASSUME NEW p \in Objects, \A i \in Ids : sessions[i] # p
        PROVE  obj'[p] = obj[p]
    BY <2>3 DEF CloseAll, Live
  <2>4. \A i \in Ids : \/ store'[i] = store[i]
                       \/ sessions[i] # None /\ store'[i] = obj[sessions[i]].log
    BY DEF CloseAll, Registered
  <2>5. used'.turns = used.turns
    BY DEF Inv, TypeOK, CloseAll
  <2> QED
    BY <2>1, <2>2, <2>3, <2>4, <2>5 DEF SameTurn, SameConnection
<1>2. References'
BY <1>1, Places DEF Inv, References
<1>3. InProcess'
BY <1>1, Places DEF Inv, InProcess
<1>4. Registry'
  <2>1. \A p \in Objects : \/ obj'[p].closed /\ obj'[p].id # None
                           \/ /\ obj'[p].id = obj[p].id /\ obj'[p].closed = obj[p].closed
                              /\ obj[p].id = None \/ obj[p].closed
    BY <1>1, Nothing, Places DEF Inv, Registry
  <2> QED
    BY <1>1, <2>1 DEF Inv, Registry
<1>5. OneCloser'
BY <1>1, Places DEF Inv, OneCloser
<1>6. RuntimeOpen'
  <2>1. \A p \in Objects : ~obj[p].busy
    BY <1>1 DEF Inv, Flags, RunsOn
  <2>2. \A p \in Objects : ~obj'[p].busy
    BY <1>1, <2>1 DEF SameTurn
  <2>3. ASSUME NEW p \in Objects
        PROVE  /\ obj'[p].acloses = IF obj'[p].runtime = "closed" THEN 1 ELSE 0
               /\ obj'[p].runtime = "closed" => obj'[p].closed
    <3>1. CASE obj'[p] = obj[p]
      BY <3>1 DEF Inv, RuntimeOpen
    <3>2. CASE obj'[p].closed /\ obj'[p].acloses = 1 /\ obj'[p].runtime = "closed"
      BY <3>2
    <3> QED
      BY <1>1, <3>1, <3>2
  <2> QED
    BY <2>2, <2>3 DEF RuntimeOpen
<1>7. Flags'
  <2>1. SameTurns /\ SameConnected /\ UNCHANGED sock
    BY <1>1 DEF SameTurns, SameConnected
  <2> QED
    BY <2>1 DEF Inv, Flags, AttachedTo, RunsOn, SameTurns, SameConnected, SameTurn,
       SameConnection
<1>8. Numbers'
BY <1>1, Places DEF Inv, Numbers, RunsOn
<1>9. Settled'
BY <1>1, Places DEF Inv, Settled, Kept
<1>10. Durable'
  <2>1. ASSUME NEW i \in Ids \ deleted, store'[i] # NoRow
        PROVE  acked[i] \subseteq ToSet(store'[i])
    <3>1. CASE store'[i] = store[i]
      BY <2>1, <3>1 DEF Inv, Durable
    <3>2. CASE sessions[i] # None /\ store'[i] = obj[sessions[i]].log
      <4>1. CASE store[i] = NoRow
        BY <2>1, <4>1 DEF Inv, Durable
      <4>2. CASE store[i] # NoRow
        <5>1. /\ acked[i] \subseteq ToSet(store[i]) /\ store[i] \in Log
              /\ store'[i] \in Log /\ IsPrefix(store[i], store'[i])
          BY <2>1, <3>2, <4>2, Places DEF Inv, TypeOK, Durable
        <5> QED
          BY <5>1, LogFacts
      <4> QED
        BY <4>1, <4>2
    <3> QED
      BY <1>1, <3>1, <3>2
  <2>2. ASSUME NEW i \in Ids, store'[i] = NoRow
        PROVE  store[i] = NoRow
    BY <1>1, <2>2, Nothing, Places DEF Inv
  <2>3. ASSUME NEW i \in Ids, i \notin created
        PROVE  store'[i] = NoRow /\ acked[i] = {}
    BY <1>1, <2>3, Nothing DEF Inv, References, Durable
  <2> QED
    BY <1>1, <2>1, <2>2, <2>3 DEF Inv, Durable
<1>11. Serves
  <2>1. ASSUME NEW i \in Ids \ deleted, sessions[i] = None
        PROVE  Shown(i) = store[i] /\ Shown(i)' = store[i]
    BY <1>1, <2>1 DEF Shown
  <2>2. ASSUME NEW i \in Ids \ deleted, sessions[i] # None
        PROVE  Shown(i) = obj[sessions[i]].log /\ Shown(i)' = store'[i]
    BY <1>1, <2>2 DEF Shown
  <2>3. ASSUME NEW i \in Ids \ deleted, store'[i] # NoRow
        PROVE  acked[i] \subseteq ToSet(store'[i])
    BY <1>1, <1>10, <2>3 DEF Durable
  <2>4. ASSUME NEW i \in Ids \ deleted, sessions[i] # None, store'[i] # NoRow
        PROVE  IsPrefix(store'[i], obj[sessions[i]].log) /\ obj[sessions[i]].log # NoRow
    BY <1>1, <2>4, Nothing, Places, LogFacts DEF Inv, Durable
  <2>5. ASSUME NEW i \in Ids \ deleted, store'[i] = NoRow
        PROVE  acked[i] = {}
    BY <1>1, <1>10, <2>5 DEF Durable
  <2>6. \A i \in Ids \ deleted : store[i] # NoRow => IsPrefix(store[i], store[i])
    BY LogFacts DEF Inv, TypeOK
  <2>7. ASSUME NEW i \in Ids \ deleted, sessions[i] = None
        PROVE  store'[i] = store[i]
    BY <1>1, <2>7
  <2>8. ASSUME NEW i \in Ids \ deleted
        PROVE  \/ /\ Shown(i) # NoRow /\ Shown(i)' # NoRow
                  /\ IsPrefix(Shown(i)', Shown(i)) /\ acked[i] \subseteq ToSet(Shown(i)')
               \/ Shown(i)' = NoRow /\ acked[i] = {}
    <3>1. CASE sessions[i] = None
      BY <2>1, <2>3, <2>5, <2>6, <2>7, <3>1
    <3>2. CASE sessions[i] # None
      BY <2>2, <2>3, <2>4, <2>5, <3>2
    <3> QED
      BY <3>1, <3>2
  <2> QED
    BY <1>1, <2>8, ViewShortened
<1> QED
  BY <1>2, <1>3, <1>4, <1>5, <1>6, <1>7, <1>8, <1>9, <1>10, <1>11 DEF Inv

(* A crash, and a start.                                                     *)
LEMMA CrashKeeps ==
  ASSUME Inv, TypeOK', Crash \/ Restart
  PROVE  Inv' /\ Serves
<1>1. /\ \A p \in Objects :
           /\ obj'[p].id = None /\ obj'[p].log = <<>> /\ ~obj'[p].busy /\ ~obj'[p].connected
           /\ ~obj'[p].closed /\ obj'[p].runtime = "open" /\ obj'[p].acloses = 0
           /\ obj'[p].inner = "idle" /\ obj'[p].abort = "none"
      /\ \A s \in Sockets : /\ sock'[s].phase = "off" /\ sock'[s].turn = "none"
                            /\ sock'[s].obj = None
      /\ \A d \in Deletes : del'[d].phase = "off" /\ del'[d].obj = None
      /\ \A i \in Ids : sessions'[i] = None
      /\ ToSet(<<>>) = {}
      /\ used'.turns = used.turns
      /\ UNCHANGED <<store, created, deleted, gone, acked>>
  <2>1. CASE Crash
    BY <2>1, LogFacts DEF Inv, TypeOK, Crash, history, NoObject, NewObject, NoSocket,
       NoDelete
  <2>2. CASE Restart
    <3>1. /\ \A s \in Sockets : sock'[s].phase = "off" /\ sock'[s].turn = "none"
                                /\ sock'[s].obj = None
          /\ \A d \in Deletes : del'[d].phase = "off" /\ del'[d].obj = None
          /\ \A i \in Ids : sessions'[i] = None
      BY <2>2 DEF Inv, InProcess, References, Restart
    <3> QED
      BY <2>2, <3>1, LogFacts DEF Restart, history, NoObject, NewObject
  <2> QED
    BY <2>1, <2>2
<1>2. References'
BY <1>1, Places DEF Inv, References
<1>3. InProcess'
BY <1>1, Places DEF Inv, InProcess
<1>4. Registry'
BY <1>1, Places DEF Inv, Registry
<1>5. OneCloser'
BY <1>1, Places DEF Inv, OneCloser
<1>6. RuntimeOpen'
BY <1>1, Places DEF Inv, RuntimeOpen
<1>7. Flags'
BY <1>1, Places DEF Inv, Flags, AttachedTo, RunsOn
<1>8. Numbers'
BY <1>1, Places DEF Inv, Numbers, RunsOn
<1>9. Settled'
BY <1>1, Places DEF Inv, Settled, Kept
<1>10. Durable'
BY <1>1, Places DEF Inv, Durable
<1>11. Serves
  <2>1. CASE Crash
    <3>1. up /\ ~up'
      BY <2>1 DEF Crash
    <3>2. ASSUME NEW i \in Ids \ deleted
          PROVE  \/ /\ Shown(i) # NoRow /\ Shown(i)' # NoRow
                    /\ IsPrefix(Shown(i)', Shown(i)) /\ acked[i] \subseteq ToSet(Shown(i)')
                 \/ Shown(i)' = NoRow /\ acked[i] = {}
      <4>1. Shown(i)' = store[i]
        BY <1>1 DEF Shown
      <4>2. CASE store[i] = NoRow
        BY <4>1, <4>2 DEF Inv, Durable
      <4>3. CASE store[i] # NoRow /\ sessions[i] = None
        <5>1. Shown(i) = store[i] /\ IsPrefix(store[i], store[i])
          BY <4>3, LogFacts DEF Inv, TypeOK, Shown
        <5> QED
          BY <4>1, <4>3, <5>1 DEF Inv, Durable
      <4>4. CASE store[i] # NoRow /\ sessions[i] # None
        <5>1. Shown(i) = obj[sessions[i]].log
          BY <4>4 DEF Shown
        <5> QED
          BY <4>1, <4>4, <5>1, Nothing, Places DEF Inv, Durable
      <4> QED
        BY <4>2, <4>3, <4>4
    <3> QED
      BY <1>1, <3>1, <3>2, ViewShortened
  <2>2. CASE Restart
    <3>1. ~up /\ up'
      BY <2>2 DEF Restart
    <3>2. \A i \in Ids : Shown(i)' = Shown(i)
      BY <1>1, <3>1 DEF Inv, InProcess, Shown
    <3>3. Served!Start
      BY <1>1, <3>1, <3>2 DEF Served!Start
    <3> QED
      BY <3>3 DEF Serves, Served!Next
  <2> QED
    BY <2>1, <2>2
<1> QED
  BY <1>2, <1>3, <1>4, <1>5, <1>6, <1>7, <1>8, <1>9, <1>10, <1>11 DEF Inv

-----------------------------------------------------------------------------
(* The first state.                                                          *)
LEMMA InitHolds == Init => Inv /\ Served!Init
<1> SUFFICES ASSUME Init PROVE Inv /\ Served!Init
  OBVIOUS
<1>1. \A o \in Objects :
        /\ obj[o].id = None /\ obj[o].log = <<>> /\ ~obj[o].busy /\ ~obj[o].connected
        /\ ~obj[o].closed /\ obj[o].runtime = "open" /\ obj[o].acloses = 0
        /\ obj[o].inner = "idle" /\ obj[o].abort = "none"
  BY DEF Init, NoObject, NewObject
<1>2. /\ \A s \in Sockets : /\ sock[s].phase = "off" /\ sock[s].turn = "none"
                            /\ sock[s].obj = None
      /\ \A d \in Deletes : del[d].phase = "off" /\ del[d].obj = None
      /\ \A i \in Ids : sessions[i] = None /\ store[i] = NoRow /\ acked[i] = {}
      /\ up /\ created = {} /\ deleted = {} /\ used.turns = 0
  BY DEF Init, NoSocket, NoDelete
<1>3. TypeOK
  <2>1. NoObject \in Object /\ NoSocket \in Socket /\ NoDelete \in Delete
    BY HandlersTyped, NewObjectTyped, LogFacts DEF NoObject
  <2>2. used \in [turns: 0..MaxTurns, commands: 0..MaxCommands,
                  faults: 0..MaxFaults, crashes: 0..MaxCrashes]
    BY ChatAssumption DEF Init
  <2> QED
    BY <2>1, <2>2 DEF Init, TypeOK
<1>4. References /\ InProcess /\ Registry /\ OneCloser /\ RuntimeOpen
  BY <1>1, <1>2 DEF References, InProcess, Registry, OneCloser, RuntimeOpen
<1>5. Flags
  BY <1>1, <1>2, Nothing DEF Flags, AttachedTo, RunsOn
<1>6. Numbers /\ Settled /\ Durable
  BY <1>1, <1>2, LogFacts DEF Numbers, Settled, Kept, Durable
<1>7. Served!Init
  BY <1>2 DEF Served!Init, Shown, Init
<1> QED
  BY <1>3, <1>4, <1>5, <1>6, <1>7 DEF Inv

(* Every step keeps the invariant and is a step of the promise.              *)
LEMMA EveryStep == Inv /\ [Next]_vars => Inv' /\ Serves
<1> SUFFICES ASSUME Inv, [Next]_vars PROVE Inv' /\ Serves
  OBVIOUS
<1>1. TypeOK'
  BY TypeStep DEF Inv
<1>2. CASE UNCHANGED vars
  <2>1. Inv'
    BY <1>2 DEF vars, Inv, TypeOK, References, InProcess, Registry, OneCloser,
       RuntimeOpen,
                Flags, AttachedTo, RunsOn, Numbers, Settled, Kept, Durable
  <2>2. \A i \in Ids : SameView(i)
    BY <1>2 DEF vars, SameView, Shown
  <2> QED
    BY <1>2, <2>1, <2>2, ViewKept DEF vars
<1>3. ASSUME NEW i \in Ids, NEW o \in Objects, Get(i, o)
      PROVE  Inv' /\ Serves
  BY <1>1, <1>3, GetKeeps
<1>4. ASSUME NEW i \in Ids, NEW o \in Objects, NEW ok \in BOOLEAN, Create(i, o, ok)
      PROVE  Inv' /\ Serves
  BY <1>1, <1>4, CreateKeeps
<1>5. ASSUME NEW s \in Sockets,
             Prompt(s) \/ Abort(s) \/ Disconnect(s) \/ Drained(s) \/ BeginTurn(s) \/ Progress(s)
      PROVE  Inv' /\ Serves
  BY <1>1, <1>5, PromptKeeps, AbortKeeps, DisconnectKeeps, DrainedKeeps, BeginTurnKeeps,
     ProgressKeeps
<1>6. ASSUME NEW s \in Sockets, NEW i \in Ids, NEW o \in Objects, Connect(s, i, o)
      PROVE  Inv' /\ Serves
  BY <1>1, <1>6, AttachKeeps, HydrateAndAttachKeeps DEF Connect
<1>7. ASSUME NEW s \in Sockets, NEW ok \in BOOLEAN, NEW grows \in BOOLEAN,
             Command(s, grows, ok)
      PROVE  Inv' /\ Serves
  BY <1>1, <1>7, CommandKeeps
<1>8. ASSUME NEW s \in Sockets, NEW ok \in BOOLEAN, TurnStep(s, ok) \/ Refused(s, ok)
      PROVE  Inv' /\ Serves
  BY <1>1, <1>8, TaskEndKeeps DEF TaskStep
<1>9. ASSUME NEW d \in Deletes, NEW ok \in BOOLEAN, DeleteStep(d, ok)
      PROVE  Inv' /\ Serves
  BY <1>1, <1>9, DeleteResumesKeeps, DeleteFinishesKeeps DEF DeleteStep
<1>10. ASSUME NEW d \in Deletes, NEW ok \in BOOLEAN, NEW i \in Ids, NEW o \in Objects,
              DeleteLive(d, i, o, ok)
       PROVE  Inv' /\ Serves
  BY <1>1, <1>10, DeleteWaitsKeeps, DeleteIdleKeeps
<1>11. ASSUME NEW i \in Ids, NEW ok \in BOOLEAN, DeleteStored(i, ok)
       PROVE  Inv' /\ Serves
  BY <1>1, <1>11, DeleteStoredKeeps
<1>12. ASSUME NEW failing \in SUBSET Ids, CloseAll(failing)
       PROVE  Inv' /\ Serves
  BY <1>1, <1>12, CloseAllKeeps
<1>13. CASE Crash \/ Restart
  BY <1>1, <1>13, CrashKeeps
<1>14. ASSUME NEW o \in Objects, Finalize(o)
       PROVE  Inv' /\ Serves
  BY <1>1, <1>14, FinalizeKeeps
<1> QED
  BY <1>2, <1>3, <1>4, <1>5, <1>6, <1>7, <1>8, <1>9, <1>10, <1>11, <1>12, <1>13, <1>14
     DEF Next

(* The invariant the other results follow from.                              *)
THEOREM InvariantHolds == Spec => []Inv
<1>1. Init => Inv
  BY InitHolds
<1>2. Inv /\ [Next]_vars => Inv'
  BY EveryStep
<1> QED
  BY <1>1, <1>2, PTL DEF Spec

(* Mini counts a turn the session does not know of only after a fault.       *)
Refusals == \A o \in Objects : obj[o].inner \in {"orphaned", "stuck"} => used.faults > 0
NoneLeft == \A o \in Objects : obj'[o].inner \in {obj[o].inner, "idle", "running"}

(* No step takes a fault back, and only one that spends a fault leaves a     *)
(* turn of mini's behind.                                                    *)
LEMMA FaultsAreSpent ==
  ASSUME Inv, [Next]_vars
  PROVE  used'.faults >= used.faults /\ (NoneLeft \/ used'.faults > 0)
<1> USE DEF history
<1>1. /\ used.faults \in Nat
      /\ used \in [turns: 0..MaxTurns, commands: 0..MaxCommands,
                   faults: 0..MaxFaults, crashes: 0..MaxCrashes]
  BY ChatAssumption DEF Inv, TypeOK
<1>2. \A i, row, ok : Transaction(i, row, ok) => used'.faults >= used.faults
  BY <1>1 DEF Transaction
<1>3. \A i, row, ok : Locked(i, row, ok) => used'.faults > used.faults
  BY <1>1 DEF Locked
<1>4. /\ obj \in [Objects -> Object]
      /\ \A s \in Sockets : sock[s].phase # "off" \/ sock[s].turn # "none"
                             => sock[s].obj \in Objects
      /\ \A d \in Deletes : del[d].phase # "off" => del[d].obj \in Objects
  BY Places DEF Inv, TypeOK
<1>5. ASSUME NEW o \in Objects, OnlyObject(o), obj'[o].inner \in {obj[o].inner, "idle", "running"}
      PROVE  NoneLeft
  BY <1>5 DEF OnlyObject, NoneLeft
<1>6. CASE UNCHANGED vars
  BY <1>1, <1>6 DEF vars, NoneLeft
<1>7. ASSUME NEW i \in Ids, NEW o \in Objects, Get(i, o)
      PROVE  used' = used /\ NoneLeft
  <2>1. obj' = [obj EXCEPT ![o] = NewObject(i, store[i])] \/ obj' = obj
    BY <1>7 DEF Get, ObjectsAfterGet
  <2>2. NewObject(i, store[i]).inner = "idle"
    BY DEF NewObject
  <2> QED
    BY <1>4, <1>7, <2>1, <2>2 DEF Get, NoneLeft
<1>8. ASSUME NEW i \in Ids, NEW o \in Objects, NEW ok \in BOOLEAN, Create(i, o, ok)
      PROVE  used'.faults >= used.faults /\ NoneLeft
  <2>1. [NewObject(i, <<>>) EXCEPT !.saved = ok].inner = "idle"
    BY DEF NewObject
  <2> QED
    BY <1>2, <1>4, <1>8, <2>1 DEF Create, NoneLeft
<1>9. ASSUME NEW s \in Sockets, NEW i \in Ids, NEW o \in Objects, Connect(s, i, o)
      PROVE  used' = used /\ NoneLeft
  <2> DEFINE objects == ObjectsAfterGet(i, o)
  <2>1. /\ objects \in [Objects -> Object]
        /\ \A p \in Objects : objects[p].inner \in {obj[p].inner, "idle"}
    <3>1. NewObject(i, store[i]).inner = "idle"
      BY DEF NewObject
    <3> QED
      BY <1>4, <1>9, <3>1, HydratedTyped DEF Inv, Connect, ObjectsAfterGet
  <2>2. obj' = [objects EXCEPT ![o].connected = TRUE]
    BY <1>9 DEF Connect
  <2> HIDE DEF objects
  <2>3. \A p \in Objects : obj'[p].inner = objects[p].inner
    BY <2>1, <2>2 DEF Object
  <2> QED
    BY <1>9, <2>1, <2>3 DEF Connect, NoneLeft
<1>10. ASSUME NEW s \in Sockets, Prompt(s) \/ Drained(s)
       PROVE  used'.faults = used.faults /\ NoneLeft
  BY <1>1, <1>10 DEF Prompt, Drained, NoneLeft
<1>11. ASSUME NEW s \in Sockets, Abort(s)
       PROVE  used' = used /\ NoneLeft
  BY <1>4, <1>11 DEF Abort, NoneLeft, Object
<1>12. ASSUME NEW s \in Sockets, Disconnect(s)
       PROVE  used' = used /\ NoneLeft
  <2>1. \A p \in Objects : LeftAs(p, obj, s)
    BY <1>4, <1>12, LeaveFields DEF Disconnect
  <2> QED
    BY <1>12, <2>1 DEF Disconnect, LeftAs, NoneLeft
<1>13. ASSUME NEW s \in Sockets, NEW ok \in BOOLEAN, NEW grows \in BOOLEAN,
              Command(s, grows, ok)
       PROVE  used'.faults >= used.faults /\ NoneLeft
  <2> DEFINE objects == ObjectsAfterCommand(sock[s].obj, grows, ok)
             o == sock[s].obj
             log == LogAfterCommand(o, grows)
  <2>1. o \in Objects /\ obj[o] \in Object
    BY <1>4, <1>13 DEF Command
  <2>2. log \in Log
    <3>1. obj[o].log \in Log
      BY <2>1 DEF Object
    <3> QED
      BY <3>1, LogFacts DEF LogAfterCommand
  <2> HIDE DEF log
  <2>3. [obj[o] EXCEPT !.log = log, !.saved = ok] \in Object
    BY <2>1, <2>2, ObjectUpdates
  <2>4. /\ objects \in [Objects -> Object]
        /\ \A p \in Objects : objects[p].inner = obj[p].inner /\ objects[p].abort = obj[p].abort
    BY <1>4, <2>1, <2>3 DEF ObjectsAfterCommand, Object, log
  <2>5. obj' = objects \/ obj' = ObjectAfterLeave(s, objects)
    BY <1>13 DEF Command
  <2> HIDE DEF objects
  <2>6. obj' = ObjectAfterLeave(s, objects) => \A p \in Objects : LeftAs(p, objects, s)
    BY <2>1, <2>4, LeaveFields
  <2>7. NoneLeft
    <3>1. CASE obj' = objects
      BY <2>4, <3>1 DEF NoneLeft
    <3>2. CASE obj' = ObjectAfterLeave(s, objects)
      <4>1. \A p \in Objects : obj'[p].inner = obj[p].inner
        BY <2>4, <2>6, <3>2 DEF LeftAs
      <4> QED
        BY <4>1 DEF NoneLeft
    <3> QED
      BY <2>5, <3>1, <3>2
  <2>8. used'.faults >= used.faults
    <3> DEFINE spent == [used EXCEPT !.commands = used.commands + 1]
    <3>1. spent \in [turns: 0..MaxTurns, commands: Nat, faults: 0..MaxFaults,
                     crashes: 0..MaxCrashes] /\ spent.faults = used.faults
      BY <1>1
    <3>2. used' = spent \/ used' = [spent EXCEPT !.faults = used.faults + 1]
      BY <1>13, <3>1 DEF Command
    <3> HIDE DEF spent
    <3> QED
      BY <1>1, <3>1, <3>2
  <2> QED
    BY <2>7, <2>8
<1>14. ASSUME NEW s \in Sockets, BeginTurn(s)
       PROVE  used' = used /\ NoneLeft
  BY <1>4, <1>14 DEF BeginTurn, NoneLeft, Object
<1>15. ASSUME NEW s \in Sockets, Progress(s)
       PROVE  used' = used /\ NoneLeft
  BY <1>4, <1>15 DEF Progress, NoneLeft, Object
<1>16. ASSUME NEW s \in Sockets, NEW ok \in BOOLEAN, TurnStep(s, ok)
       PROVE  used'.faults >= used.faults /\ NoneLeft
  <2>1. PICK log : EndTurn(s, log, ok)
    BY <1>16 DEF TurnStep, Answered, TurnAborted, TurnRaises
  <2>2. sock[s].obj \in Objects
    BY <1>4, <1>16 DEF TurnStep, Answered, TurnAborted, TurnRaises
  <2>3. NoneLeft
    <3> DEFINE o == sock[s].obj
               x == [obj[o] EXCEPT !.log = log, !.busy = FALSE, !.inner = "idle",
                                   !.abort = "none", !.saved = ok]
    <3>1. obj' = [obj EXCEPT ![o] = x]
      BY <1>4, <2>1, <2>2 DEF EndTurn
    <3>2. x.inner = "idle"
      BY <1>4, <2>2 DEF Object
    <3> HIDE DEF x
    <3> QED
      BY <1>4, <2>2, <3>1, <3>2 DEF NoneLeft
  <2> QED
    BY <1>2, <2>1, <2>3 DEF EndTurn
<1>17. ASSUME NEW s \in Sockets, NEW ok \in BOOLEAN, BeginRefused(s, ok)
       PROVE  used'.faults >= used.faults /\ NoneLeft
  <2>1. NoneLeft
    BY <1>4, <1>17 DEF BeginRefused, Starts, NoneLeft, Object
  <2> QED
    BY <1>1, <1>2, <1>3, <1>17, <2>1 DEF BeginRefused, Locked
<1>18. ASSUME NEW s \in Sockets, NEW ok \in BOOLEAN,
              BeginStuck(s, ok) \/ TraceRefused(s, ok)
       PROVE  used'.faults > used.faults
  BY <1>3, <1>18 DEF BeginStuck, TraceRefused
<1>19. ASSUME NEW o \in Objects, Finalize(o)
       PROVE  used' = used /\ NoneLeft
  BY <1>4, <1>19 DEF Finalize, NoneLeft, Object
<1>20. ASSUME NEW d \in Deletes, NEW i \in Ids, NEW o \in Objects, NEW ok \in BOOLEAN,
              CloseIdle(d, i, o, ok)
       PROVE  used'.faults >= used.faults /\ NoneLeft
  <2>1. Shuts(d, i, o, ok)
    BY <1>20, CloseIdleShuts DEF Inv
  <2>2. NoneLeft
    BY <1>5, <2>1 DEF Shuts, SameTurn
  <2> QED
    BY <1>2, <1>20, <2>2 DEF CloseIdle
<1>21. ASSUME NEW d \in Deletes, NEW ok \in BOOLEAN, DeleteStep(d, ok)
       PROVE  used'.faults >= used.faults /\ NoneLeft
  <2>1. CASE DeleteResumes(d, ok)
    BY <1>4, <1>20, <2>1, Places DEF Inv, DeleteResumes
  <2>2. CASE DeleteFinishes(d, ok)
    BY <1>1, <1>2, <2>2 DEF DeleteFinishes, NoneLeft
  <2> QED
    BY <1>21, <2>1, <2>2 DEF DeleteStep
<1>22. ASSUME NEW d \in Deletes, NEW ok \in BOOLEAN, NEW i \in Ids, NEW o \in Objects,
              DeleteLive(d, i, o, ok)
       PROVE  used'.faults >= used.faults /\ NoneLeft
  <2>1. CASE obj[o].busy
    <3> DEFINE a == Aborted(o)
    <3>1. obj' = [obj EXCEPT ![o].closed = TRUE, ![o].abort = a] /\ used' = used
      BY <1>22, <2>1 DEF DeleteLive
    <3> HIDE DEF a
    <3> QED
      BY <1>1, <1>4, <3>1 DEF NoneLeft, Object
  <2>2. CASE ~obj[o].busy
    BY <1>20, <1>22, <2>2 DEF DeleteLive
  <2> QED
    BY <2>1, <2>2
<1>23. ASSUME NEW i \in Ids, NEW ok \in BOOLEAN, DeleteStored(i, ok)
       PROVE  used'.faults >= used.faults /\ NoneLeft
  BY <1>2, <1>23 DEF DeleteStored, NoneLeft
<1>24. ASSUME NEW failing \in SUBSET Ids, CloseAll(failing)
       PROVE  used'.faults >= used.faults /\ NoneLeft
  <2>1. \A p \in Objects : obj'[p].inner = obj[p].inner
    <3>1. \A p \in Objects :
            obj'[p] = obj[p] \/ obj'[p] = ClosedObject(p, obj[p].id \notin failing)
      BY <1>24 DEF CloseAll
    <3>2. \A p \in Objects : ClosedObject(p, obj[p].id \notin failing).inner = obj[p].inner
      BY ClosedTyped DEF Inv
    <3> QED
      BY <3>1, <3>2
  <2>2. Cardinality(failing) \in Nat
    BY <1>24, FailingIsFinite DEF Inv
  <2> QED
    BY <1>1, <1>24, <2>1, <2>2 DEF CloseAll, NoneLeft
<1>25. CASE Crash \/ Restart
  <2>1. \A p \in Objects : obj'[p].inner = "idle"
    BY <1>25 DEF Crash, Restart, NoObject, NewObject
  <2>2. used'.faults = used.faults
    BY <1>1, <1>25 DEF Crash, Restart
  <2> QED
    BY <1>1, <2>1, <2>2 DEF NoneLeft
<1> DEFINE Goal == used'.faults >= used.faults /\ (NoneLeft \/ used'.faults > 0)
<1>26. ASSUME used'.faults > used.faults PROVE Goal
  BY <1>1, <1>26, EveryStep, ChatAssumption DEF Inv, TypeOK
<1>27. used' = used => used'.faults >= used.faults
  BY <1>1
<1>28. ASSUME NEW s \in Sockets, NEW ok \in BOOLEAN, Refused(s, ok)
       PROVE  Goal
  BY <1>17, <1>18, <1>26, <1>28 DEF Refused
<1>29. ASSUME NEW s \in Sockets, Prompt(s) \/ Drained(s)
       PROVE  Goal
  BY <1>1, <1>10, <1>29
<1> HIDE DEF Goal
<1> QED
  <2>1. (used' = used \/ used'.faults >= used.faults) /\ NoneLeft => Goal
    BY <1>27 DEF Goal
  <2> QED
    BY <2>1, <1>6, <1>7, <1>8, <1>9, <1>11, <1>12, <1>13, <1>14, <1>15, <1>16, <1>19, <1>21,
       <1>22, <1>23, <1>24, <1>25, <1>28, <1>29 DEF Next, Goal

(* So mini is behind only after a fault.                                     *)
LEMMA RefusalsHold == Spec => []Refusals
<1>1. Init => Refusals
  BY DEF Init, Refusals, NoObject, NewObject
<1>2. Inv /\ Refusals /\ [Next]_vars => Refusals'
  <2> SUFFICES ASSUME Inv, Refusals, [Next]_vars, NEW o \in Objects,
                      obj'[o].inner \in {"orphaned", "stuck"}
               PROVE  used'.faults > 0
    BY DEF Refusals
  <2>1. used.faults \in Nat /\ used'.faults \in Nat
    BY EveryStep, ChatAssumption DEF Inv, TypeOK
  <2> QED
    BY <2>1, FaultsAreSpent DEF Refusals, NoneLeft
<1> QED
  BY <1>1, <1>2, InvariantHolds, PTL DEF Spec

(* Type correctness, for any number of sessions, connections and turns.      *)
THEOREM TypesHold == Spec => []TypeOK
<1>1. Inv => TypeOK
  BY DEF Inv
<1> QED
  BY <1>1, InvariantHolds, PTL

(* CHAT-006: whatever the connections, requests and faults do, a session has *)
(* one conversation at a time: one object in the manager's map, one attached *)
(* connection, one turn.  The flags of the connection, of the session and of *)
(* mini's turn with its abort event say so; mini's may stay behind only      *)
(* after a refused write.                                                    *)
THEOREM ConversationsAreSingle == Spec => []OneConversation
<1>1. Inv /\ Refusals => OneConversation
  <2> SUFFICES ASSUME Inv, Refusals PROVE OneConversation
    OBVIOUS
  <2>1. ASSUME NEW i \in Kept, NEW o \in Objects, obj[o].id = i, ~obj[o].closed
        PROVE  Live(i, o)
    BY <2>1, Nothing DEF Inv, Registry, Live, Kept
  <2>2. ASSUME NEW o \in Objects
        PROVE  /\ Cardinality(Attached(o)) <= 1 /\ Cardinality(Running(o)) <= 1
               /\ obj[o].connected <=> (Attached(o) # {})
               /\ obj[o].busy <=> (Running(o) # {})
               /\ (obj[o].inner = "running") <=> (Running(o) # {})
               /\ (obj[o].abort # "none") <=> (obj[o].inner # "idle")
               /\ obj[o].inner \in {"orphaned", "stuck"} => used.faults > 0
    <3>1. /\ obj[o].connected <=> (Attached(o) # {})
          /\ obj[o].busy <=> (Running(o) # {})
          /\ (obj[o].inner = "running") <=> (Running(o) # {})
          /\ (obj[o].abort # "none") <=> (obj[o].inner # "idle")
      BY DEF Inv, Flags, AttachedTo, RunsOn, Attached, Running
    <3>2. /\ Attached(o) = {} \/ \E s \in Sockets : Attached(o) = {s}
          /\ Running(o) = {} \/ \E s \in Sockets : Running(o) = {s}
      <4>1. \A s, t \in Attached(o) : s = t
        BY DEF Inv, Flags, AttachedTo, Attached
      <4>2. \A s, t \in Running(o) : s = t
        BY DEF Inv, Flags, RunsOn, Running
      <4>3. Attached(o) \subseteq Sockets /\ Running(o) \subseteq Sockets
        BY DEF Attached, Running
      <4> QED
        BY <4>1, <4>2, <4>3
    <3>3. Cardinality({}) = 0 /\ \A s \in Sockets : Cardinality({s}) = 1
      BY FS_EmptySet, FS_Singleton
    <3> QED
      BY <3>1, <3>2, <3>3 DEF Refusals
  <2> QED
    BY <2>1, <2>2 DEF OneConversation
<1> QED
  BY <1>1, InvariantHolds, RefusalsHold, PTL

(* CHAT-008: the adapter is closed once, never under a running turn, and no  *)
(* client can reach a closed object.                                         *)
THEOREM AdaptersCloseOnce == Spec => []ClosedOnce
<1>1. Inv => ClosedOnce
  <2> SUFFICES ASSUME Inv, NEW o \in Objects
               PROVE  /\ obj[o].acloses = IF obj[o].runtime = "closed" THEN 1 ELSE 0
                      /\ obj[o].runtime = "closed" => obj[o].closed /\ ~obj[o].busy
                      /\ obj[o].closed => \A i \in Ids : sessions[i] # o
    BY DEF ClosedOnce
  <2>1. obj[o].closed => \A i \in Ids : sessions[i] # o
    BY Nothing DEF Inv, Registry
  <2> QED
    BY <2>1 DEF Inv, RuntimeOpen
<1> QED
  BY <1>1, InvariantHolds, PTL

(* SESSION-002 and SESSION-003: a row holds no piece of a running turn, and  *)
(* is the live conversation when none runs, unless the checkpoint raised.    *)
THEOREM SnapshotsAreSettled == Spec => []SnapshotIsSettled
<1>1. Inv => SnapshotIsSettled
  BY DEF Inv, Numbers, Settled, SnapshotIsSettled, Kept
<1> QED
  BY <1>1, InvariantHolds, PTL

(* SESSION-002 to SESSION-008: sessions, snapshots, handlers, faults and     *)
(* crashes implement the promise of Conversation: nothing a client saw       *)
(* complete is lost or rewritten before a DELETE.                            *)
THEOREM ConversationsAreServed == Spec => ServesConversations
<1>1. Init => Served!Init
  BY InitHolds
<1>2. Inv /\ [Next]_vars => [Served!Next]_(Served!vars)
  BY EveryStep DEF Serves
<1> QED
  BY <1>1, <1>2, InvariantHolds, PTL DEF Spec, ServesConversations, Served!Spec
=============================================================================
