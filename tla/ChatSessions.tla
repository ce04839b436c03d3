---------------------------- MODULE ChatSessions ----------------------------
(*****************************************************************************)
(* Browser chat: the session manager and its sessions (chat_sessions.py),    *)
(* their snapshots in SQLite (chat_persistence.py), and the REST and         *)
(* WebSocket handlers that drive them (api.py).                              *)
(*                                                                           *)
(* All of it runs on one asyncio thread, so a step is what a task does       *)
(* between two points where it really suspends.  SQLite calls, puts on the   *)
(* unbounded outgoing queue and the locks (never held across a suspension    *)
(* on these paths) do not suspend; the start of a created task,              *)
(* receive_json, the wait for a turn, the model and aclose do.               *)
(*                                                                           *)
(* A ChatSession object is told apart from the session id it serves: the     *)
(* manager can hold one object while an older one for the same id is still   *)
(* closing.  The entries of a session are reduced to the number of the       *)
(* turn that appended them, 0 for a compaction; MiniPy models their tree.    *)
(*****************************************************************************)
EXTENDS Naturals, Sequences, FiniteSets, SequencesExt

CONSTANTS
  Ids,       \* session ids: uuid4() never repeats one
  Objects,   \* ChatSession objects a process may hold at one time
  Sockets,   \* WebSocket connections
  Deletes,   \* concurrent DELETE requests
  None,      \* no object, no session id
  NoRow,     \* no snapshot stored
  MaxTurns, MaxCommands, MaxFaults, MaxCrashes  \* bounds, see used

ASSUME ChatAssumption ==
  /\ None \notin Objects \cup Ids
  /\ IsFiniteSet(Objects)
  /\ NoRow \notin Seq(0..MaxTurns)
  /\ {MaxTurns, MaxCommands, MaxFaults, MaxCrashes} \subseteq Nat

VARIABLES
  up,        \* the process runs
  sessions,  \* _sessions of the manager: id -> object
  obj,       \* the state of each object
  store,     \* chat_sessions: id -> entries of the snapshot
  sock,      \* the handler of each connection and its turn task
  del,       \* the handler of each DELETE
  created,   \* ids given out so far
  deleted,   \* history: ids some DELETE was asked for
  gone,      \* history: ids whose DELETE has returned 204
  acked,     \* history: the turns reported complete with no error, per id
  used       \* how much of each bound is used up

vars == <<up, sessions, obj, store, sock, del, created, deleted, gone, acked, used>>

Log == Seq(0..MaxTurns)
Object == [id: Ids \cup {None}, log: Log,
           busy: BOOLEAN,         \* _busy, and _turn_done is not set
           connected: BOOLEAN,    \* _connected
           closed: BOOLEAN,       \* _closed
           runtime: {"open", "closed"},
           inner: {"idle", "running", "orphaned", "stuck"},
                                  \* MiniPyRuntime's _turn_active: see TraceRefused
           abort: {"none", "clear", "set"},  \* MiniPyRuntime's _abort_event
           acloses: Nat,          \* calls of the adapter's aclose
           saved: BOOLEAN]        \* the last checkpoint did not raise
Socket == [phase: {"off", "open", "draining"}, obj: Objects \cup {None},
           turn: {"none", "created", "running"}, number: 0..MaxTurns]
Delete == [phase: {"off", "waiting", "closing"}, id: Ids \cup {None},
           obj: Objects \cup {None}, failed: BOOLEAN]

NewObject(id, log) ==
  [id |-> id, log |-> log, busy |-> FALSE, connected |-> FALSE, closed |-> FALSE,
   runtime |-> "open", inner |-> "idle", abort |-> "none", acloses |-> 0, saved |-> TRUE]
NoObject == NewObject(None, <<>>)
NoSocket == [phase |-> "off", obj |-> None, turn |-> "none", number |-> 0]
NoDelete == [phase |-> "off", id |-> None, obj |-> None, failed |-> FALSE]

TypeOK ==
  /\ up \in BOOLEAN
  /\ sessions \in [Ids -> Objects \cup {None}]
  /\ obj \in [Objects -> Object]
  /\ store \in [Ids -> Log \cup {NoRow}]
  /\ sock \in [Sockets -> Socket]
  /\ del \in [Deletes -> Delete]
  /\ created \subseteq Ids /\ deleted \subseteq created /\ gone \subseteq deleted
  /\ acked \in [Ids -> SUBSET (1..MaxTurns)]
  /\ used \in [turns: 0..MaxTurns, commands: 0..MaxCommands,
               faults: 0..MaxFaults, crashes: 0..MaxCrashes]

Init ==
  /\ up = TRUE
  /\ sessions = [i \in Ids |-> None]
  /\ obj = [o \in Objects |-> NoObject]
  /\ store = [i \in Ids |-> NoRow]
  /\ sock = [s \in Sockets |-> NoSocket]
  /\ del = [d \in Deletes |-> NoDelete]
  /\ created = {} /\ deleted = {} /\ gone = {}
  /\ acked = [i \in Ids |-> {}]
  /\ used = [turns |-> 0, commands |-> 0, faults |-> 0, crashes |-> 0]

history == <<created, deleted, gone, acked>>

-----------------------------------------------------------------------------
(* An object nothing refers to any more is garbage; a new one takes its      *)
(* place.                                                                    *)
Unreferenced(o) ==
  /\ \A i \in Ids : sessions[i] # o
  /\ \A s \in Sockets : sock[s].obj # o
  /\ \A d \in Deletes : del[d].obj # o

(* One write transaction of the snapshot store: it commits (ok) or raises    *)
(* and rolls back, "database is locked" for one.  Locked is such a fault     *)
(* that met a write of the traces just before: it may be over by the time of *)
(* the checkpoint (ok), or not.                                              *)

\* fault: the old snapshot is deleted before the new one commits
TransactionTorn(id, row, ok) ==
  /\ store' = [store EXCEPT ![id] = IF ok THEN row ELSE NoRow]
  /\ ok \/ used.faults < MaxFaults
  /\ used' = IF ok THEN used ELSE [used EXCEPT !.faults = @ + 1]

Transaction(id, row, ok) ==
  IF ok THEN store' = [store EXCEPT ![id] = row] /\ UNCHANGED used
        ELSE /\ used.faults < MaxFaults
             /\ used' = [used EXCEPT !.faults = @ + 1]
             /\ UNCHANGED store

Locked(id, row, ok) ==
  /\ used.faults < MaxFaults
  /\ used' = [used EXCEPT !.faults = @ + 1]
  /\ store' = IF ok THEN [store EXCEPT ![id] = row] ELSE store

(* ChatSessionManager.create: construct, start, register, checkpoint.        *)
Create(id, o, ok) ==
  /\ up
  /\ id \notin created /\ Unreferenced(o)
  /\ created' = created \cup {id}
  /\ sessions' = [sessions EXCEPT ![id] = o]
  /\ obj' = [obj EXCEPT ![o] = [NewObject(id, <<>>) EXCEPT !.saved = ok]]
  /\ Transaction(id, <<>>, ok)
  /\ UNCHANGED <<up, sock, del, deleted, gone, acked>>

(* ChatSessionManager.get: the live object, or a new one over the snapshot.  *)
Live(id, o) == sessions[id] = o

\* fault: a missing row is not noticed
HydratesMissing(id, o) == id \in created /\ sessions[id] = None /\ Unreferenced(o)

Hydrates(id, o) == sessions[id] = None /\ store[id] # NoRow /\ Unreferenced(o)

ObjectsAfterGet(id, o) ==
  IF Live(id, o) THEN obj ELSE [obj EXCEPT ![o] = NewObject(id, store[id])]

(* A REST read of a session that is not live: the hydrated object stays.     *)
Get(id, o) ==
  /\ up
  /\ Hydrates(id, o)
  /\ sessions' = [sessions EXCEPT ![id] = o]
  /\ obj' = ObjectsAfterGet(id, o)
  /\ UNCHANGED <<up, store, sock, del, used, history>>

-----------------------------------------------------------------------------
(* chat_stream: get and attach.                                              *)
Connect(s, id, o) ==
  /\ up
  /\ sock[s].phase = "off"
  /\ Live(id, o) \/ Hydrates(id, o)
  /\ ~ObjectsAfterGet(id, o)[o].closed /\ ~ObjectsAfterGet(id, o)[o].connected
  /\ sessions' = [sessions EXCEPT ![id] = o]
  /\ obj' = [ObjectsAfterGet(id, o) EXCEPT ![o].connected = TRUE]
  /\ sock' = [sock EXCEPT ![s] = [NoSocket EXCEPT !.phase = "open", !.obj = o]]
  /\ UNCHANGED <<up, store, del, used, history>>

(* A prompt while this connection's turn task is done: create the task.      *)
Prompt(s) ==
  /\ sock[s].phase = "open" /\ sock[s].turn = "none"
  /\ used.turns < MaxTurns
  /\ used' = [used EXCEPT !.turns = @ + 1]
  /\ sock' = [sock EXCEPT ![s].turn = "created", ![s].number = used.turns + 1]
  /\ UNCHANGED <<up, sessions, obj, store, del, history>>

(* MiniPyRuntime.abort: there is an event to set only from the first step of *)
(* a turn until its generator is through.                                    *)

\* fault: the abort event is not set
AbortedNever(o) == obj[o].abort

Aborted(o) == IF obj[o].abort = "clear" THEN "set" ELSE obj[o].abort

Abort(s) ==
  /\ sock[s].phase = "open"
  /\ obj' = [obj EXCEPT ![sock[s].obj].abort = Aborted(sock[s].obj)]
  /\ UNCHANGED <<up, sessions, store, sock, del, used, history>>

(* The finally of chat_stream: detach, abort a turn that is not done and     *)
(* wait for it.                                                              *)
SocketAfterLeave(s) ==
  IF sock[s].turn = "none" THEN NoSocket ELSE [sock[s] EXCEPT !.phase = "draining"]

ObjectAfterLeave(s, objects) ==
  LET o == sock[s].obj
  IN [objects EXCEPT ![o].connected = FALSE,
                     ![o].abort = IF sock[s].turn = "none" THEN @ ELSE Aborted(o)]

Disconnect(s) ==
  /\ sock[s].phase = "open"
  /\ obj' = ObjectAfterLeave(s, obj)
  /\ sock' = [sock EXCEPT ![s] = SocketAfterLeave(s)]
  /\ UNCHANGED <<up, sessions, store, del, used, history>>

Drained(s) ==
  /\ sock[s].phase = "draining" /\ sock[s].turn = "none"
  /\ sock' = [sock EXCEPT ![s] = NoSocket]
  /\ UNCHANGED <<up, sessions, obj, store, del, used, history>>

(* compact (grows) and fork, then the checkpoint.  A database error is not   *)
(* among the exceptions _run_chat_command turns into a reply: it ends the    *)
(* handler.                                                                  *)
LogAfterCommand(o, grows) == IF grows THEN Append(obj[o].log, 0) ELSE obj[o].log
ObjectsAfterCommand(o, grows, ok) ==
  [obj EXCEPT ![o] = [@ EXCEPT !.log = LogAfterCommand(o, grows), !.saved = ok]]

Command(s, grows, ok) ==
  LET o == sock[s].obj
      objects == ObjectsAfterCommand(o, grows, ok)
  IN /\ sock[s].phase = "open"
     /\ ~obj[o].busy /\ obj[o].runtime = "open" /\ obj[o].inner = "idle"
     /\ used.commands < MaxCommands
     /\ IF ok THEN /\ store' = [store EXCEPT ![obj[o].id] = LogAfterCommand(o, grows)]
                   /\ used' = [used EXCEPT !.commands = @ + 1]
                   /\ obj' = objects
                   /\ UNCHANGED sock
              ELSE /\ used.faults < MaxFaults
                   /\ used' = [used EXCEPT !.commands = @ + 1, !.faults = @ + 1]
                   /\ obj' = ObjectAfterLeave(s, objects)
                   /\ sock' = [sock EXCEPT ![s] = SocketAfterLeave(s)]
                   /\ UNCHANGED store
     /\ UNCHANGED <<up, sessions, del, history>>

-----------------------------------------------------------------------------
(* The turn task, _produce_chat_turn over ChatSession.stream.  Its first     *)
(* step refuses a closed or busy session, or starts the runtime's turn,      *)
(* which TracingRuntime wraps: create_run, then mini's turn up to its first  *)
(* event, agent_start, and the writes for that event.                        *)

\* fault: no busy check
BeginTurnUnchecked(s) ==
  LET o == sock[s].obj IN
  /\ sock[s].turn = "created"
  /\ obj' = [obj EXCEPT ![o].busy = TRUE, ![o].inner = "running",
                        ![o].abort = "clear"]
  /\ sock' = [sock EXCEPT ![s].turn = "running"]
  /\ UNCHANGED <<up, sessions, store, del, used, history>>

BeginTurn(s) ==
  LET o == sock[s].obj IN
  /\ sock[s].turn = "created"
  /\ IF obj[o].closed \/ obj[o].busy
     THEN /\ sock' = [sock EXCEPT ![s].turn = "none"]
          /\ UNCHANGED obj
     ELSE /\ obj[o].inner = "idle"
          /\ obj' = [obj EXCEPT ![o].busy = TRUE, ![o].inner = "running",
                                ![o].abort = "clear"]
          /\ sock' = [sock EXCEPT ![s].turn = "running"]
  /\ UNCHANGED <<up, sessions, store, del, used, history>>

(* The session takes the turn, but create_run raises, or mini does, whose    *)
(* last turn is still active: the session checkpoints what it had.           *)
Starts(s) ==
  /\ sock[s].turn = "created"
  /\ ~obj[sock[s].obj].closed /\ ~obj[sock[s].obj].busy

BeginRefused(s, ok) ==
  LET o == sock[s].obj IN
  /\ Starts(s)
  /\ IF obj[o].inner = "idle" THEN Locked(obj[o].id, obj[o].log, ok)
                              ELSE Transaction(obj[o].id, obj[o].log, ok)
  /\ obj' = [obj EXCEPT ![o].saved = ok]
  /\ sock' = [sock EXCEPT ![s].turn = "none"]
  /\ UNCHANGED <<up, sessions, del, history>>

(* The write for agent_start raises.  Mini has set its flags and waits at    *)
(* that event outside its try: no finally will ever clear them.              *)
BeginStuck(s, ok) ==
  LET o == sock[s].obj IN
  /\ Starts(s) /\ obj[o].inner = "idle"
  /\ Locked(obj[o].id, obj[o].log, ok)
  /\ obj' = [obj EXCEPT ![o].inner = "stuck", ![o].abort = "clear", ![o].saved = ok]
  /\ sock' = [sock EXCEPT ![s].turn = "none"]
  /\ UNCHANGED <<up, sessions, del, history>>

(* The runtime appends entries: here one more before the last.               *)
Progress(s) ==
  LET o == sock[s].obj IN
  /\ sock[s].turn = "running"
  /\ sock[s].number \notin ToSet(obj[o].log)
  /\ obj' = [obj EXCEPT ![o].log = Append(@, sock[s].number)]
  /\ UNCHANGED <<up, sessions, store, sock, del, used, history>>

(* Mini's stream ends and the finally clauses run: no turn active, not busy, *)
(* the waiter in close is woken, checkpoint, turn_complete.  A checkpoint    *)
(* that raises becomes turn_failed and turn_complete with an error.          *)

\* fault: the checkpoint is taken before the last entry
EndTurnStale(s, log, ok) ==
  LET o == sock[s].obj IN
  /\ obj' = [obj EXCEPT ![o].log = log, ![o].busy = FALSE, ![o].inner = "idle",
                        ![o].abort = "none", ![o].saved = ok]
  /\ Transaction(obj[o].id, obj[o].log, ok)
  /\ sock' = [sock EXCEPT ![s].turn = "none"]
  /\ UNCHANGED <<up, sessions, del, created, deleted, gone>>

EndTurn(s, log, ok) ==
  LET o == sock[s].obj IN
  /\ obj' = [obj EXCEPT ![o].log = log, ![o].busy = FALSE, ![o].inner = "idle",
                        ![o].abort = "none", ![o].saved = ok]
  /\ Transaction(obj[o].id, log, ok)
  /\ sock' = [sock EXCEPT ![s].turn = "none"]
  /\ UNCHANGED <<up, sessions, del, created, deleted, gone>>

(* The model's final answer, the abort, and an exception of the model.       *)
Answered(s, ok) ==
  LET o == sock[s].obj IN
  /\ sock[s].turn = "running"
  /\ sock[s].number \in ToSet(obj[o].log)
  /\ EndTurn(s, Append(obj[o].log, sock[s].number), ok)
  /\ acked' = IF ok THEN [acked EXCEPT ![obj[o].id] = @ \cup {sock[s].number}]
                    ELSE acked

TurnAborted(s, ok) ==
  /\ sock[s].turn = "running"
  /\ obj[sock[s].obj].abort = "set"
  /\ EndTurn(s, obj[sock[s].obj].log, ok)
  /\ UNCHANGED acked

TurnRaises(s, ok) ==
  /\ sock[s].turn = "running"
  /\ EndTurn(s, obj[sock[s].obj].log, ok)
  /\ UNCHANGED acked

(* A write of the traces raises: in the loop of TracingRuntime.stream, while *)
(* mini waits at the event to be written, or in finish_run after mini's      *)
(* stream ended.  The first leaves mini's generator an orphan, its turn      *)
(* active and its abort event in place until the event loop finalises it;    *)
(* the session is told the turn failed, and takes the next one.              *)
TraceRefused(s, ok) ==
  LET o == sock[s].obj IN
  /\ sock[s].turn = "running"
  /\ \E log \in {obj[o].log, Append(obj[o].log, sock[s].number)},
        inner \in {"idle", "orphaned"} :
       /\ obj' = [obj EXCEPT ![o].log = log, ![o].busy = FALSE, ![o].inner = inner,
                             ![o].abort = IF inner = "idle" THEN "none" ELSE @,
                             ![o].saved = ok]
       /\ Locked(obj[o].id, log, ok)
  /\ sock' = [sock EXCEPT ![s].turn = "none"]
  /\ UNCHANGED <<up, sessions, del, history>>

(* aclose of the orphan: the finally of MiniPyRuntime.stream.                *)
Finalize(o) ==
  /\ obj[o].inner = "orphaned"
  /\ obj' = [obj EXCEPT ![o].inner = "idle", ![o].abort = "none"]
  /\ UNCHANGED <<up, sessions, store, sock, del, used, history>>

-----------------------------------------------------------------------------
(* ChatSession.close once no turn runs: checkpoint, close the runtime, which *)
(* aborts what mini still counts as a turn, and close the adapter even if    *)
(* the checkpoint raised.                                                    *)
ClosedObject(o, ok) ==
  [obj[o] EXCEPT !.closed = TRUE, !.runtime = "closed", !.abort = Aborted(o),
                 !.acloses = @ + 1, !.saved = ok]

CloseIdle(d, id, o, ok) ==
  /\ obj' = [obj EXCEPT ![o] = ClosedObject(o, ok)]
  /\ Transaction(id, obj[o].log, ok)
  /\ del' = [del EXCEPT ![d] = [phase |-> "closing", id |-> id, obj |-> o,
                                failed |-> ~ok]]

(* ChatSessionManager.delete takes the object out of the map and closes it,  *)
(* waiting for the turn it has just aborted...                               *)
DeleteLive(d, id, o, ok) ==
  /\ up
  /\ del[d].phase = "off" /\ Live(id, o)
  /\ sessions' = [sessions EXCEPT ![id] = None]
  /\ deleted' = deleted \cup {id}
  /\ IF obj[o].busy
     THEN /\ ok
          /\ obj' = [obj EXCEPT ![o].closed = TRUE, ![o].abort = Aborted(o)]
          /\ del' = [del EXCEPT ![d] = [phase |-> "waiting", id |-> id, obj |-> o,
                                        failed |-> FALSE]]
          /\ UNCHANGED <<store, used>>
     ELSE CloseIdle(d, id, o, ok)
  /\ UNCHANGED <<up, sock, created, gone, acked>>

\* fault: close does not wait for the turn
DeleteResumesEarly(d, ok) ==
  /\ del[d].phase = "waiting"
  /\ CloseIdle(d, del[d].id, del[d].obj, ok)
  /\ UNCHANGED <<up, sessions, sock, history>>

DeleteResumes(d, ok) ==
  /\ del[d].phase = "waiting" /\ ~obj[del[d].obj].busy
  /\ CloseIdle(d, del[d].id, del[d].obj, ok)
  /\ UNCHANGED <<up, sessions, sock, history>>

(* ... and then deletes the row, unless the close raised.                    *)
DeleteFinishes(d, ok) ==
  /\ del[d].phase = "closing"
  /\ IF del[d].failed
     THEN ok /\ UNCHANGED <<store, used, gone>>
     ELSE /\ Transaction(del[d].id, NoRow, ok)
          /\ gone' = IF ok THEN gone \cup {del[d].id} ELSE gone
  /\ del' = [del EXCEPT ![d] = NoDelete]
  /\ UNCHANGED <<up, sessions, obj, sock, created, deleted, acked>>

(* delete of a session that is stored but not live: only the row goes.       *)
DeleteStored(id, ok) ==
  /\ up
  /\ id \in created /\ sessions[id] = None
  /\ deleted' = deleted \cup {id}
  /\ Transaction(id, NoRow, ok)
  /\ gone' = IF ok THEN gone \cup {id} ELSE gone
  /\ UNCHANGED <<up, sessions, obj, sock, del, created, acked>>

-----------------------------------------------------------------------------
(* close_all: the server has let its connections and requests finish, and    *)
(* every live session is checkpointed and closed.  Those whose checkpoint    *)
(* raises keep their previous row.                                           *)
Registered == {i \in Ids : sessions[i] # None}

CloseAll(failing) ==
  /\ up
  /\ \A s \in Sockets : sock[s].phase = "off"
  /\ \A d \in Deletes : del[d].phase = "off"
  /\ failing \subseteq Registered
  /\ used.faults + Cardinality(failing) <= MaxFaults
  /\ up' = FALSE
  /\ sessions' = [i \in Ids |-> None]
  /\ obj' = [o \in Objects |->
               IF \E i \in Ids : Live(i, o) THEN ClosedObject(o, obj[o].id \notin failing)
                                            ELSE obj[o]]
  /\ store' = [i \in Ids |-> IF i \in Registered \ failing THEN obj[sessions[i]].log
                                                           ELSE store[i]]
  /\ used' = [used EXCEPT !.faults = @ + Cardinality(failing)]
  /\ UNCHANGED <<sock, del, history>>

(* The process dies: memory is lost, the database stays.                     *)
Crash ==
  /\ up
  /\ used.crashes < MaxCrashes
  /\ used' = [used EXCEPT !.crashes = @ + 1]
  /\ up' = FALSE
  /\ sessions' = [i \in Ids |-> None]
  /\ obj' = [o \in Objects |-> NoObject]
  /\ sock' = [s \in Sockets |-> NoSocket]
  /\ del' = [d \in Deletes |-> NoDelete]
  /\ UNCHANGED <<store, history>>

Restart ==
  /\ ~up
  /\ up' = TRUE
  /\ obj' = [o \in Objects |-> NoObject]
  /\ UNCHANGED <<sessions, store, sock, del, used, history>>

Refused(s, ok) == BeginRefused(s, ok) \/ BeginStuck(s, ok) \/ TraceRefused(s, ok)
TurnStep(s, ok) == Answered(s, ok) \/ TurnAborted(s, ok) \/ TurnRaises(s, ok)
DeleteStep(d, ok) == DeleteResumes(d, ok) \/ DeleteFinishes(d, ok)

Next ==
  \/ \E o \in Objects : Finalize(o) \/ \E i \in Ids : Get(i, o)
  \/ \E i \in Ids, o \in Objects, ok \in BOOLEAN : Create(i, o, ok)
  \/ \E s \in Sockets : \/ Prompt(s) \/ Abort(s) \/ Disconnect(s) \/ Drained(s)
                        \/ BeginTurn(s) \/ Progress(s)
                        \/ \E i \in Ids, o \in Objects : Connect(s, i, o)
                        \/ \E ok, grows \in BOOLEAN : Command(s, grows, ok)
                        \/ \E ok \in BOOLEAN : TurnStep(s, ok) \/ Refused(s, ok)
  \/ \E d \in Deletes, ok \in BOOLEAN :
       \/ DeleteStep(d, ok)
       \/ \E i \in Ids, o \in Objects : DeleteLive(d, i, o, ok)
  \/ \E i \in Ids, ok \in BOOLEAN : DeleteStored(i, ok)
  \/ \E failing \in SUBSET Ids : CloseAll(failing)
  \/ Crash \/ Restart

Spec == Init /\ [][Next]_vars

(* The event loop runs every task that is ready and finalises orphaned       *)
(* generators, asyncio.wait returns once the abort event is set, and aclose  *)
(* returns.  The model may never answer.                                     *)
LoopFairness ==
  /\ \A o \in Objects : WF_vars(Finalize(o))
  /\ \A s \in Sockets : /\ WF_vars(BeginTurn(s) \/ \E ok \in BOOLEAN : BeginRefused(s, ok))
                        /\ WF_vars(Drained(s))
                        /\ WF_vars(\E ok \in BOOLEAN : TurnAborted(s, ok))
  /\ \A d \in Deletes : WF_vars(\E ok \in BOOLEAN : DeleteStep(d, ok))

LoopSpec == Spec /\ LoopFairness

-----------------------------------------------------------------------------
Kept == Ids \ deleted
Running(o) == {s \in Sockets : sock[s].turn = "running" /\ sock[s].obj = o}
Attached(o) == {s \in Sockets : sock[s].phase = "open" /\ sock[s].obj = o}

(* CHAT-006: a session has one conversation at a time.  Unless it is being   *)
(* deleted, it has at most one object, the registered one, which the reads   *)
(* and the connections all hydrate; an object has at most one attached       *)
(* connection, and one turn, although a connection that leaves is detached   *)
(* before its turn is over and the next may prompt at once.  The flags on    *)
(* the three levels agree: connected tells whether there is a connection,    *)
(* busy whether a turn runs, and while one runs it is the one mini has       *)
(* active, with its abort event.  Only after a refused write may mini count  *)
(* a turn as active, and keep its event, when none runs: it then refuses     *)
(* the next prompt, and after agent_start every other one.                   *)
OneConversation ==
  /\ \A i \in Kept, o \in Objects : obj[o].id = i /\ ~obj[o].closed => Live(i, o)
  /\ \A o \in Objects :
       /\ Cardinality(Attached(o)) <= 1 /\ Cardinality(Running(o)) <= 1
       /\ obj[o].connected <=> (Attached(o) # {})
       /\ obj[o].busy <=> (Running(o) # {})
       /\ (obj[o].inner = "running") <=> (Running(o) # {})
       /\ (obj[o].abort # "none") <=> (obj[o].inner # "idle")
       /\ obj[o].inner \in {"orphaned", "stuck"} => used.faults > 0

(* CHAT-008: the adapter of a session is closed exactly once, not before     *)
(* the runtime and never under a running turn; a closed object is not in     *)
(* the manager's map, where a client could still get it.                     *)
ClosedOnce ==
  \A o \in Objects :
    /\ obj[o].acloses = IF obj[o].runtime = "closed" THEN 1 ELSE 0
    /\ obj[o].runtime = "closed" => obj[o].closed /\ ~obj[o].busy
    /\ obj[o].closed => \A i \in Ids : sessions[i] # o

(* SESSION-002 and SESSION-003: a snapshot never holds a piece of a turn     *)
(* that is still running, and when none runs, it is the conversation of the  *)
(* live session, unless the last checkpoint raised.                          *)
SnapshotIsSettled ==
  \A i \in Kept :
    /\ store[i] # NoRow =>
         \A s \in Sockets : sock[s].turn = "running" => sock[s].number \notin ToSet(store[i])
    /\ sessions[i] # None /\ ~obj[sessions[i]].busy /\ obj[sessions[i]].saved
         => store[i] = obj[sessions[i]].log

(* What a client that opens a session is shown: the live object, or what     *)
(* hydration makes of the row; nothing once it has asked to delete it.       *)
Shown(i) == CASE i \in deleted -> NoRow
              [] i \notin deleted /\ sessions[i] # None -> obj[sessions[i]].log
              [] OTHER -> store[i]

Served == INSTANCE Conversation WITH
  NoConversation <- NoRow,
  shown <- [i \in Ids |-> Shown(i)],
  acked <- [i \in Ids |-> IF i \in deleted THEN {} ELSE acked[i]],
  removed <- deleted

(* SESSION-002 to SESSION-008 as one promise: through connections, turns,    *)
(* refused checkpoints, crashes, shutdowns and restarts, each conversation   *)
(* only grows, loses at most an end that was never reported, and every turn  *)
(* a client saw complete with no error stays, until a DELETE.                *)
ServesConversations == Served!Spec

(* A DELETE returns even if the model never answers the turn it waits for.   *)
DeleteReturns == \A d \in Deletes : del[d].phase # "off" ~> del[d].phase = "off"

-----------------------------------------------------------------------------
(* SESSION-008: explicit DELETE removes both the live state and the durable  *)
(* snapshot.                                                                 *)
DeletedIsGone == \A i \in gone : store[i] = NoRow /\ sessions[i] = None

(* CHAT-007: disconnecting during a turn aborts that turn.                   *)
DisconnectAborts ==
  \A s \in Sockets :
    sock[s].phase = "draining" /\ sock[s].turn = "running"
      => obj[sock[s].obj].abort = "set"
=============================================================================
