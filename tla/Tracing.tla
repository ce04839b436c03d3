------------------------------ MODULE Tracing ------------------------------
(*****************************************************************************)
(* TracingRuntime (traces/runtime.py) around any AgentRuntime, and the       *)
(* trace tables it writes (traces/repository.py).                            *)
(*                                                                           *)
(* One prompt is one run: create_run, then for each event of the wrapped     *)
(* runtime update_run_context and append_event, then the yield, and at the   *)
(* end finish_run.  get_entries also writes: it files the session entries    *)
(* it was asked for under the last run.  Every repository call is one        *)
(* SQLite transaction and may raise ("database is locked"); none suspends,   *)
(* so other tasks run only while the wrapped runtime works, while the        *)
(* consumer holds an event, and while get_entries waits for the runtime.     *)
(*                                                                           *)
(* Run ids are positions in runs, 0 is None; so are the entry ids of the     *)
(* wrapped session.  A timestamp or payload is told apart by the sequence    *)
(* number of the event that brought it.                                      *)
(*****************************************************************************)
EXTENDS Naturals, Sequences, FiniteSets, FiniteSetsExt, SequencesExt

CONSTANTS
  Calls,       \* toolCallIds; a model may use one again after it has ended
  NoCall,      \* no toolCallId in the payload
  MaxEntries,  \* bound: entries
  MaxFailures, \* bound: failing transactions and crashes
  Instances    \* bounds: toolCallIds, runs and live events, taken together

ASSUME TracingAssumption ==
  /\ NoCall \notin Calls
  /\ {MaxEntries, MaxFailures} \subseteq Nat
  /\ Instances \subseteq [calls: SUBSET Calls, runs: Nat, events: Nat]

VARIABLES
  runs,    \* agent_runs with their agent_events and tool_executions
  last,    \* last_run_id of the live TracingRuntime
  log,     \* number of entries of the wrapped session
  inner,   \* the wrapped runtime's turn; "orphaned": nobody iterates it, and
           \* the event loop has not yet closed its generator
  stream,  \* locals of the open stream()
  sync,    \* get_entries: waiting with the entries the runtime gave it
  used     \* bounds: how much is used, and the instance

vars == <<runs, last, log, inner, stream, sync, used>>

RunStatuses == {"running", "completed", "failed", "aborted"}
Outcomes == RunStatuses \ {"running"}
ToolTypes == {"tool_execution_start", "tool_execution_end"}
ClosingTypes == {"agent_end", "agent_settled"}
Types == {"message_update", "tool_execution_start", "tool_execution_end",
          "agent_end", "agent_settled",
          "message"}  \* of a stored entry, the others are live events

Event == [type: Types, call: Calls \cup {NoCall},
          status: Outcomes,    \* data["status"] of the closing events
          key: 0..MaxEntries]  \* the entry its idempotency_key names, or none
ToolRow == [started: Nat, ended: Nat]  \* sequence numbers, 0 for no value;
                                       \* every row has a start time
Run == [status: RunStatuses, events: Seq(Event), tools: [Calls -> ToolRow]]
Stream == [run: Nat, settled: BOOLEAN, status: Outcomes]

NoStream == [run |-> 0, settled |-> FALSE, status |-> "completed"]
NoSync == [on |-> FALSE, entries |-> {}]

TypeOK ==
  /\ runs \in Seq(Run) /\ Len(runs) <= used.bound.runs
  /\ last \in 0..Len(runs)
  /\ log \in 0..MaxEntries
  /\ inner \in {"idle", "active", "orphaned"}
  /\ stream \in Stream
  /\ sync \in [on: BOOLEAN, entries: SUBSET (1..MaxEntries)]
  /\ used \in [failures: 0..MaxFailures, events: Nat, bound: Instances]

Init ==
  /\ runs = <<>> /\ last = 0 /\ log = 0
  /\ inner = "idle" /\ stream = NoStream /\ sync = NoSync
  /\ used \in [failures: {0}, events: {0}, bound: Instances]

Streaming == stream.run # 0

-----------------------------------------------------------------------------
(* create_run *)
NewRun(status) ==
  [status |-> status, events |-> <<>>,
   tools |-> [c \in Calls |-> [started |-> 0, ended |-> 0]]]

(* _project_tool_event: a start writes the arguments and the start time of   *)
(* the call's row, an end its result.  Each inserts the row if there is none *)
(* yet; an end that does gives it its own time for the start.                *)

\* fault: a call that has a row keeps its first start
ToolsAfterFirst(tools, event, sequence) ==
  LET row == tools[event.call]
  IN CASE event.type = "tool_execution_start" /\ row.started = 0 ->
            [tools EXCEPT ![event.call].started = sequence]
       [] event.type = "tool_execution_end" ->
            [tools EXCEPT ![event.call].started = IF @ = 0 THEN sequence ELSE @,
                          ![event.call].ended = sequence]
       [] OTHER -> tools

ToolsAfter(tools, event, sequence) ==
  CASE event.type = "tool_execution_start" ->
         [tools EXCEPT ![event.call].started = sequence]
    [] event.type = "tool_execution_end" ->
         [tools EXCEPT ![event.call].started = IF @ = 0 THEN sequence ELSE @,
                       ![event.call].ended = sequence]
    [] OTHER -> tools

(* append_event: the next sequence number, the event and its projection.     *)
WithEvent(run, event) ==
  [run EXCEPT !.events = Append(@, event),
              !.tools = ToolsAfter(@, event, Len(run.events) + 1)]

(* n transactions that raise.                                                *)
Failing(n) == /\ used.failures + n <= MaxFailures
              /\ used' = [used EXCEPT !.failures = @ + n]

(* finish_run; if it raises the row is as it was.                            *)
Finished(run, status, ok) == IF ok THEN [run EXCEPT !.status = status] ELSE run
FaultIf(ok) == IF ok THEN 0 ELSE 1

-----------------------------------------------------------------------------
(* stream: create the run and enter the wrapped runtime, which refuses while *)
(* an orphaned turn of it is still open.  ChatSession and the terminal       *)
(* chat open one stream at a time.                                           *)
BeginStream ==
  /\ ~Streaming /\ inner = "idle"
  /\ Len(runs) < used.bound.runs
  /\ runs' = Append(runs, NewRun("running"))
  /\ last' = Len(runs')
  /\ inner' = "active"
  /\ stream' = [NoStream EXCEPT !.run = Len(runs')]
  /\ UNCHANGED <<log, sync, used>>

BeginRefused(ok) ==
  /\ ~Streaming /\ inner = "orphaned"
  /\ Len(runs) < used.bound.runs
  /\ runs' = Append(runs, Finished(NewRun("running"), "failed", ok))
  /\ last' = Len(runs')
  /\ Failing(FaultIf(ok))
  /\ UNCHANGED <<log, inner, stream, sync>>

(* What the wrapped runtime may yield next.  PiRuntime passes on unchecked    *)
(* what Pi says, up to agent_settled: a call may end twice or without having *)
(* started, a turn end more than once, and the two closing events disagree.  *)
(* What mini yields is among it.  Each tool event names its call.            *)
MayYield(event) ==
  /\ ~stream.settled
  /\ event.type # "message" /\ event.key = 0
  /\ event.type \in ToolTypes <=> event.call # NoCall
  /\ event.status \in IF event.type \in ClosingTypes THEN {"completed", "failed"}
                                                    ELSE {"completed"}

(* The status the closing events report; a "completed" of a later one does   *)
(* not take a failure back.                                                  *)
StatusAfter(event) ==
  IF event.type \in ClosingTypes /\ event.status # "completed"
  THEN event.status ELSE stream.status

(* The wrapped runtime may have grown its session by an entry, and yields    *)
(* (an aborted turn is reported as a failed one is).                         *)
Yields(event) ==
  /\ Streaming /\ inner = "active"
  /\ used.events < used.bound.events
  /\ MayYield(event)
  /\ log' \in {log, log + 1} \cap (0..MaxEntries)

Record(event) ==
  /\ Yields(event)
  /\ runs' = [runs EXCEPT ![stream.run] = WithEvent(@, event)]
  /\ stream' = [stream EXCEPT !.settled = @ \/ event.type = "agent_settled",
                              !.status = StatusAfter(event)]
  /\ used' = [used EXCEPT !.events = @ + 1]
  /\ UNCHANGED <<last, inner, sync>>

(* update_run_context or append_event raises: the run failed, and the        *)
(* wrapped generator is left suspended at its yield.                         *)
RecordFails(event, ok) ==
  /\ Yields(event)
  /\ runs' = [runs EXCEPT ![stream.run] = Finished(@, "failed", ok)]
  /\ inner' = "orphaned"
  /\ stream' = NoStream
  /\ Failing(1 + FaultIf(ok))
  /\ UNCHANGED <<last, sync>>

(* The three ways out of stream(): the wrapped runtime raises; the consumer  *)
(* closes the generator at a yield, or its task is cancelled while the       *)
(* wrapped runtime works (which then unwinds first); the runtime returns.    *)
Leave(status, ok) ==
  /\ runs' = [runs EXCEPT ![stream.run] = Finished(@, status, ok)]
  /\ stream' = NoStream
  /\ Failing(FaultIf(ok))
  /\ UNCHANGED <<last, log, sync>>

InnerRaises(ok) ==
  /\ Streaming
  /\ inner' = "idle"
  /\ Leave("failed", ok)

\* fault: only Exception is caught, which GeneratorExit is not
AbandonUnfinished(ok) ==
  /\ Streaming
  /\ inner' \in {"idle", "orphaned"}
  /\ Leave("running", ok)

(* Closed or cancelled by its own task, the run is aborted.  A generator the *)
(* consumer just drops is closed by the event loop in another context, where *)
(* resetting the execution binding raises in its turn: that run has failed.  *)
Abandon(ok) ==
  /\ Streaming
  /\ inner' \in {"idle", "orphaned"}
  /\ \E status \in {"aborted", "failed"} : Leave(status, ok)

\* fault: a stream that ends early counts as its last reported status
FinalStatusUnsettled == stream.status

FinalStatus == IF stream.settled THEN stream.status ELSE "aborted"

InnerReturns(ok) ==
  /\ Streaming
  /\ inner' = "idle"
  /\ Leave(FinalStatus, ok)

(* The event loop closes an orphaned generator.  Only one that was suspended *)
(* inside its try frees the runtime; mini's first event is yielded before    *)
(* it, so after a refused write of that one this step may never come.        *)
Finalize ==
  /\ inner = "orphaned"
  /\ inner' = "idle"
  /\ UNCHANGED <<runs, last, log, stream, sync, used>>

-----------------------------------------------------------------------------
(* compact appends an entry; the decorator records nothing of it.            *)
Compact ==
  /\ inner = "idle"
  /\ log < MaxEntries
  /\ log' = log + 1
  /\ UNCHANGED <<runs, last, inner, stream, sync, used>>

(* get_entries waits for the runtime (a request of its own to Pi)...         *)
Fetch(since) ==
  /\ ~sync.on
  /\ since \in 0..log
  /\ sync' = [on |-> TRUE, entries |-> (since + 1)..log]
  /\ UNCHANGED <<runs, last, log, inner, stream, used>>

(* ... and files what it got: ingest_entries appends, in order, the entries  *)
(* the run does not have.  (It also moves the run's active leaf, as          *)
(* update_run_context does in stream; the leaf is left out here.)            *)

\* fault: the role in place of the type
EntryEventRole(entry) ==
  [type |-> "assistant", call |-> NoCall, status |-> "completed", key |-> entry]

EntryEvent(entry) ==
  [type |-> "message", call |-> NoCall, status |-> "completed", key |-> entry]

\* fault: only the newest event is compared
HasEntryNewest(run, entry) ==
  run.events # <<>> /\ Last(run.events).key = entry

HasEntry(run, entry) == \E i \in DOMAIN run.events : run.events[i].key = entry
NewEntries(run, entries) == {e \in entries : ~HasEntry(run, e)}

InOrder(entries) ==
  {s \in [1..Cardinality(entries) -> entries] :
     \A i, j \in DOMAIN s : i < j => s[i] < s[j]}

Ingested(run, filed) ==
  [run EXCEPT !.events = @ \o [i \in DOMAIN filed |-> EntryEvent(filed[i])]]

(* A session with no run of its own yet gets a "-sync" run, completed once   *)
(* all is filed.                                                             *)
SyncTarget == IF last = 0 THEN Append(runs, NewRun("running")) ELSE runs
SyncRun == IF last = 0 THEN Len(runs) + 1 ELSE last

(* A transaction may raise before the next append, or in the update that     *)
(* follows the last of them: the entries up to some one are filed.           *)
Ingest(ok) ==
  /\ sync.on /\ sync.entries # {}
  /\ Len(SyncTarget) <= used.bound.runs
  /\ \E upto \in 0..MaxEntries :
       LET run == SyncTarget[SyncRun]
           fresh == NewEntries(run, sync.entries)
       IN \E filed \in InOrder({e \in fresh : e <= upto}) :
            /\ ok => \A e \in fresh : e <= upto
            /\ runs' = [SyncTarget EXCEPT ![SyncRun] =
                 IF last = 0 THEN Finished(Ingested(run, filed), "completed", ok)
                 ELSE Ingested(run, filed)]
  /\ last' = SyncRun
  /\ sync' = NoSync
  /\ Failing(FaultIf(ok))
  /\ UNCHANGED <<log, inner, stream>>

NothingFetched ==
  /\ sync.on /\ sync.entries = {}
  /\ sync' = NoSync
  /\ UNCHANGED <<runs, last, log, inner, stream, used>>

(* The process dies and a new one opens the stored session: the tables and   *)
(* the session stay, a new TracingRuntime knows no run.                      *)
Crash ==
  /\ Failing(1)
  /\ last' = 0 /\ inner' = "idle" /\ stream' = NoStream /\ sync' = NoSync
  /\ UNCHANGED <<runs, log>>

EventStep ==
  \E type \in Types, call \in used.bound.calls \cup {NoCall}, status \in Outcomes :
    LET event == [type |-> type, call |-> call, status |-> status, key |-> 0]
    IN Record(event) \/ \E ok \in BOOLEAN : RecordFails(event, ok)

Next ==
  \/ BeginStream \/ EventStep \/ Finalize \/ Compact \/ NothingFetched \/ Crash
  \/ \E ok \in BOOLEAN : \/ BeginRefused(ok) \/ InnerRaises(ok) \/ Abandon(ok)
                         \/ InnerReturns(ok) \/ Ingest(ok)
  \/ \E since \in 0..MaxEntries : Fetch(since)

Spec == Init /\ [][Next]_vars

-----------------------------------------------------------------------------
Positions(run, P(_)) == {i \in DOMAIN run.events : P(run.events[i])}
LastOf(positions) == Max(positions \cup {0})

(* TRACE-004: however often and from wherever entries are synchronised, and  *)
(* whatever failed half way before, a run holds each of them once.           *)
EntriesOnce ==
  \A r \in DOMAIN runs : \A i, j \in DOMAIN runs[r].events :
    runs[r].events[i].key # 0 /\ runs[r].events[i].key = runs[r].events[j].key
      => i = j

(* TRACE-003: the tool rows of a run are what a replay of its timeline       *)
(* gives, whatever starts and ends it holds: the time of the call's last     *)
(* start (of its first end, if it never started) and its last end.           *)
FirstOf(positions) == IF positions = {} THEN 0 ELSE Min(positions)
RowOf(starts, ends) ==
  [started |-> IF starts = {} THEN FirstOf(ends) ELSE LastOf(starts),
   ended |-> LastOf(ends)]

ToolsAreReplayed ==
  \A r \in DOMAIN runs, c \in Calls :
    runs[r].tools[c] =
      RowOf(Positions(runs[r], LAMBDA e : e.type = "tool_execution_start" /\ e.call = c),
            Positions(runs[r], LAMBDA e : e.type = "tool_execution_end" /\ e.call = c))

(* TRACE-001: a run says completed only if its turn settled and reported no  *)
(* failure, or if it is the record of a synchronisation.                     *)
CompletedIsEarned ==
  \A r \in DOMAIN runs :
    runs[r].status = "completed" =>
      \/ \A i \in DOMAIN runs[r].events : runs[r].events[i].key # 0
      \/ /\ Positions(runs[r], LAMBDA e : e.type = "agent_settled") # {}
         /\ \A i \in DOMAIN runs[r].events : runs[r].events[i].status = "completed"

(* No run stays "running" but the one being recorded, unless the process     *)
(* died or the database refused: each crash or fault accounts for one.       *)
RunsAreFinished ==
  Cardinality({r \in DOMAIN runs : runs[r].status = "running" /\ r # stream.run})
    <= used.failures
=============================================================================
