------------------------------- MODULE PiRpc -------------------------------
(*****************************************************************************)
(* PiRpcClient and PiRuntime (runtimes/pi_rpc.py): requests and one event    *)
(* stream multiplexed over the stdin and stdout of a Pi process.             *)
(*                                                                           *)
(* The reader task takes one line of stdout at a time; a response resolves   *)
(* the future of its request, everything else goes to the event queue.       *)
(* Callers of request() wait for their future with a timeout, stream()       *)
(* sends a prompt and then takes events until agent_settled or the marker    *)
(* the reader leaves when stdout ends.  The Pi process is external: it       *)
(* answers each command once, accepts a prompt when it works on none and     *)
(* then emits events, the last of them agent_settled; it may die or print    *)
(* garbage at any time.                                                      *)
(*                                                                           *)
(* Callers keep to one stream at a time, and start again only when the       *)
(* reader of the previous process is done.                                   *)
(*****************************************************************************)
EXTENDS Naturals, Sequences, FiniteSets, SequencesExt

CONSTANTS
  Requests,      \* request ids: uuid4() never repeats one
  Prompts,       \* those of prompt commands
  NoRequest,
  MaxEvents,     \* bound: events of one prompt, agent_settled included
  MaxFaults,     \* bound: undecodable lines, and requests whose caller times
                 \* out or is cancelled
  MaxStarts      \* bound: processes started

ASSUME PiRpcAssumption ==
  /\ NoRequest \notin Requests
  /\ Prompts \subseteq Requests /\ IsFiniteSet(Requests)
  /\ {MaxEvents, MaxFaults, MaxStarts} \subseteq Nat

VARIABLES
  process,  \* "none", "running"; "exiting": dead, or its stdout is closed, and
            \* returncode is still None; "exited": returncode is set
  starts,   \* processes started, the number of the current one
  inbox,    \* commands Pi has not answered
  turn,     \* the prompt Pi works on, and its events so far
  stdout,   \* lines of the current process not yet read
  garbage,  \* undecodable lines printed
  reader,   \* the stdout reader task: "none", "reading", "done"
  pending,  \* _pending
  request,  \* each call of request(): how far it is
  events,   \* _events
  stream,   \* stream(): how far it is, its prompt, its events so far
  leftover  \* history: a stream was abandoned, or a second process started

pi == <<inbox, turn, stdout, garbage>>
client == <<reader, pending, request, events>>
vars == <<process, starts, pi, client, stream, leftover>>

Response(r) == [type |-> "response", of |-> r, n |-> 0]  \* success: true
Rejection(r) == [type |-> "rejection", of |-> r, n |-> 0] \* success: false
PiEvent(p, n) == [type |-> "event", of |-> p, n |-> n]
Settled(p, n) == [type |-> "agent_settled", of |-> p, n |-> n]
Garbage == [type |-> "garbage", of |-> NoRequest, n |-> 0]
EndMarker == [type |-> "end", of |-> NoRequest, n |-> starts]  \* None in _events

Line == [type: {"response", "rejection", "event", "agent_settled", "garbage", "end"},
         of: Requests \cup {NoRequest}, n: Nat]
(* "resolved", "rejected" and "broken": the future has a result or an        *)
(* exception, and the caller has not resumed yet.                            *)
Done == {"resolved", "rejected", "broken"}
Ended == {"answered", "failed", "timeout", "cancelled"}
Phases == {"new", "waiting"} \cup Done \cup Ended

NoTurn == [of |-> NoRequest, n |-> 0]
NoStream == [phase |-> "idle", prompt |-> NoRequest, seen |-> 0]

TypeOK ==
  /\ process \in {"none", "running", "exiting", "exited"}
  /\ starts \in 0..MaxStarts /\ garbage \in 0..MaxFaults
  /\ inbox \in Seq(Requests)
  /\ turn \in [of: Requests \cup {NoRequest}, n: 0..MaxEvents]
  /\ stdout \in Seq(Line) /\ events \in Seq(Line)
  /\ reader \in {"none", "reading", "done"}
  /\ pending \subseteq Requests
  /\ request \in [Requests -> Phases]
  /\ stream \in [phase: {"idle", "asking", "open", "settled", "exited", "early"},
                 prompt: Requests \cup {NoRequest}, seen: 0..MaxEvents]
  /\ leftover \in BOOLEAN

Init ==
  /\ process = "none" /\ starts = 0
  /\ inbox = <<>> /\ turn = NoTurn /\ stdout = <<>> /\ garbage = 0
  /\ reader = "none" /\ pending = {} /\ events = <<>>
  /\ request = [r \in Requests |-> "new"]
  /\ stream = NoStream
  /\ leftover = FALSE

Running == process \in {"running", "exiting"}  \* returncode is None

MayFault ==
  garbage + Cardinality({r \in Requests : request[r] \in {"timeout", "cancelled"}})
    < MaxFaults

-----------------------------------------------------------------------------
(* start: nothing when a process is running.                                 *)
Start ==
  /\ ~Running /\ reader # "reading"
  /\ starts < MaxStarts
  /\ process' = "running" /\ starts' = starts + 1
  /\ reader' = "reading"
  /\ inbox' = <<>> /\ turn' = NoTurn /\ stdout' = <<>>
  /\ leftover' = (leftover \/ starts > 0)
  /\ UNCHANGED <<garbage, pending, request, events, stream>>

(* request up to its wait: register the future, write the command.  A        *)
(* write to a dead process is lost or raises, which takes the future back.   *)
Send(r) ==
  /\ Running
  /\ request[r] = "new"
  /\ \/ /\ request' = [request EXCEPT ![r] = "waiting"]
        /\ pending' = pending \cup {r}
        /\ inbox' = IF process = "running" THEN Append(inbox, r) ELSE inbox
     \/ /\ process = "exiting"
        /\ request' = [request EXCEPT ![r] = "failed"]
        /\ UNCHANGED <<pending, inbox>>
  /\ UNCHANGED <<process, starts, turn, stdout, garbage, reader, events, leftover>>

(* get_state, abort, compact, fork, get_entries.                             *)
Command(r) ==
  /\ r \notin Prompts
  /\ Send(r)
  /\ UNCHANGED stream

(* The caller resumes with the outcome of its future.                        *)
Resume(r) ==
  /\ request[r] \in Done
  /\ request' = [request EXCEPT ![r] = IF @ = "resolved" THEN "answered" ELSE "failed"]
  /\ pending' = IF request[r] = "broken" THEN pending \ {r} ELSE pending
  /\ UNCHANGED <<process, starts, pi, reader, events, stream, leftover>>

MayGiveUp(r) ==
  /\ request[r] \in {"waiting"} \cup Done
  /\ MayFault

(* wait_for gives up, possibly just after the response came; an exception,   *)
(* it is taken back from pending.                                            *)
Timeout(r) ==
  /\ MayGiveUp(r)
  /\ request' = [request EXCEPT ![r] = "timeout"]
  /\ pending' = pending \ {r}
  /\ UNCHANGED <<process, starts, pi, reader, events, stream, leftover>>

(* The calling task is cancelled: CancelledError is no Exception, and the    *)
(* cancelled future stays in pending.                                        *)
Cancel(r) ==
  /\ MayGiveUp(r)
  /\ request' = [request EXCEPT ![r] = "cancelled"]
  /\ UNCHANGED <<process, starts, pi, reader, pending, events, stream, leftover>>

-----------------------------------------------------------------------------
(* The Pi process.                                                           *)
PiAnswers ==
  /\ process = "running" /\ inbox # <<>>
  /\ inbox' = Tail(inbox)
  /\ LET r == Head(inbox)
     IN \/ /\ r \in Prompts => turn = NoTurn
           /\ stdout' = Append(stdout, Response(r))
           /\ turn' = IF r \in Prompts THEN [of |-> r, n |-> 0] ELSE turn
        \/ /\ stdout' = Append(stdout, Rejection(r))
           /\ UNCHANGED turn
  /\ UNCHANGED <<process, starts, garbage, client, stream, leftover>>

PiEmits ==
  /\ process = "running" /\ turn # NoTurn
  /\ \/ /\ turn.n + 1 < MaxEvents
        /\ turn' = [turn EXCEPT !.n = @ + 1]
        /\ stdout' = Append(stdout, PiEvent(turn.of, turn.n + 1))
     \/ /\ turn' = NoTurn
        /\ stdout' = Append(stdout, Settled(turn.of, turn.n + 1))
  /\ UNCHANGED <<process, starts, inbox, garbage, client, stream, leftover>>

PiGarbles ==
  /\ process = "running" /\ MayFault
  /\ garbage' = garbage + 1
  /\ stdout' = Append(stdout, Garbage)
  /\ UNCHANGED <<process, starts, inbox, turn, client, stream, leftover>>

PiExits ==
  /\ process = "running"
  /\ process' = "exiting"
  /\ inbox' = <<>> /\ turn' = NoTurn
  /\ UNCHANGED <<starts, stdout, garbage, client, stream, leftover>>

Reaped ==
  /\ process = "exiting"
  /\ process' = "exited"
  /\ UNCHANGED <<starts, pi, client, stream, leftover>>

-----------------------------------------------------------------------------
(* _read_stdout: one line.  A response nobody is waiting for goes the way    *)
(* of an event; one whose future is cancelled is dropped.                    *)

Answers == {"response", "rejection"}

\* fault: a response resolves one of the waiting requests, whichever it is of
ResolvesAny(line) ==
  IF line.type \in Answers /\ \E r \in pending : request[r] = "waiting"
  THEN CHOOSE r \in pending : request[r] = "waiting" ELSE NoRequest

Resolves(line) ==
  IF line.type \in Answers /\ line.of \in pending THEN line.of ELSE NoRequest

ReadLine ==
  /\ reader = "reading"
  /\ stdout # <<>> /\ Head(stdout).type # "garbage"
  /\ stdout' = Tail(stdout)
  /\ LET r == Resolves(Head(stdout))
     IN IF r # NoRequest
        THEN /\ pending' = pending \ {r}
             /\ request' = [request EXCEPT ![r] =
                            CASE @ # "waiting" -> @
                              [] Head(stdout).type = "response" -> "resolved"
                              [] OTHER -> "rejected"]
             /\ UNCHANGED events
        ELSE /\ events' = Append(events, Head(stdout))
             /\ UNCHANGED <<pending, request>>
  /\ UNCHANGED <<process, starts, inbox, turn, garbage, reader, stream, leftover>>

(* Its finally, at the end of stdout or on an undecodable line: every        *)
(* waiting request fails, and the stream gets its marker.                    *)

\* fault: no marker for the stream
MarkedNever == events

Broken == [r \in Requests |-> IF r \in pending /\ request[r] = "waiting"
                              THEN "broken" ELSE request[r]]
Marked == Append(events, EndMarker)

ReadEnds ==
  /\ reader = "reading"
  /\ \/ stdout = <<>> /\ process \in {"exiting", "exited"}
     \/ stdout # <<>> /\ Head(stdout).type = "garbage"
  /\ reader' = "done"
  /\ request' = Broken
  /\ pending' = {}
  /\ events' = Marked
  /\ stdout' = <<>>
  /\ UNCHANGED <<process, starts, inbox, turn, garbage, stream, leftover>>

(* close terminates the process (PiExits), waits for it (Reaped) and for     *)
(* the reader (ReadEnds), and forgets it.  The queue keeps its contents.     *)
CloseReturns ==
  /\ process = "exited" /\ reader = "done"
  /\ process' = "none"
  /\ UNCHANGED <<starts, pi, client, stream, leftover>>

-----------------------------------------------------------------------------
(* PiRuntime.stream: the prompt's request, then the events.                  *)
Streaming == stream.phase \in {"asking", "open"}

Ask(r) ==
  /\ r \in Prompts /\ ~Streaming
  /\ Send(r)
  /\ stream' = [phase |-> "asking", prompt |-> r, seen |-> 0]

\* fault: the outcome of the request is taken for the phase of the stream
AskedOutcome ==
  /\ stream.phase = "asking"
  /\ request[stream.prompt] \in Ended
  /\ stream' = [stream EXCEPT !.phase = request[stream.prompt]]
  /\ leftover' = (leftover \/ request[stream.prompt] # "answered")
  /\ UNCHANGED <<process, starts, pi, client>>

Asked ==
  /\ stream.phase = "asking"
  /\ request[stream.prompt] \in Ended
  /\ stream' = IF request[stream.prompt] = "answered"
               THEN [stream EXCEPT !.phase = "open"] ELSE NoStream
  /\ leftover' = (leftover \/ request[stream.prompt] # "answered")
  /\ UNCHANGED <<process, starts, pi, client>>

\* fault: the stream ends at the first agent_end, which retries may follow
StreamAfterAgentEnd(line) ==
  IF line.of = stream.prompt THEN [stream EXCEPT !.phase = "settled"] ELSE stream

(* How a line from the queue moves the stream: agent_settled ends it, and    *)
(* so does the marker; "early" when it is another prompt's or process's.     *)
StreamAfter(line) ==
  CASE line.type = "agent_settled" ->
         [stream EXCEPT !.phase = IF line.of = stream.prompt THEN "settled" ELSE "early"]
    [] line.type = "end" ->
         [stream EXCEPT !.phase = IF line.n = starts THEN "exited" ELSE "early"]
    [] line.type = "event" /\ line.of = stream.prompt -> [stream EXCEPT !.seen = line.n]
    [] OTHER -> stream

NextEvent ==
  /\ stream.phase = "open" /\ events # <<>>
  /\ stream' = StreamAfter(Head(events))
  /\ events' = Tail(events)
  /\ UNCHANGED <<process, starts, pi, reader, pending, request, leftover>>

(* The consumer closes the generator at one of its yields.                   *)
Abandon ==
  /\ stream.phase = "open"
  /\ stream' = NoStream
  /\ leftover' = TRUE
  /\ UNCHANGED <<process, starts, pi, client>>

Next ==
  \/ Start \/ PiAnswers \/ PiEmits \/ PiGarbles \/ PiExits \/ Reaped
  \/ ReadLine \/ ReadEnds \/ CloseReturns
  \/ Asked \/ NextEvent \/ Abandon
  \/ \E r \in Requests : Command(r) \/ Ask(r) \/ Resume(r) \/ Timeout(r) \/ Cancel(r)

Spec == Init /\ [][Next]_vars

(* The event loop runs the reader, the consumer and the callers whose        *)
(* future is done.  Nothing is assumed of Pi, nor that a timeout is short.   *)
LoopFairness ==
  /\ WF_vars(ReadLine) /\ WF_vars(ReadEnds)
  /\ WF_vars(Asked) /\ WF_vars(NextEvent)
  /\ \A r \in Requests : WF_vars(Resume(r))

LoopSpec == Spec /\ LoopFairness

-----------------------------------------------------------------------------
(* A request that waits is registered, so that its response, the end of      *)
(* stdout or its timeout can still end the wait, and _pending holds nothing  *)
(* else but the leavings of cancelled callers.  A caller gets the answer to  *)
(* its own command: once it has one, Pi has taken the command and its answer *)
(* is nowhere in transit.                                                    *)
CallersAreAnswered ==
  \A r \in Requests :
    /\ request[r] = "waiting" => r \in pending
    /\ r \in pending => request[r] \in {"waiting", "cancelled"}
    /\ request[r] \in {"resolved", "rejected", "answered"} =>
         /\ \A i \in DOMAIN inbox : inbox[i] # r
         /\ \A line \in ToSet(events \o stdout) :
              ~(line.type \in Answers /\ line.of = r)

(* The lines on their way to the stream.                                     *)
Coming == events \o (IF reader = "reading" THEN stdout ELSE <<>>)

(* The lines of a stream in a sequence of lines, by their positions.         *)
Streamed(lines) == {i \in DOMAIN lines : lines[i].type \in {"event", "agent_settled"}}

(* Those lines are what follows the first seen events of prompt p: they are  *)
(* all its own, in order, and none is missing.                               *)
Continue(lines, p, seen) ==
  /\ \A i \in Streamed(lines) : lines[i].of = p /\ lines[i].n > seen
  /\ \A i, j \in Streamed(lines) : i < j => lines[i].n < lines[j].n
  /\ \A i \in Streamed(lines) : \A k \in (seen + 1)..lines[i].n :
       \E j \in Streamed(lines) : lines[j].n = k

(* As long as every earlier stream was taken to its end and the process is   *)
(* the first, a stream delivers the events of its prompt without a gap,      *)
(* those of no other, and once it has ended with agent_settled there are     *)
(* none left: requests may time out, be cancelled or rejected meanwhile.     *)
SoleStreamIsComplete ==
  ~leftover =>
    /\ stream.phase # "early"
    /\ stream.phase = "open" => Continue(Coming, stream.prompt, stream.seen)
    /\ stream.phase = "settled" => Streamed(Coming) = {}

(* When Pi dies or its output cannot be decoded, the stream ends: the        *)
(* marker the reader leaves behind what was read is enough.                  *)
StreamEndsOnExit ==
  (stream.phase = "open" /\ (process \in {"exiting", "exited"} \/ reader = "done"))
    ~> (stream.phase # "open")

(* docs/specs/0001-foundation/spec.md, FOUND-003: a streamed prompt remains  *)
(* active until Pi emits agent_settled (for that prompt), or Pi exits.       *)
NoEarlyEnd == stream.phase # "early"

=============================================================================
