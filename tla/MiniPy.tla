------------------------------ MODULE MiniPy ------------------------------
(*****************************************************************************)
(* One MiniPyRuntime (runtimes/mini_py.py): an append-only tree of entries   *)
(* and the turn loop that grows it.                                          *)
(*                                                                           *)
(* The turn is the async generator stream().  Its steps run from one place   *)
(* where it gives up control to the next: a yield, where the consumer may    *)
(* pause, or an await raced against the abort event by _interruptible.       *)
(* Between two such steps other tasks may call abort, compact, fork, close.  *)
(*                                                                           *)
(* An entry's id is its position in entries (ids are fresh uuids, and        *)
(* _entry_positions maps one to the other); 0 is None.  Text is left out:    *)
(* an entry has a kind, a parent, the number of tool calls an assistant      *)
(* asked for, and for a tool result the assistant and the call it answers.   *)
(*****************************************************************************)
EXTENDS Naturals, Sequences, FiniteSets, FiniteSetsExt

CONSTANT Instances  \* max_tool_rounds of the constructor, with the bounds:
                    \* tool calls in one model response, turns, compactions

ASSUME MiniPyAssumption ==
  Instances \subseteq [max_tool_rounds: Nat \ {0}, calls: Nat, turns: Nat,
                       compactions: Nat]

VARIABLES
  instance,  \* which of them this runtime is; no step changes it
  provider,  \* a context provider was given to the constructor
  entries,   \* _entries
  leaf,      \* _active_leaf_id
  life,      \* _started and _closed: "new", "started" or "closed"
  abort,     \* _abort_event: "none", or "clear" or "set"
  turn,      \* locals of the running stream(), and where it stands
  done       \* bounds: turns and compactions so far

session == <<instance, provider, life, done>>
tree == <<entries, leaf>>
vars == <<session, tree, abort, turn>>

Kinds == {"context", "user", "assistant", "tool", "compaction"}
Statuses == {"completed", "failed", "aborted"}

(* Where stream() can stand: before its first step or after its last one,    *)
(* at one of its yields, in one of its awaits, or closed at agent_start,     *)
(* where its try has not begun: "left" for good with its flags still set.    *)
Yields == {"agent_start", "context_injection", "message_update", "tool_start",
           "tool_end", "tool_aborted", "agent_end", "agent_settled"}
Awaits == {"prepare", "complete", "execute"}

Entry == [kind: Kinds, parent: Nat, calls: Nat, assistant: Nat, call: Nat]
Turn == [pc: {"idle", "left"} \cup Yields \cup Awaits,
         base: Nat,       \* entries there were when it began
         user: Nat,       \* its user entry
         assistant: Nat,  \* the assistant entry of the current round
         call: Nat,       \* the call of that entry being executed
         rounds: Nat,     \* tool_rounds
         ends: Seq(Nat \X Nat),  \* tool_execution_end events yielded: the
                                 \* assistant and the call each is about
         status: Statuses]

NoTurn == [pc |-> "idle", base |-> 0, user |-> 0, assistant |-> 0, call |-> 0,
           rounds |-> 0, ends |-> <<>>, status |-> "completed"]

Ids == 1..Len(entries)
TurnActive == turn.pc # "idle"       \* _turn_active
Running == turn.pc \notin {"idle", "left"}       \* there is a generator
InTry == Running /\ turn.pc # "agent_start"      \* and its finally will run
Available == life = "started"        \* _ensure_available

\* fault: _ensure_mutable forgets the active turn
MutableAlways == Available

Mutable == Available /\ ~TurnActive  \* _ensure_mutable

TypeOK ==
  /\ instance \in Instances
  /\ provider \in BOOLEAN
  /\ entries \in Seq(Entry)
  /\ leaf \in Nat
  /\ life \in {"new", "started", "closed"}
  /\ abort \in {"none", "clear", "set"}
  /\ turn \in Turn
  /\ done \in [turns: Nat, compactions: Nat]

Init ==
  /\ instance \in Instances
  /\ provider \in BOOLEAN
  /\ entries = <<>> /\ leaf = 0
  /\ life = "new" /\ abort = "none" /\ turn = NoTurn
  /\ done = [turns |-> 0, compactions |-> 0]

-----------------------------------------------------------------------------
(* _append_entry: a new last entry under the active leaf, which it becomes.  *)

\* fault: the parent is read after the leaf has moved
NewEntryOwnParent(kind, calls, assistant, call) ==
  [kind |-> kind, parent |-> Len(entries) + 1, calls |-> calls,
   assistant |-> assistant, call |-> call]

NewEntry(kind, calls, assistant, call) ==
  [kind |-> kind, parent |-> leaf, calls |-> calls,
   assistant |-> assistant, call |-> call]

AppendEntry(entry) ==
  /\ entries' = Append(entries, entry)
  /\ leaf' = Len(entries) + 1

\* fault: the stored type in place of the role
PlainUntagged(kind) == NewEntry("message", 0, 0, 0)

Plain(kind) == NewEntry(kind, 0, 0, 0)
AssistantEntry(calls) == NewEntry("assistant", calls, 0, 0)
ToolResult == NewEntry("tool", 0, turn.assistant, turn.call)

(* _active_path: the entries from the root to an entry, root first.          *)
PathTo[e \in Ids \cup {0}] ==
  IF e = 0 THEN <<>> ELSE Append(PathTo[entries[e].parent], e)

(* _model_messages: the active path from its last compaction on.             *)
ModelMessages ==
  LET path == PathTo[leaf]
      compactions == {i \in DOMAIN path : entries[path[i]].kind = "compaction"}
      first == IF compactions = {} THEN 1 ELSE Max(compactions)
  IN SubSeq(path, first, Len(path))

(* The checks of _restore_entries on a stored tree.                          *)
Restorable(es, active) ==
  /\ \A e \in 1..Len(es) : es[e].parent < e
  /\ Len(es) > 0 => active # 0
  /\ active \in 0..Len(es)

-----------------------------------------------------------------------------
(* start *)
Start == /\ life = "new"
         /\ life' = "started"
         /\ UNCHANGED <<instance, provider, done, tree, abort, turn>>

(* stream up to its first yield, agent_start.                                *)
BeginTurn ==
  /\ Available /\ ~TurnActive
  /\ done.turns < instance.turns
  /\ done' = [done EXCEPT !.turns = @ + 1]
  /\ abort' = "clear"
  /\ turn' = [NoTurn EXCEPT !.pc = "agent_start", !.base = Len(entries)]
  /\ UNCHANGED <<instance, provider, life, tree>>

(* After agent_start, and after context_injection: ask the provider, or      *)
(* append the user's message and ask the model.                              *)
AppendUser ==
  /\ AppendEntry(Plain("user"))
  /\ turn' = [turn EXCEPT !.pc = "complete", !.user = Len(entries) + 1]

AfterStart ==
  /\ turn.pc = "agent_start"
  /\ IF provider
     THEN turn' = [turn EXCEPT !.pc = "prepare"] /\ UNCHANGED tree
     ELSE AppendUser
  /\ UNCHANGED <<session, abort>>

AfterInjection ==
  /\ turn.pc = "context_injection"
  /\ AppendUser
  /\ UNCHANGED <<session, abort>>

(* The provider answers: selected memories become a context entry, none or   *)
(* an exception becomes an event only.                                       *)
Prepared ==
  /\ turn.pc = "prepare"
  /\ \/ AppendEntry(Plain("context"))
     \/ UNCHANGED tree
  /\ turn' = [turn EXCEPT !.pc = "context_injection"]
  /\ UNCHANGED <<session, abort>>

(* The model answers; the consumer is given the text.  (An answer with no    *)
(* text skips the yield: the consumer that resumes at once covers it.)       *)
Completed(calls) ==
  /\ turn.pc = "complete"
  /\ AppendEntry(AssistantEntry(calls))
  /\ turn' = [turn EXCEPT !.pc = "message_update", !.assistant = Len(entries) + 1]
  /\ UNCHANGED <<session, abort>>


\* fault: the status set on the way out is lost
EndTurnCompleted(status) == [turn EXCEPT !.pc = "agent_end", !.status = "completed"]

EndTurn(status) == [turn EXCEPT !.pc = "agent_end", !.status = status]

(* What follows an answer: the end of the turn when it asks for no tool, a   *)
(* terminal assistant entry when the rounds are used up, else the first      *)
(* tool of a new round.                                                      *)
AfterAnswer ==
  /\ turn.pc = "message_update"
  /\ \/ /\ entries[turn.assistant].calls = 0
        /\ turn' = EndTurn("completed")
        /\ UNCHANGED tree
     \/ /\ entries[turn.assistant].calls > 0
        /\ turn.rounds >= instance.max_tool_rounds
        /\ AppendEntry(AssistantEntry(0))
        /\ turn' = EndTurn("failed")
     \/ /\ entries[turn.assistant].calls > 0
        /\ turn.rounds < instance.max_tool_rounds
        /\ turn' = [turn EXCEPT !.pc = "tool_start", !.rounds = @ + 1, !.call = 1]
        /\ UNCHANGED tree
  /\ UNCHANGED <<session, abort>>

AfterToolStart ==
  /\ turn.pc = "tool_start"
  /\ turn' = [turn EXCEPT !.pc = "execute"]
  /\ UNCHANGED <<session, tree, abort>>

(* _tool_end_event of the call being executed.                               *)
EndYielded(pc) ==
  [turn EXCEPT !.pc = pc, !.ends = Append(@, <<turn.assistant, turn.call>>)]

(* The tool returns, or raises: both are a result the model will see.        *)
Executed ==
  /\ turn.pc = "execute"
  /\ turn' = EndYielded("tool_end")
  /\ UNCHANGED <<session, tree, abort>>

(* The result is stored only after the consumer resumes from its event;      *)
(* then comes the next call, or the next request to the model.               *)

\* fault: the last call of a round is skipped
AfterToolEndShort ==
  /\ turn.pc = "tool_end"
  /\ AppendEntry(ToolResult)
  /\ turn' = IF turn.call + 1 < entries[turn.assistant].calls
             THEN [turn EXCEPT !.pc = "tool_start", !.call = @ + 1]
             ELSE [turn EXCEPT !.pc = "complete"]
  /\ UNCHANGED <<session, abort>>

AfterToolEnd ==
  /\ turn.pc = "tool_end"
  /\ AppendEntry(ToolResult)
  /\ turn' = IF turn.call < entries[turn.assistant].calls
             THEN [turn EXCEPT !.pc = "tool_start", !.call = @ + 1]
             ELSE [turn EXCEPT !.pc = "complete"]
  /\ UNCHANGED <<session, abort>>

(* _interruptible raises _TurnAborted: the abort event is set and the        *)
(* operation is not done (when both are, the operation wins).                *)

\* fault: tools are not raced against the abort event
InterruptedModelOnly ==
  /\ turn.pc \in {"prepare", "complete"}
  /\ abort = "set"
  /\ turn' = EndTurn("aborted")
  /\ UNCHANGED <<session, tree, abort>>

Interrupted ==
  /\ turn.pc \in Awaits
  /\ abort = "set"
  /\ turn' = IF turn.pc = "execute"
             THEN EndYielded("tool_aborted")
             ELSE EndTurn("aborted")
  /\ UNCHANGED <<session, tree, abort>>


\* fault: an aborted call gets an event and no stored result
AfterToolAbortedNoResult ==
  /\ turn.pc = "tool_aborted"
  /\ turn' = EndTurn("aborted")
  /\ UNCHANGED <<session, tree, abort>>

AfterToolAborted ==
  /\ turn.pc = "tool_aborted"
  /\ AppendEntry(ToolResult)
  /\ turn' = EndTurn("aborted")
  /\ UNCHANGED <<session, abort>>


\* fault: only a completed turn settles
AfterEndCompleted ==
  /\ turn.pc = "agent_end" /\ turn.status = "completed"
  /\ turn' = [turn EXCEPT !.pc = "agent_settled"]
  /\ UNCHANGED <<session, tree, abort>>

AfterEnd ==
  /\ turn.pc = "agent_end"
  /\ turn' = [turn EXCEPT !.pc = "agent_settled"]
  /\ UNCHANGED <<session, tree, abort>>

(* The finally of stream(), on its three ways out: the consumer resumes      *)
(* from agent_settled; the model raises; the consumer closes the generator   *)
(* at a yield or its task is cancelled in an await.  At agent_start the      *)
(* generator is not inside the try yet: closed there it resets nothing.      *)
Finally ==
  /\ abort' = "none"
  /\ turn' = NoTurn
  /\ UNCHANGED <<session, tree>>

AfterSettled == turn.pc = "agent_settled" /\ Finally
ModelRaises == turn.pc = "complete" /\ Finally
Abandon ==
  \/ InTry /\ Finally
  \/ /\ turn.pc = "agent_start"
     /\ turn' = [NoTurn EXCEPT !.pc = "left"]
     /\ UNCHANGED <<session, tree, abort>>

-----------------------------------------------------------------------------
(* abort: nothing to set when there is no event.                             *)
Abort ==
  /\ abort = "clear"
  /\ abort' = "set"
  /\ UNCHANGED <<session, tree, turn>>

Compact ==
  /\ Mutable
  /\ done.compactions < instance.compactions
  /\ done' = [done EXCEPT !.compactions = @ + 1]
  /\ AppendEntry(Plain("compaction"))
  /\ UNCHANGED <<instance, provider, life, abort, turn>>


Fork(e) ==
  /\ Mutable
  /\ e \in Ids
  /\ leaf' = e
  /\ UNCHANGED <<session, entries, abort, turn>>

Close ==
  /\ life # "closed"
  /\ life' = "closed"
  /\ abort' = IF abort = "clear" THEN "set" ELSE abort
  /\ UNCHANGED <<instance, provider, done, tree, turn>>

(* A new runtime over the tree a closed one left (chat_sessions.py get).     *)
Restore ==
  /\ life = "closed" /\ ~Running
  /\ Restorable(entries, leaf)
  /\ life' = "new"
  /\ abort' = "none" /\ turn' = NoTurn
  /\ UNCHANGED <<instance, provider, done, tree>>

(* What the consumer does when it resumes the generator.                     *)
Resume == \/ AfterStart \/ AfterInjection \/ AfterAnswer \/ AfterToolStart
          \/ AfterToolEnd \/ AfterToolAborted \/ AfterEnd \/ AfterSettled
Answer == Prepared \/ Executed \/ \E calls \in 0..instance.calls : Completed(calls)

Next == \/ Start \/ BeginTurn \/ Resume \/ Answer \/ Interrupted
        \/ ModelRaises \/ Abandon
        \/ Abort \/ Compact \/ Close \/ Restore
        \/ \E e \in Ids : Fork(e)

Spec == Init /\ [][Next]_vars

(* The consumer resumes the generator, and asyncio.wait returns once the     *)
(* abort event is set.  Nothing is assumed of the model and the tools.       *)
LoopFairness == WF_vars(Resume) /\ WF_vars(Interrupted)

LoopSpec == Spec /\ LoopFairness

(* In addition the model, the tools and the provider answer or raise: the    *)
(* adapter has a timeout and the tools are local.                            *)
AnswerFairness == WF_vars(Answer \/ ModelRaises)

-----------------------------------------------------------------------------
TurnEntries == (turn.base + 1)..Len(entries)
Ended == turn.pc \in {"agent_end", "agent_settled"}

(* The tool results of an assistant entry stand right after it, one for      *)
(* each of its calls, in the order of the calls.                             *)
AnsweredUpTo(a, n) ==
  \A i \in 1..n : /\ a + i \in Ids
                  /\ entries[a + i].kind = "tool"
                  /\ entries[a + i].assistant = a
                  /\ entries[a + i].call = i
Answered(a) == AnsweredUpTo(a, entries[a].calls)

(* SESSION-005: in every state, also between two steps of a turn, the tree   *)
(* is one that _restore_entries accepts: a checkpoint of it can be opened.   *)
AlwaysRestorable == Restorable(entries, leaf)

(* MINIPY-008: entries are never removed or rewritten, by no turn, fork,     *)
(* compaction, close or restore; and a new one hangs under the leaf the      *)
(* session had, so a fork decides where the next prompt goes.                *)
AppendOnly ==
  [][/\ Len(entries') \in {Len(entries), Len(entries) + 1}
     /\ \A e \in Ids : entries'[e] = entries[e]
     /\ Len(entries') > Len(entries) =>
          /\ entries'[Len(entries')].parent = leaf
          /\ leaf' = Len(entries')]_vars

(* The log as SessionTree projects it.                                       *)
TreeNodes ==
  [e \in Ids |-> [parent |-> entries[e].parent, entry |-> entries[e],
                  children |-> {c \in Ids : entries[c].parent = e}]]
TreeRoots == {e \in Ids : entries[e].parent = 0}

Session == INSTANCE SessionTree WITH nodes <- TreeNodes, roots <- TreeRoots

(* MINIPY-008 and README.md:26, "an append-only session-tree projector":     *)
(* whatever turns, forks, compactions, aborts, closes and restores come      *)
(* between, a session is a tree that only grows at its leaf.  The log can be *)
(* projected again after every step, and each projection extends the one     *)
(* before by at most one node.                                               *)
IsASessionTree == Session!Spec

(* The entries of a running turn are one unbroken branch that ends in the    *)
(* active leaf: no fork or compaction gets between them.                     *)
TurnIsOneBranch ==
  Running =>
    /\ \A e \in TurnEntries : /\ entries[e].kind # "compaction"
                              /\ e - 1 \in TurnEntries => entries[e].parent = e - 1
    /\ TurnEntries # {} => leaf = Len(entries)

(* What is shown is the branch of the leaf and no other: each entry is the   *)
(* parent of the next, the last is the leaf, and the first is the root or    *)
(* the latest compaction.                                                    *)
IsActiveBranch(shown) ==
  /\ Len(shown) > 0 /\ shown[Len(shown)] = leaf
  /\ \A i \in 2..Len(shown) : /\ entries[shown[i]].parent = shown[i - 1]
                               /\ entries[shown[i]].kind # "compaction"
  /\ entries[shown[1]].parent = 0 \/ entries[shown[1]].kind = "compaction"

(* MINIPY-003: whenever the model is asked, it is shown the active branch    *)
(* from its latest compaction on, all of this turn is in it from the prompt  *)
(* to the end, and every tool call it made in this turn is answered, once    *)
(* and in order.                                                             *)
ModelSeesWholeTurn ==
  turn.pc = "complete" =>
    /\ IsActiveBranch(ModelMessages)
    /\ \A e \in turn.user..Len(entries) :
         \E i \in DOMAIN ModelMessages : ModelMessages[i] = e
    /\ entries[turn.user].kind = "user"
    /\ \A e \in TurnEntries : entries[e].kind = "assistant" => Answered(e)

(* The consumer holds an event whose result is not stored yet.               *)
Held == IF turn.pc \in {"tool_end", "tool_aborted"} THEN 1 ELSE 0

TurnTools == {e \in TurnEntries : entries[e].kind = "tool"}
Place(e) == Cardinality({t \in TurnTools : t <= e})

(* The tool results of a running turn are those its tool_execution_end       *)
(* events told, one for one and in their order, but for the event the        *)
(* consumer is still holding: when the turn settles, the events and the tree *)
(* tell the same story.  A consumer that stops for good at such an event has *)
(* one more than the tree; the turn is not running then.                     *)
EventsMatchEntries ==
  Running =>
    /\ Cardinality(TurnTools) + Held = Len(turn.ends)
    /\ \A e \in TurnTools :
         turn.ends[Place(e)] = <<entries[e].assistant, entries[e].call>>

(* The answers of a turn that ask for tools.                                 *)
Asking == {e \in TurnEntries : entries[e].calls > 0}

(* The status a turn ends with is the truth about its branch: completed      *)
(* means a final answer below the prompt and no call left unanswered,        *)
(* failed means max_tool_rounds answers got their results and the one after  *)
(* them asked for tools again, aborted means somebody asked.                 *)
StatusIsEarned ==
  Ended =>
    /\ turn.status = "completed" =>
         /\ leaf \in TurnEntries /\ turn.user \in TurnEntries
         /\ entries[leaf].kind = "assistant" /\ entries[leaf].calls = 0
         /\ \A e \in TurnEntries : entries[e].kind = "assistant" => Answered(e)
    /\ turn.status = "failed" => Cardinality(Asking) = instance.max_tool_rounds + 1
    /\ turn.status = "aborted" => abort = "set"

(* MINIPY-007: an abort ends the turn even if the model and the tools never  *)
(* answer again; the runtime is free for another one, unless the consumer    *)
(* left at agent_start.                                                      *)
AbortEndsTurn ==
  /\ abort = "set" /\ Running ~> ~Running
  /\ abort = "set" /\ InTry ~> ~TurnActive

(* MINIPY-006: every turn ends, whatever the model keeps asking for, if      *)
(* only it answers each time; the runtime is free for another one, unless    *)
(* the consumer left at agent_start.                                         *)
TurnEnds ==
  AnswerFairness => /\ Running ~> ~Running
                    /\ InTry ~> ~TurnActive
=============================================================================
