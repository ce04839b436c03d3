# ScholarHarness in TLA+

Models, model-checking runs and proofs for ScholarHarness: a research assistant
whose chat sessions run an agent loop over a language model and local tools, keep
their conversation as an append-only tree, record a trace of every turn, and keep
a reviewed long-term memory. Every definition is translated from the Python source
under `src/src/scholar_harness` (paths below are relative to it); `PROJECT.json`
maps each definition to the lines it stands for.

## 1. The system

Everything runs on one asyncio thread, in one process, over one SQLite file. A
step of a model is therefore what a task does between two points where it really
suspends: an `await` that can wait, a `yield` of an asynchronous generator, the
start of a created task. SQLite calls do not suspend. The commands of
`scholar-harness` are other processes on the same file; the one that matters most is
`chat`, which runs an agent and its tools, and Papers has it.

```
 browser --REST/WebSocket--> api.py --> ChatSessionManager --> ChatSession
                               |              | snapshots          | AgentRuntime
                               |              v                    v
                               |        chat_sessions table   TracingRuntime --> agent_runs,
                               |                                   |             agent_events
                               v                                   v
                       memory, papers,                       MiniPyRuntime --> model adapter
                       evaluations tables                          |
                               ^                                   v
                               +------------------------------ tools (save_memory, search ...)

 PiRuntime --> PiRpcClient --stdin/stdout--> an external `pi --mode rpc` process
```

| Component | State | Operations | What is hard | What makes it correct |
|---|---|---|---|---|
| MiniPy runtime (`runtimes/mini_py.py`) | entry log and its index, active leaf, abort event, started and closed flags, locals of `stream()` | start, stream, abort, compact, fork, get_entries, close, restore | the turn is a generator that others call into between two of its steps; an abort races every await; the consumer may stop for good at any yield | the tree is append-only and restorable, a turn is one branch, every tool call of the turn is answered before the model is asked again, the final status is true, every turn ends (but one abandoned at `agent_start` stays active) |
| Chat sessions (`chat_sessions.py`, `chat_persistence.py`, the chat routes of `api.py`) | manager's map, per object busy/connected/closed flags and turn event, one row per session, handler and turn task of each connection | create, get (hydrate), attach, prompt, abort, detach, compact, fork, close, delete, shutdown, crash, restart | turn task, connection handler and DELETE interleave; two objects can exist for one id; checkpoint failures and crashes | one turn and one connection at a time, one live object per session, no acknowledged turn lost, adapters closed once, DELETE final |
| Memory (`memory/repository.py`, `memory/tools.py`, review routes) | one table with status and replacement link | create_candidate, set_status, supersede, list, get | reviews in any order over rows of old databases; a replacement chain nobody checks as a whole | reviews are final, links stay inside one trust boundary and never close a ring |
| Trace recording (`traces/runtime.py`, `traces/repository.py`) | runs, events, tool executions, last run id | stream, get_entries (which writes), compact, fork, close | abandoned generators, refused writes, the same entries synchronised again and again, crash in a turn | each entry once, tool rows equal a replay of the events, a terminal status is earned, no run is left running unaccounted for |
| Pi RPC (`runtimes/pi_rpc.py`) | process, reader task, pending futures, event queue | start, request, stream, close; timeout and cancellation | responses and events share one pipe; timeout against late answer; process death; restart | answers reach their callers, a stream delivers its prompt's events and ends |
| Context policy (`memory/context.py`) | none | select confirmed memories within a budget | order and boundary | selection is the greedy prefix it claims to be |
| Evaluations and suites (`evaluations/`) | cases, suites, suite runs, results, the temporary session of each execution | create and update, evaluate, execute a case or a suite | edits, deletions and cancellation while a suite waits for a turn or a clean-up; one failing item; the shared session manager | a result is what its case says of its trace, every item of a suite run is accounted for, temporary sessions are removed |
| Papers (`papers/`, `memory/tools.py`) | papers, passages, full-text index, vectors | add (replace), import a PDF, search, quote check of save_memory | six statements that replace a paper, under the reads of another process; searches on two connections; another embedding provider after a release; windows that overlap and snap to sentences | papers change whole, what a call shows was stored, a quote across a cut is whole in some chunk |
| Session tree (`sessions/tree.py`) | nodes, roots | append | none of its own: what the runtime's tree has to be | MiniPy implements it |
| Turn graph (`sessions/turn_graph.py`) | none | project the tree onto turns | branches interleaved in one log | every answer in one turn, the active turns are the conversation |
| Trace parity (`traces/parity.py`) | none | snapshot of a run, comparison of two | entries filed between live events, calls that end twice or never start | replayed entries make no difference, and the snapshot tells what the tool rows tell |
| Redaction, tool registry, model adapter, embeddings, CLI, workbench page, benchmarks, reports, SQLite helper | little or none | | | left out, reasons in `PROJECT.json` |

The hazards of this code, each at the line where it bites and with the properties
that guard it, are the `hazards` list of `PROJECT.json`.

## 2. Modules

### MemoryStore (+ MCMemoryStore, MemoryStoreProofs)

`memories` is the table, a function from stored ids to rows. `CreateCandidate` is
`create_candidate` behind the `save_memory` tool, which refuses a session or branch
memory without a session; `SetStatus` and `Supersede` are the review endpoints with
every guard of the repository. `Init` is not an empty table: `_initialize` adds the
link column to an existing table, so migrated rows may have any status, `superseded`
without a replacement included. A handler that raises changes nothing and is the
absence of a step.

### ContextPolicy (proved about in MemoryStoreProofs)

`Prepare` is `MemoryContextPolicy.prepare`: the eligible rows of a search result, taken
one by one by `Pick` as the loop takes them, until one does not fit the character
budget; a first one is cut. It extends MemoryStore, so its properties are checked in
every table that store can reach, for every order in which a search may return its
confirmed rows. One thing it shows by its shape: `SearchLimit` is applied before the
scope filter, so rows of other sessions can crowd out eligible ones, and those are not
counted as omitted.

### MiniPy (+ MCMiniPy, MiniPyProofs)

`entries` and `leaf` are `_entries` and `_active_leaf_id`, an entry's id its position
(the code keeps `_entry_positions` for the same purpose); `turn.pc` says at which
yield or await `stream()` stands, the other fields are its locals. There is one
action per stretch of `stream()` between two suspensions (`BeginTurn`, `AfterStart`,
`Prepared`, `AfterInjection`, `Completed`, `AfterAnswer`, `AfterToolStart`,
`Executed`, `AfterToolEnd`, `AfterEnd`, `AfterSettled`), `Interrupted` for an await
that loses the race with the abort event in `_interruptible` (in a tool call it goes
on to `AfterToolAborted`), `ModelRaises` for an exception of the adapter, `Abandon`
for a consumer that closes the generator at a yield or a cancelled task, and `Abort`,
`Compact`, `Fork`, `Close`, `Restore` for the methods others call. `agent_start` is
yielded before the `try` begins (`mini_py.py:87-89`): a generator closed there resets
nothing, so `Abandon` leaves such a turn at `left`, active for ever, with its abort event.
`Running` says that there is a generator, `InTry` that its `finally` will run.
`turn.ends` are the calls whose `tool_execution_end` the consumer was given, `turn.rounds`
is `tool_rounds`. `ModelMessages` is `_model_messages`: the path of the leaf, cut at its
last compaction; `IsActiveBranch` says independently of it what has to be shown. The path
is a recursive function, never a RECURSIVE operator. Text and payloads are left out. A
model answer without content has no `message_update` yield; its behaviours are those
in which nobody acts at that yield.

### SessionTree (proved about in MiniPyProofs)

The append-only tree of `sessions/tree.py` with the leaf the runtime grows it from:
`Grow` appends an entry under the leaf, `Move` is a fork. `IsASessionTree` in MiniPy is
this specification under a refinement mapping: `TreeNodes` and `TreeRoots` are what
`SessionTree(entries)` builds from the runtime's log. Every suspension of a turn, an
abort, a restart or a close must then be a stutter, an append or a fork of that tree.

### TurnGraph (proved about in MiniPyProofs)

`Node` is what `project_turn_graph` says of one user turn, entries standing for their
texts. It extends MiniPy, so every tree the runtime can grow is projected. A turn can be
abandoned after each entry, so the properties look at states in which no turn runs and
still see every tree.

### ChatSessions (+ MCChatSessions, ChatSessionsProofs)

`obj` is a set of `ChatSession` objects, kept apart from session ids because a closing
object and a new one for the same id can be alive together; `sessions` is the
manager's map and `store` the snapshot table. A connection has a handler phase and a
turn task (`created` before its first step, then `running`): `Connect`, `Prompt`,
`Abort`, `Disconnect` and `Drained` are the handler of `/chat` in `api.py`,
`BeginTurn`, `Progress`, `Answered`, `TurnAborted` and `TurnRaises` the turn task with
its `finally` (busy flag, checkpoint, `turn_complete`, in that order). `DeleteLive`,
`DeleteResumes` and `DeleteFinishes` are `delete()` cut at its awaits: the wait for
the turn and `aclose`. A checkpoint is one transaction, which may raise
(`ok = FALSE`).

The runtime below is TracingRuntime around MiniPy; of MiniPy an object keeps whether a turn
is active (`inner`) and the abort event. A write of the traces may be refused, too, while
mini waits at the event to be written: the session is told that its turn failed, and mini's
generator is `orphaned`, its flags set, until the event loop finalises it (`TraceRefused`,
`Finalize`). When it was the write for `agent_start`, mini is outside its `try` and the
flags stay for good (`BeginStuck`); `create_run` may be refused before that, and mini
refuses a prompt while a turn of its own is active (`BeginRefused`). `Locked` is a locked
database that meets such a write and perhaps the checkpoint after it, one fault in all.

`CloseAll` is the shutdown, `Crash` keeps only the table. Entries
are reduced to the number of the turn that appended them; their tree is MiniPy's.

### Conversation (proved about in ChatSessionsProofs)

What browser chat promises (specs 0007 and 0017), in four actions over what opening a
session shows and the turns reported complete: `Talk` only extends a conversation,
`Withdraw` is a DELETE, `Stop` may cut off an end nobody was told was complete, `Start`
changes nothing. `ServesConversations` in ChatSessions is this specification with
`shown` mapped to the log of the live object, or the stored row where there is none.
Of a session a client has asked to delete it says nothing more, because of
`ChatResurrection` below.

### Tracing (+ MCTracing, TracingProofs)

`TracingRuntime` around any runtime: `Record` is one pass of its loop
(`update_run_context`, `append_event`, the bookkeeping, the yield), `RecordFails` a
pass whose write is refused, `InnerReturns`, `InnerRaises` and `Abandon` the three
ways out with their `finish_run`; a generator its consumer merely drops is closed by
the event loop in a context of its own, where the reset of the execution binding
(`tools/context.py:45`) raises, so the run ends `failed` instead of `aborted`. After a
refused write the wrapped generator is `orphaned`: suspended at a yield with nobody to
resume it, so a new prompt is refused (`BeginRefused`) until the event loop finalises it
(`Finalize`, which need not come: see ChatSessions). `Fetch` and `Ingest` are the two
halves of `get_entries`. `ToolsAfter` is `_project_tool_event`. What the wrapped runtime
may yield (`MayYield`) is what `PiRuntime.stream` passes on unchecked, MiniPy's events
among it: any events up to `agent_settled`, calls that end twice or never started included.
Only that a tool event names its call is assumed. Times are told apart by event sequence numbers; the session and leaf columns
of a run are left out.

### Parity (proved about in TracingProofs)

`RuntimeParityService` over the runs of Tracing, which it extends, so every timeline
that can be recorded is a timeline to compare. `Lifecycle`, `ToolOutcomes` and
`Snapshot` are the functions of those names, `Differences` the checks that fail. The
comparison is tested with a run and itself without its synchronised entries. Tool names,
error flags, context statuses and `strict_output` are left out.

### PdfChunks and Papers (+ MCPapers, PapersProofs)

`PdfChunks` is one pass of `chunk_text`'s loop on a text, a sequence of characters:
where the window ends (`FindBoundary`), its stripped chunk, where the next one starts
(`NextStart`, which steps back by the overlap and over blanks).

`Papers` is the rest. `upload` is the handler in the API process: `Window` and
`SkipPage` are `ingest`, `Embed` the vectors computed before anything is written, and
`Execute`, `Rollback` and `Commit` the transaction of `add()`, one statement at a time
on `tx`, the tables as that transaction sees them; `db` is what everybody else sees.
Handlers do not suspend, so uploads follow each other. `call` is a tool call of the
other process: `SearchLexical` and `SearchVector` are the two reads of a hybrid search,
with `Fused` between them, `Save`, `Verify` and `CreateCandidate` the quote check of
`save_memory`, one read for each piece of evidence. `Restart` is a death of the API;
its successor may have another embedding provider. What FTS5 matches and how it ranks,
and what the cosine finds similar, is any ranking of any of the rows there are, which
is more than any query and any model could find; the candidate limit of at least 50 is
never reached. Reciprocal ranks are fractions, compared crosswise; `Sorted` are the
orders in which `sort` may leave the fused hits. A row of the full-text index is told
apart by its rowid, as FTS5 does it, and by nothing else.

### PiRpc (+ MCPiRpc, PiRpcProofs)

`ReadLine` and `ReadEnds` are the reader task with its `finally`; `Send`, `Resume`,
`Timeout` and `Cancel` one call of `request()`; `Ask`, `Asked`, `NextEvent` and
`Abandon` the `stream()` of `PiRuntime`. `process` keeps a dead child whose
`returncode` is not set yet (`exiting`) apart from a reaped one, because requests are
accepted in between. Pi is external: it answers each command once, accepting or
rejecting it, works on one prompt at a time, and may die or print garbage whenever it
likes. Two things are assumed of callers: one stream at a time, and no `start()`
before the reader of the previous process is done.

### Scoring and Evaluations (+ MCEvaluations, EvaluationsProofs)

`Scoring` holds the pure part: which expectations are valid (`ValidExpectations`), one
check for each that is set (`Checks`, `ContextChecks` with `ContextObservation`,
`AnswerChecks`), and the score, a fraction. A trace is a record of just what the checks read.

`Evaluations` is the rest of the package over five tables: `cases`, `suites`,
`results`, `suite_runs` and the trace runs. A `worker` is one request that executes a
case or a suite; its fields are the locals of `execute()`. It suspends while the model
works on its turn (`turn`) and while the shielded deletion of its temporary session is
waited for (`cleanup`, or `cancelled` when the request was cancelled). At `next` it
does not suspend, so every other action has `Suspended` as a guard: what a suite does
between two suspensions happens without anybody in between. `StartTurn`, `NoTrace`,
`CreateRaises`, `EndTurn`, `EndTurnRaises`, `Cancel` and `CleanupReturns` are the ways
through `EvaluationRunner.execute` and its `finally`; `SaveSuiteRun` stores the aggregate.
A transaction that raises while a cancellation unwinds takes its place, so that the request
goes on: `EndTurn` and `EndTurnRaises`, with an aborted trace, are what happens then.
`PutCase`, `PutSuite`, `EvaluateRun` and `ClientDelete` are what clients do meanwhile;
`DeleteReturns` is the rest of `delete()`, for the runner's call and a client's, of which
only one found the session in the map. A turn is one step here, its parts being in
ChatSessions and Tracing. Names, prompts and times are left out; `results` is kept in
the order of `evaluated_at`.

### RecursionLemmas

Models nothing: it says what a recursive function and a fold over a sequence are, for
the proofs about definitions written with them. Section 4 tells how.

## 3. Runs

| Run | Instance | What it shows |
|---|---|---|
| `MCMemoryStore` | 3 memories (1 migrated), 2 kinds, 2 sessions; unbounded | type, `Acyclic`, `ReviewIsFinal`; `MostRelevantFirst` of the context policy. Three rows are enough for a ring through an intermediate row, two of each owner for every mismatch `supersede` refuses. Two budgets and three lengths make a selection fit exactly, overflow, be cut, and have no room to be cut. |
| `MiniPy` | in one run, chosen in `Init`: 1 turn after an optional compaction with 2 tool rounds of 2 calls; or 2 turns, 1 compaction, 1 call, 1 round with forks to every entry | type, `ModelSeesWholeTurn`, `EventsMatchEntries`, `StatusIsEarned`, `TurnIsOneBranch`, `IsASessionTree`, the liveness of the loop (`AbortEndsTurn`, `TurnEnds`), and `EveryAnswerOnce` and `ActiveChain` of the turn graph. Two calls give an abort between two calls of one answer, two rounds one below the limit and one at it; the second turn may start from any entry of the first, before or after the compaction. A turn may be abandoned at every yield, also for good at `agent_start`. |
| `ChatSafety` | 1 id, 2 objects, 2 connections, 2 deletes, 2 turns, 1 compact/fork, 1 refused write (of a checkpoint, of the traces, or of both at once), 1 crash; of the last three and the deletes in progress at most three come together (`Together`); 1.0 million states | `OneConversation`, `SnapshotIsSettled`, `ClosedOnce`, `ServesConversations`. Sessions share no state, so one id suffices; two of everything else is what races need. |
| `ChatLive` | the same with one delete, no compact or fork and no crash | `DeleteReturns`, also when the turn it waits for ends with a refused write |
| `Tracing` | in one run, chosen in `Init`: 2 runs of 2 live events or 1 run of 4 with 1 call id, or 1 run of 3 with 2; a session that grows to 1 entry, 2 refused writes or crashes; 1.0 million states | `EntriesOnce`, `ToolsAreReplayed`, `CompletedIsEarned`, `RunsAreFinished`, `ParityTellsTheRun`. Four events hold a whole tool call and the end of a turn, a call that ends twice or ends before it starts, or two updates with entries in between; three hold two calls that overlap, one of them without its end. |
| `PiRpc` | 2 prompts, 1 command, 2 processes, 2 events a prompt, 1 timeout, cancellation or undecodable line | `CallersAreAnswered`, `SoleStreamIsComplete`, `StreamEndsOnExit` |
| `Evaluations` | 2 cases, 1 suite, 2 requests, 2 turns, 2 edits, deletions, cancellations or failures in all | `ResultsAreReproducible`, `SuiteRunsAreComplete`, `TemporaryIsRemoved`, `BadEvidenceFails`. Two turns are a suite of two cases, or a suite and a case at once; two events are an edit and its reversal, a client's deletion and a refused one, or a cancellation and a crash. The traces are one that meets every expectation and an aborted one that reports its memories twice. |
| `Papers` | in one run: every text of 1 to 9 characters a page can have, cut into windows of 5 with every overlap from 0 to 4; or 2 uploads, each one of 8 papers and PDFs under 2 ids (two lists of passages with the same ids and other texts, an empty list, one with an id twice, PDFs with empty pages and of empty pages only), 2 providers, 1 restart, 1 tool call, 2 hits | `IndexMatchesPassages`, `AnswersWereStored`, `HitsAreRanked`, `WindowsAdvance`, `QuotesSurvive`. Nine characters are three windows or more, with a boundary of each kind at each place of the window; each letter of a text is another one, so that a quote cannot be found somewhere else by chance. Two uploads are a paper and its replacement, or a paper beside another. |

Memory ids, kinds, sessions, objects, connections and deletes are interchangeable, so
safety runs use symmetry; runs with liveness use none. Deadlock is not checked where
the bounds or the end of a session really stop the system.

Every property has a mutant, an operator marked `fault:` just before the definition it
replaces: the way a plausible bug would change that code, under which the property's
own run must fail.

### Fairness

`LoopFairness` is what asyncio guarantees and nothing else: ready tasks and the
consumer of a generator get to run, `asyncio.wait` in `_interruptible` returns once the
abort event is set, `aclose` of the adapter returns, the loop's finalizer closes a
generator nobody holds any more, the reader task reads what is there. It says nothing of the model, a tool, Pi or a client. So `AbortEndsTurn`,
`DeleteReturns` and `StreamEndsOnExit` hold although the model (or Pi) may be silent
for ever. Where an answer is needed it is a premise of the property itself:
`TurnEnds == AnswerFairness => ...`; the adapter's HTTP client has a timeout, so it
answers or raises. That a turn is over and that the runtime is free for another one are two
things: `AbortEndsTurn` and `TurnEnds` promise the first of every turn and the second only
of one that got past `agent_start` (`InTry`).

### Disagreements with the documents

| Run | Property | What happens |
|---|---|---|
| `ChatResurrection` | `DeletedIsGone` | a GET that arrives while DELETE waits for the adapter hydrates the session again from the row not yet deleted; it is live after DELETE has returned and its next checkpoint brings the row back |
| `ChatLostAbort` | `DisconnectAborts` | a disconnect queued right behind a prompt aborts a turn task that has not started and has no abort event; the turn then runs unattended |
| `EvaluationSnapshot` | `ItemsFollowSnapshot` | a suite copies its cases into its items, but the runner and the evaluator read each case again; a case edited meanwhile is executed and judged as edited, under the old expectations the item records |
| `PiEarlyEnd` | `NoEarlyEnd` | the settlement of an abandoned prompt, or the marker of the previous process, is still in the queue and ends the next stream at once |

Others have no run of their own:

* A session locks up when the trace write of the first event of a turn is refused, by a
  database that is locked for longer than the busy timeout, say (`traces/runtime.py:39`):
  `_turn_active` was set before the `try` whose `finally` clears it (`mini_py.py:83-89`), so
  every later prompt, compact and fork of that session is refused until the process is
  restarted and hydrates it again. CHAT-006 speaks of one turn at a time, and
  that is kept; no document says what a refused trace write may do to the next prompt.
  `OneConversation` shows that nothing but a refused write leads there.
* After an abort in the middle of a round the later calls of that answer have no result
  (`mini_py.py:196-211`), and a prompt on the same branch shows the model those calls
  unanswered.
* A memory that replaces another can itself be superseded, because `supersede` asks only
  that both rows are confirmed (`memory/repository.py:198`). Chains grow, although
  `docs/specs/0018-memory-supersession/spec.md:21-22` wants them rejected and its design
  a graph of depth one. Rings remain impossible, which `Acyclic` shows and
  `SupersessionSound` proves.
* The continuation anchor of a turn is its newest entry on whatever branch
  (`sessions/turn_graph.py:58`). After a retry that injects context, or a compaction after
  it, the old turn is continued at an entry whose path has no answer, although GRAPH-004
  wants "that turn's completed context". `EveryAnswerOnce` still holds: the answer is then
  listed among the other answers.
* Reading the entries of a session files them under its last trace run, which has finished
  (`traces/runtime.py:92`), although `docs/architecture.md` has evaluation work on "an
  immutable terminal run"; the run's status stays, its timeline grows.
* A prompt whose session is deleted before its task starts gets an error and no
  `turn_complete`, because the message is built from the closed session (`api.py:593`).
* An overlap of more than three fifths of the size is accepted (`papers/pdf.py:35`), but
  a window may end there, so the next may end where the last did: the page is then cut
  into suffixes of one another. `WindowsAdvance` says so by its premise; nothing is lost.
* When the checkpoint inside `create()` raises (`chat_sessions.py:222`), the session is
  already registered and nobody is told its id: a temporary session of an evaluation then
  stays until the shutdown. `TemporaryIsRemoved` therefore excepts refused transactions.

## 4. Proofs

TLAPS checks these for all values of the constants, under the named assumptions of
the modules, which TLC evaluates on the instances. They say that a mark for "none" is
not a value (`MemoryAssumption`, `TracingAssumption`, `ChatAssumption`,
`PiRpcAssumption`, `EvaluationsAssumption`), that bounds and lengths are naturals and a
character limit has room for the frame of the context (`MiniPyAssumption`,
`ContextAssumption` and the others), and four things of the code: the rows of an old
database, the objects of a process, the requests to one Pi and the cases in the table are
finitely many; the expectations of a case have the fields that `EvaluationExpectations`
gives them, its lists being finite; a threshold is a fraction; and the passages of a
paper, the evidence of a candidate and the pages of a PDF are lists, a page's text being
without a blank at either end, as `normalize_text` leaves it (`PapersAssumption`). The
bounds on faults, turns, edits and crashes are constants too, so the theorems hold for
every number of them.

Every theorem of the form `Spec => []P` follows from an inductive invariant of its
module, most from one they share; TLC checked it on the module's run before it was
proved.

* **RecursionLemmas**. What a path, a selection or a timeline contains is defined by
  recursion over data. The induction theorems of the library take an operator as a
  parameter and cannot be cited here, so the lemmas are stated over sets: a set of naturals
  that has 0 and each successor has every natural (`EveryNatural`, from the first number it
  lacks), and likewise for sequences (`EverySequence`). That a recursive function satisfies
  its equation is proved, not assumed: `RecursionExists` for one that calls itself once, at
  a smaller number, `FoldExists` for the recursion of `FoldLeft` over a set of positions.
  `FoldTrace` and `FoldAppends` are what the proofs use: the value after each position, and
  after one element more.
* **MemoryStoreProofs**. `TypeCorrect`, `SupersessionSound`, `ReviewedOnce` and
  `MostRelevantAreSelected`. The inductive invariant `IInv` is the type invariant with
  `LinksAreSound`, `TrustBoundary` and `Acyclic`. `Acyclic` is stated over sets, without paths: every
  non-empty set of rows has a member whose link leaves the set. It is not inductive
  alone: a new link from `m` to `r` closes no ring because `r` is confirmed, and only
  `LinksAreSound` says that a confirmed row has no link of its own. `ReviewedOnce` is
  an action property and follows from the guards and the type invariant.
  `MostRelevantAreSelected` is about the operators of the context policy in any table of the
  right type with finitely many rows. `AfterPasses` is the invariant of prepare's loop: after j
  passes it has taken the first j memories, or cut the first one, or stopped at the first
  that did not fit (`PassKeeps`, by `PickDoes`). The totals the property speaks of are a
  fold of their own and grow with each memory (`TotalRuns`), so the memories that fit are
  a beginning, and the last of the three cases is its end (`FittingAreFirst`).
* **MiniPyProofs**. `TypeCorrect`; `TreeSound`, that every reachable tree passes the
  checks of `_restore_entries` and that a running turn is one branch ending in the
  leaf; `HistoryIsKept`, that no step removes or rewrites an entry; and `SessionIsATree`,
  that MiniPy implements SessionTree. The steps of the runtime fall into four ways of
  changing the tree (`TreeSteps`), so the induction is done once per way and not once
  per action; for the refinement an append of a turn or a compaction is a `Grow`
  (`AppendGrowsTree`), a moved leaf is a `Move`, and the rest stutters, which needs of
  the invariant that an entry's parent is an earlier entry and the leaf an entry. `TreeInv`
  adds that the turn began no later than the log is long; without it an append could
  leave a gap in the branch. `EventsAreStored` and `StatusesAreEarned` need `TurnInv` on
  top of it: where `stream()` stands says what the branch of the turn holds, the prompt
  (`PromptStored`), the answer whose calls are executed (`AnswerStored`), a result for
  each call before the current one (`CallsInOrder`) and for every call of earlier answers
  (`OthersAnswered`). Only that makes "completed" true: a final answer is added when no
  older one waits for a result. `RoundsCounted` ties `tool_rounds` to the answers that ask
  for tools, one for each round and one more while the newest is unread, so "failed" comes
  neither a round early nor a round late. `Story` is `EventsMatchEntries` as it is carried
  along: the result stored last is the one of the event told last (`ResultIsToldLast`).
  Three theorems are about paths. `PathEquation` solves the recursion that defines them, since
  a parent is older than its child. `WholeTurnIsSeen` has two halves. From `PathOfBranch`, the path of
  the leaf ends with the branch of the turn, behind any compaction (`TurnIsShown`); and a
  path goes from a root to its leaf by parents (`PathsAreBranches`), so what is cut off it is
  the active branch and nothing else (`BranchIsShown`). For
  `AnswersAreShownOnce` the log has to be read without a running turn, which is what
  `GraphInv` adds to the invariant: an answer hangs from a prompt, a result or an answer, and
  a result from the answer that asked for it or from another result of that answer
  (`Followed`). So every answer has a turn (`AnswersHaveTurns`), the one that
  `nearest_user` names, and a path that shows a result shows its answer, too
  (`ResultsHaveAnswers`). `ActiveTurnsChain` is counted: each active turn but the first
  names the one before it (`NumbersChain`), and the paths of one branch contain one another
  (`PathsNest`), of which `nearest_user` names the newest prompt (`NearestIsNewest`).
* **ChatSessionsProofs**. `TypesHold`, `ConversationsAreSingle`, `AdaptersCloseOnce`,
  `SnapshotsAreSettled`, and `ConversationsAreServed`: ChatSessions implements
  Conversation. Two objects for one id can be alive, and the tasks that hold them are
  independent, so `Inv` ties them together: whoever holds an object runs in the process,
  and the map has the objects that are not closed (`References`, `InProcess`,
  `Registry`); an object has one closer, and its adapter is open until that one gets
  there (`OneCloser`, `RuntimeOpen`); `busy` and `connected` say that
  exactly one task runs or is attached, and mini's turn and abort event agree with each other
  and with `busy`, unless a refused write of the traces left them behind (`Flags`); until a turn is over, its number is in
  no row, and in no log but that of its own object (`Numbers`); a row is the live log
  when no turn runs and the checkpoint did not raise (`Settled`), and always a beginning
  of it that holds every turn reported (`Durable`).
  The six ways in which a turn task ends, three of them with a refused write, are brought
  into one form first (`TaskStepEnds`).
  `Durable` is what the refinement needs: a crash between two checkpoints is a `Stop` that
  loses nothing acknowledged. A checkpoint is the subtle step, in which the turn ends, the
  row is replaced and the completion is announced, in this order, or the row is not.
* **PiRpcProofs**. `TypesHold`, `CallersGetTheirAnswers` and `SoleStreamsAreComplete`.
  `Delivery` follows a request on its way to Pi and its answer on the way back: it is in
  one place only (`Once`), nowhere before it is sent and after the future of its caller
  is set (`Taken`), and registered in `_pending` while its caller waits (`Registered`). A
  request that timed out may still be anywhere on that way.
  `StreamInv` does the same for the events of a prompt. The queue and the pipe
  are one sequence of lines to come (`Coming`), and while nothing was abandoned they
  continue what the stream has seen, end with the settlement, reach up to where Pi is,
  and belong to the prompt of the stream. `SoleStreamIsComplete` says in terms of
  positions in that sequence (`Streamed`) that its events are numbered on from the last
  one seen.
* **TracingProofs**. `TypesHold`, `EntriesAreFiledOnce`, `CompletionIsEarned`,
  `RowsAreReplayed`, `RunsFinish` and `ParityHolds`. Each run is `Sound`: its tool rows
  are those of a replay of its timeline (`Replayed`), each entry is filed once (`Once`),
  and "completed" is earned (`Earned`). `Recording` adds what the locals of `stream()` say of the run being
  recorded: settled only if its timeline has the settlement, and no status but "completed"
  forgotten. That a row is the replay of any timeline, whatever starts and ends it has, is
  carried from event to event by `RowMoves`. A batch of entries is taken up
  in the order of the log, which `InOrder` says without recursion.
  `ParityHolds` compares folds over a timeline. `OneEventMore` says what one event does to each
  of them; from that, that entries make no difference to the snapshot
  (`EntriesDoNotMatter`) and that the outcomes are the calls in the order in which they were
  first seen, with the last end of each (`OutcomesTellAll`), by induction over timelines. They
  hold of timelines in which only events of a tool name a call and entries are no events of
  that kind; that the timeline of every run is one of them is a second invariant
  (`AllRecorded`).
* **EvaluationsProofs**. `TypesHold`, `ReproducibleResults`, `CompleteSuiteRuns`,
  `RemovedTemporaries` and `BadEvidence`, for any number of concurrent requests, cases,
  suites and clients. `Inv` has the definitions (`Definitions`: a suite names cases that
  exist, which is why no request looks for a case that is not there), where each request is
  in its list of cases and what its items say (`Requests`), one row for a pair of case and
  run, reproducible from the trace of that run (`Results`), and complete suite runs
  (`SuiteRuns`). `SuiteRunsAreComplete` says that no two items share a run, of which no
  table keeps a record: `Claims` says that a run is held by one turn or by one item, of a
  request or of a stored suite run, and that needs all pairs of holders. `SessionsOK`
  says who still uses or deletes what is left of each session; it is `TemporaryIsRemoved`
  with the requests in the middle of their deletion included. What the tables held stays
  true of them when they grow (`RunsGrow`, `PairsKept`), so each action is proved to keep
  all but the two conjuncts it may break. `BadEvidence` is about the scoring operators
  for every trace and expectation; it needs that the checks of a case are a finite set,
  hence the assumption on the lists.
* **PapersProofs**. `IndexMatches`, `WhatIsShownWasStored`, `HitsRanked`,
  `WindowsGoOn` and `QuotesCanBeFound`. `Store` says what a transaction has made of the
  tables before its k-th statement (`Written`), while every other paper stays whole
  (`Others`); there is a lemma for each statement, and after the sixth the upload's paper is whole, too
  (`WrittenIsWhole`). It has the keys of the tables as well: without `Keyed` and `NoneTwice`
  the index could hold a passage twice, which the counts of `IndexMatchesPassages` exclude,
  and `Keyed` survives `insert_passages` only because a request with an id twice is refused.
  `Answers` says that a call has seen everything that is stored while it reads, hence
  what its first search found when the second one runs, and that the evidence checked so
  far was found in that. `HitsAreRanked` needs that the key of a fused hit is that of its
  row, and that a better place in one ranking, and no worse one in the other, is a larger sum of
  reciprocals (`DominatesScores`). `WindowsAdvance` needs no induction over the text:
  `BoundaryFacts` and `NextFacts` say of one window where it may end and where the next may
  start, and `Windows` that the last one either ends its page or determines where the
  next starts. That the loop ends each page needs the last character not to be blank.
  `QuotesCanBeFound` needs an invariant of its own, `Quotable`: the stretches that start before
  the next window are whole in the passages cut so far (`Cut`), all those of a stored paper are
  in its passages (`Kept`), and a transaction leaves the passages of other papers alone
  (`Untouched`). The window that makes `Cut` grow is `StretchFits`: a stretch that starts
  before the next window ends in this one, because the next window starts an overlap back
  and a boundary is never in the first three fifths. Between finding a stretch in a window
  and finding it in the passage lie the folded blanks: `Flat` is a fold, and a stretch that
  starts and ends with a character is folded the same whatever is before and after it
  (`StretchIsApart`, `FlatGoesOn`, hence `StretchOccurs`).

With these, every invariant and every action property that a passing run checks is a
theorem. Left to TLC is liveness: `AbortEndsTurn`, `TurnEnds`, `DeleteReturns` and
`StreamEndsOnExit` need ENABLED and fairness, which the prover does not handle. The
properties of the runs that expect a violation are refuted, so there is nothing to prove.

## 5. Left out

Texts, prompts, payloads, redaction and HTML; the arithmetic of embeddings and
similarities; HTTP decoding of the adapter; argument parsing. `normalize_text` and the
parsing of a PDF are the texts they may return; the eight markers of a boundary are
represented by a paragraph break, ". " and a line break. The second process on the same
database is in Papers only: elsewhere `BEGIN IMMEDIATE` and the busy timeout make a
transaction one step, and a refused one is modelled where its failure matters
(ChatSessions, Tracing). Threads do not occur. Components not modelled carry
`not_modelled` and a reason in `PROJECT.json`: what they have of control is a loop over
one runtime, a dictionary or a pure function on texts.

## 6. Plan

Modelled and checked: MemoryStore with ContextPolicy, MiniPy with SessionTree and
TurnGraph, ChatSessions with Conversation, Tracing with Parity, PiRpc, Scoring and
Evaluations, Papers with PdfChunks. Proved: all their safety properties and both
refinements. What could still be added:

1. A request/reply specification that PiRpc implements, as ChatSessions does Conversation.
2. The messages to the client of ChatSessions (the missing `turn_complete` above).
