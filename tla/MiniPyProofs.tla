--------------------------- MODULE MiniPyProofs ---------------------------
(*****************************************************************************)
(* What runtimes/mini_py.py keeps true of the entry tree for any number of   *)
(* turns, rounds, calls and compactions, and any interleaving of a turn      *)
(* with abort, fork, compact, close and restore; and what sessions/          *)
(* turn_graph.py shows of any such tree: every answer of the active branch   *)
(* under one prompt, and the active turns as one chain.                      *)
(*****************************************************************************)
EXTENDS TurnGraph, RecursionLemmas

(* _append_entry keeps the log a log: one entry more, the old ones as they   *)
(* were.                                                                     *)
LEMMA AppendGrows ==
  ASSUME TypeOK, NEW entry \in Entry, AppendEntry(entry)
  PROVE  /\ entries' \in Seq(Entry)
         /\ leaf' \in Nat
         /\ Len(entries') = Len(entries) + 1
         /\ leaf' = Len(entries')
         /\ \A e \in Ids : entries'[e] = entries[e]
         /\ entries'[Len(entries) + 1] = entry
  BY DEF TypeOK, AppendEntry, Ids

(* Every entry the runtime makes is well typed and hangs under the leaf.     *)
LEMMA NewEntryTyped ==
  ASSUME TypeOK, NEW kind \in Kinds, NEW calls \in Nat, NEW assistant \in Nat,
         NEW call \in Nat
  PROVE  /\ NewEntry(kind, calls, assistant, call) \in Entry
         /\ NewEntry(kind, calls, assistant, call).parent = leaf
         /\ NewEntry(kind, calls, assistant, call).kind = kind
         /\ NewEntry(kind, calls, assistant, call).calls = calls
  BY DEF NewEntry, Entry, TypeOK

(* The three kinds of entry a turn makes.                                    *)
LEMMA TurnEntriesTyped ==
  ASSUME TypeOK
  PROVE  /\ \A kind \in Kinds : /\ Plain(kind) \in Entry
                                /\ Plain(kind).parent = leaf
                                /\ Plain(kind).kind = kind
                                /\ Plain(kind).calls = 0
         /\ \A calls \in Nat : /\ AssistantEntry(calls) \in Entry
                               /\ AssistantEntry(calls).parent = leaf
                               /\ AssistantEntry(calls).kind = "assistant"
                               /\ AssistantEntry(calls).calls = calls
         /\ ToolResult \in Entry
         /\ ToolResult.parent = leaf
         /\ ToolResult.kind = "tool"
         /\ ToolResult.calls = 0
<1>1. \A kind \in Kinds : /\ Plain(kind) \in Entry
                          /\ Plain(kind).parent = leaf
                          /\ Plain(kind).kind = kind
                          /\ Plain(kind).calls = 0
  BY NewEntryTyped DEF Plain
<1>2. \A calls \in Nat : /\ AssistantEntry(calls) \in Entry
                         /\ AssistantEntry(calls).parent = leaf
                         /\ AssistantEntry(calls).kind = "assistant"
                         /\ AssistantEntry(calls).calls = calls
  BY NewEntryTyped DEF AssistantEntry, Kinds
<1>3. turn.assistant \in Nat /\ turn.call \in Nat
  BY DEF TypeOK, Turn
<1>4. /\ ToolResult \in Entry
      /\ ToolResult.parent = leaf
      /\ ToolResult.kind = "tool"
      /\ ToolResult.calls = 0
  BY <1>3, NewEntryTyped DEF ToolResult, Kinds
<1> QED
  BY <1>1, <1>2, <1>4

-----------------------------------------------------------------------------
(* How a step may change the tree: not at all; by one entry that is not a    *)
(* compaction, under the leaf, in a turn that goes on; by a compaction, or   *)
(* by moving the leaf to a stored entry, while no turn runs.                 *)
TurnAppends ==
  \E entry \in Entry : /\ entry.parent = leaf
                       /\ entry.kind # "compaction"
                       /\ AppendEntry(entry)
                       /\ Running
                       /\ turn'.base = turn.base
CompactionAppends ==
  /\ ~Running /\ turn' = turn
  /\ \E entry \in Entry : entry.parent = leaf /\ AppendEntry(entry)
LeafMoves ==
  /\ ~Running /\ turn' = turn
  /\ entries' = entries
  /\ leaf' \in Ids
TreeStays ==
  /\ UNCHANGED tree
  /\ \/ Running' /\ turn'.base = turn.base /\ Running
     \/ Running' /\ turn'.base = Len(entries)
     \/ ~Running'

(* Every step of the runtime changes the tree in one of these ways.          *)
LEMMA TreeSteps ==
  ASSUME TypeOK, Next
  PROVE  TurnAppends \/ CompactionAppends \/ LeafMoves \/ TreeStays
<1> USE DEF TreeStays, Running, InTry, tree
<1> turn \in Turn
  BY DEF TypeOK
<1> USE DEF Turn
<1>1. CASE Start \/ Abort \/ Close \/ Restore
  BY <1>1 DEF Start, Abort, Close, Restore, NoTurn
<1>2. CASE BeginTurn
  BY <1>2 DEF BeginTurn, NoTurn
<1>3. ASSUME AppendUser, turn.pc \in {"agent_start", "context_injection"}
      PROVE  TurnAppends
  BY <1>3, TurnEntriesTyped DEF AppendUser, TurnAppends, Kinds
<1>4. CASE AfterStart \/ AfterInjection
  BY <1>3, <1>4 DEF AfterStart, AfterInjection
<1>5. CASE Prepared
  BY <1>5, TurnEntriesTyped DEF Prepared, TurnAppends, Kinds
<1>6. ASSUME NEW calls \in 0..instance.calls, Completed(calls)
      PROVE  TurnAppends
  <2>1. calls \in Nat
    BY <1>6, MiniPyAssumption DEF TypeOK
  <2> QED
    BY <1>6, <2>1, TurnEntriesTyped DEF Completed, TurnAppends
<1>7. CASE AfterAnswer
  BY <1>7, TurnEntriesTyped DEF AfterAnswer, EndTurn, TurnAppends
<1>8. CASE AfterToolStart \/ Executed \/ Interrupted \/ AfterEnd
  BY <1>8 DEF AfterToolStart, Executed, Interrupted, AfterEnd, EndTurn, EndYielded, Awaits
<1>9. CASE AfterToolEnd \/ AfterToolAborted
  <2>1. ToolResult \in Entry /\ ToolResult.parent = leaf /\ ToolResult.kind # "compaction"
    BY TurnEntriesTyped
  <2>2. /\ AppendEntry(ToolResult) /\ Running
        /\ turn'.base = turn.base
    BY <1>9 DEF AfterToolEnd, AfterToolAborted, EndTurn
  <2> QED
    BY <2>1, <2>2 DEF TurnAppends
<1>10. CASE AfterSettled \/ ModelRaises \/ Abandon
  BY <1>10 DEF AfterSettled, ModelRaises, Abandon, Finally, NoTurn
<1>11. CASE Compact
  BY <1>11, TurnEntriesTyped DEF Compact, CompactionAppends, Mutable, TurnActive, Kinds
<1>12. ASSUME NEW e \in Ids, Fork(e)
       PROVE  LeafMoves
  BY <1>12 DEF Fork, LeafMoves, Mutable, TurnActive
<1> HIDE DEF TreeStays, Running, InTry, tree, Turn
<1> QED
  BY <1>1, <1>2, <1>4, <1>5, <1>6, <1>7, <1>8, <1>9, <1>10, <1>11, <1>12
  DEF Next, Resume, Answer

-----------------------------------------------------------------------------
(* The updates stream() makes to its local variables, where it stands and    *)
(* one or two more of them at a time, leave them well typed.                 *)
LEMMA TurnUpdate ==
  ASSUME NEW t \in Turn, NEW pc \in Yields \cup Awaits,
         NEW n \in Nat, NEW m \in Nat, NEW status \in Statuses
  PROVE  /\ [t EXCEPT !.pc = pc] \in Turn
         /\ [t EXCEPT !.pc = pc, !.status = status] \in Turn
         /\ [t EXCEPT !.pc = pc, !.base = n] \in Turn
         /\ [t EXCEPT !.pc = pc, !.user = n] \in Turn
         /\ [t EXCEPT !.pc = pc, !.assistant = n] \in Turn
         /\ [t EXCEPT !.pc = pc, !.call = n] \in Turn
         /\ [t EXCEPT !.pc = pc, !.rounds = n, !.call = m] \in Turn
         /\ \A call \in Nat \X Nat :
              [t EXCEPT !.pc = pc, !.ends = Append(@, call)] \in Turn
<1> DEFINE u == [t EXCEPT !.pc = pc]
           v == [u EXCEPT !.rounds = n]
<1>1. u \in Turn
  BY DEF Turn
<1> HIDE DEF u
<1>2. /\ [u EXCEPT !.status = status] \in Turn
      /\ [u EXCEPT !.base = n] \in Turn
      /\ [u EXCEPT !.user = n] \in Turn
  BY <1>1 DEF Turn
<1>3. /\ [u EXCEPT !.assistant = n] \in Turn
      /\ [u EXCEPT !.call = n] \in Turn
  BY <1>1 DEF Turn
<1>4. v \in Turn
  BY <1>1 DEF Turn
<1> HIDE DEF v
<1>5. [v EXCEPT !.call = m] \in Turn
  BY <1>4 DEF Turn
<1>6. ASSUME NEW call \in Nat \X Nat
      PROVE  [u EXCEPT !.ends = Append(@, call)] \in Turn
  <2>1. Append(u.ends, call) \in Seq(Nat \X Nat)
    BY <1>1 DEF Turn
  <2> QED
    BY <1>1, <2>1 DEF Turn
<1>7. ASSUME NEW call \in Nat \X Nat
      PROVE  [t EXCEPT !.pc = pc, !.ends = Append(@, call)] \in Turn
  BY <1>6 DEF u
<1> QED
  BY <1>1, <1>2, <1>3, <1>5, <1>7 DEF u, v

(* So does the event that tells the end of a call.                           *)
LEMMA EndTyped ==
  ASSUME TypeOK, NEW pc \in {"tool_end", "tool_aborted"}
  PROVE  EndYielded(pc) \in Turn
<1>1. turn \in Turn /\ <<turn.assistant, turn.call>> \in Nat \X Nat
  BY DEF TypeOK, Turn
<1>2. pc \in Yields \cup Awaits /\ "completed" \in Statuses
  BY DEF Yields, Statuses
<1> QED
  BY <1>1, <1>2, TurnUpdate DEF EndYielded

(* Every variable keeps its type through every step.                         *)
LEMMA TypeStep == TypeOK /\ [Next]_vars => TypeOK'
<1> SUFFICES ASSUME TypeOK, [Next]_vars PROVE TypeOK'
  OBVIOUS
<1> USE DEF TypeOK, vars, session, tree
<1> turn \in Turn /\ Len(entries) \in Nat /\ Len(entries) + 1 \in Nat
  OBVIOUS
<1>1. CASE UNCHANGED vars
  BY <1>1
<1>2. CASE Start \/ Abort \/ Close
  BY <1>2 DEF Start, Abort, Close
<1>3. /\ NoTurn \in Turn
      /\ [NoTurn EXCEPT !.pc = "left"] \in Turn
  <2>1. <<>> \in Seq(Nat \X Nat)
    OBVIOUS
  <2> QED
    BY <2>1 DEF NoTurn, Turn, Statuses
<1>4. CASE BeginTurn
  <2>1. turn' = [NoTurn EXCEPT !.pc = "agent_start", !.base = Len(entries)]
    BY <1>4 DEF BeginTurn
  <2>2. [NoTurn EXCEPT !.pc = "agent_start", !.base = Len(entries)] \in Turn
    BY <1>3, TurnUpdate DEF Yields, Statuses
  <2>3. turn' \in Turn
    BY <2>1, <2>2
  <2>4. done' \in [turns: Nat, compactions: Nat]
    BY <1>4 DEF BeginTurn
  <2> QED
    BY <1>4, <2>3, <2>4 DEF BeginTurn
<1>5. ASSUME AppendUser, UNCHANGED <<session, abort>>
      PROVE  TypeOK'
  <2>1. entries' \in Seq(Entry) /\ leaf' \in Nat
    BY <1>5, AppendGrows, TurnEntriesTyped DEF AppendUser, Kinds
  <2>2. [turn EXCEPT !.pc = "complete", !.user = Len(entries) + 1] \in Turn
    BY TurnUpdate DEF Awaits, Statuses
  <2>3. turn' \in Turn
    BY <1>5, <2>2 DEF AppendUser
  <2> QED
    BY <1>5, <2>1, <2>3
<1>6. CASE AfterStart
  <2>1. CASE AppendUser
    BY <1>5, <1>6, <2>1 DEF AfterStart
  <2>2. CASE turn' = [turn EXCEPT !.pc = "prepare"] /\ UNCHANGED tree
    <3>1. turn' \in Turn
      BY <2>2 DEF Turn, Awaits
    <3> QED
      BY <1>6, <2>2, <3>1 DEF AfterStart
  <2> QED
    BY <1>6, <2>1, <2>2 DEF AfterStart
<1>7. CASE AfterInjection
  BY <1>5, <1>7 DEF AfterInjection
<1>8. CASE Prepared
  <2>1. entries' \in Seq(Entry) /\ leaf' \in Nat
    BY <1>8, AppendGrows, TurnEntriesTyped DEF Prepared, Kinds
  <2>2. turn' \in Turn
    BY <1>8 DEF Prepared, Turn, Yields
  <2> QED
    BY <1>8, <2>1, <2>2 DEF Prepared
<1>9. ASSUME NEW calls \in 0..instance.calls, Completed(calls)
      PROVE  TypeOK'
  <2>1. calls \in Nat
    BY MiniPyAssumption
  <2>2. entries' \in Seq(Entry) /\ leaf' \in Nat
    BY <1>9, <2>1, AppendGrows, TurnEntriesTyped DEF Completed
  <2>3. [turn EXCEPT !.pc = "message_update", !.assistant = Len(entries) + 1]
          \in Turn
    BY TurnUpdate DEF Yields, Statuses
  <2>4. turn' \in Turn
    BY <1>9, <2>3 DEF Completed
  <2> QED
    BY <1>9, <2>2, <2>4 DEF Completed
<1>10. \A status \in Statuses : EndTurn(status) \in Turn
  BY DEF EndTurn, Turn, Yields
<1>11. CASE AfterAnswer
  <2>1. entries' \in Seq(Entry) /\ leaf' \in Nat
    BY <1>11, AppendGrows, TurnEntriesTyped DEF AfterAnswer
  <2>2. turn.rounds + 1 \in Nat
    BY DEF Turn
  <2>3. [turn EXCEPT !.pc = "tool_start", !.rounds = turn.rounds + 1, !.call = 1]
          \in Turn
    BY <2>2, TurnUpdate DEF Yields, Statuses
  <2>4. turn' \in Turn
    BY <1>10, <1>11, <2>3 DEF AfterAnswer, Statuses
  <2> QED
    BY <1>11, <2>1, <2>4 DEF AfterAnswer
<1>12. CASE AfterToolStart \/ Executed \/ AfterEnd
  <2>1. /\ [turn EXCEPT !.pc = "execute"] \in Turn
        /\ [turn EXCEPT !.pc = "agent_settled"] \in Turn
    BY TurnUpdate DEF Yields, Awaits, Statuses
  <2>3. EndYielded("tool_end") \in Turn
    BY EndTyped
  <2>4. turn' \in Turn
    BY <1>12, <2>1, <2>3 DEF AfterToolStart, Executed, AfterEnd
  <2> QED
    BY <1>12, <2>4 DEF AfterToolStart, Executed, AfterEnd
<1>13. CASE Interrupted
  <2>2. EndYielded("tool_aborted") \in Turn
    BY EndTyped
  <2>3. turn' \in Turn
    BY <1>10, <1>13, <2>2 DEF Interrupted, Statuses
  <2> QED
    BY <1>13, <2>3 DEF Interrupted
<1>14. CASE AfterToolEnd \/ AfterToolAborted
  <2>1. entries' \in Seq(Entry) /\ leaf' \in Nat
    BY <1>14, AppendGrows, TurnEntriesTyped DEF AfterToolEnd, AfterToolAborted
  <2>2. turn.call + 1 \in Nat
    BY DEF Turn
  <2>3. /\ [turn EXCEPT !.pc = "tool_start", !.call = turn.call + 1] \in Turn
        /\ [turn EXCEPT !.pc = "complete"] \in Turn
    BY <2>2, TurnUpdate DEF Yields, Awaits, Statuses
  <2>4. turn' \in Turn
    BY <1>10, <1>14, <2>3 DEF AfterToolEnd, AfterToolAborted, Statuses
  <2> QED
    BY <1>14, <2>1, <2>4 DEF AfterToolEnd, AfterToolAborted
<1>15. CASE AfterSettled \/ ModelRaises \/ Abandon \/ Restore
  BY <1>3, <1>15 DEF AfterSettled, ModelRaises, Abandon, Finally, Restore
<1>16. CASE Compact
  <2>1. entries' \in Seq(Entry) /\ leaf' \in Nat
    BY <1>16, AppendGrows, TurnEntriesTyped DEF Compact, Kinds
  <2>2. done' \in [turns: Nat, compactions: Nat]
    BY <1>16 DEF Compact
  <2> QED
    BY <1>16, <2>1, <2>2 DEF Compact
<1>17. ASSUME NEW e \in Ids, Fork(e)
       PROVE  TypeOK'
  BY <1>17 DEF Fork, Ids
<1> QED
  BY <1>1, <1>2, <1>4, <1>6, <1>7, <1>8, <1>9, <1>11, <1>12, <1>13, <1>14,
     <1>15, <1>16, <1>17 DEF Next, Resume, Answer

(* The state of a runtime is well typed in every reachable state.            *)
THEOREM TypeCorrect == Spec => []TypeOK
<1>1. Init => TypeOK
  BY DEF Init, TypeOK, NoTurn, Turn, Statuses
<1> QED
  BY <1>1, TypeStep, PTL DEF Spec

-----------------------------------------------------------------------------
(* The inductive invariant of the tree.  The base of a running turn never    *)
(* exceeds the log, which makes "after the base" mean "of this turn".        *)
TreeInv ==
  /\ TypeOK
  /\ AlwaysRestorable
  /\ Running => turn.base <= Len(entries)
  /\ TurnIsOneBranch

(* An entry that goes under the leaf keeps the tree restorable.              *)
LEMMA AppendRestorable ==
  ASSUME TypeOK, AlwaysRestorable,
         NEW entry \in Entry, entry.parent = leaf, AppendEntry(entry)
  PROVE  AlwaysRestorable'
<1> USE DEF AlwaysRestorable, Restorable, TypeOK, Ids
<1>1. /\ entries' \in Seq(Entry)
      /\ Len(entries') = Len(entries) + 1
      /\ leaf' = Len(entries')
      /\ \A e \in 1..Len(entries) : entries'[e] = entries[e]
      /\ entries'[Len(entries) + 1] = entry
  BY AppendGrows
<1>2. ASSUME NEW e \in 1..Len(entries') PROVE entries'[e].parent < e
  <2>1. CASE e \in 1..Len(entries)
    BY <1>1, <2>1
  <2>2. CASE e = Len(entries) + 1
    BY <1>1, <2>2
  <2> QED
    BY <1>1, <2>1, <2>2
<1> QED
  BY <1>1, <1>2

(* Each step of the turn, and each step that may come between two of them,   *)
(* keeps the tree restorable and the turn an unbroken branch.                *)
LEMMA TreeInvStep == TreeInv /\ [Next]_vars => TreeInv'
<1> SUFFICES ASSUME TreeInv, [Next]_vars PROVE TreeInv'
  OBVIOUS
<1> USE DEF TreeInv
<1>1. TypeOK'
  BY TypeStep
<1>2. CASE UNCHANGED vars
  BY <1>1, <1>2 DEF vars, session, tree, AlwaysRestorable, TurnIsOneBranch,
     Running, TurnEntries
<1>3. CASE TurnAppends
  <2> PICK entry \in Entry : /\ entry.parent = leaf
                             /\ entry.kind # "compaction"
                             /\ AppendEntry(entry)
                             /\ Running
                             /\ turn'.base = turn.base
    BY <1>3 DEF TurnAppends
  <2>1. AlwaysRestorable'
    BY AppendRestorable
  <2>2. /\ Len(entries') = Len(entries) + 1
        /\ leaf' = Len(entries')
        /\ \A e \in Ids : entries'[e] = entries[e]
        /\ entries'[Len(entries) + 1] = entry
    BY AppendGrows
  <2>3. /\ Len(entries) \in Nat /\ turn.base \in Nat /\ leaf \in Nat
        /\ turn.base <= Len(entries)
    BY DEF TypeOK, Turn
  <2>4. (turn.base <= Len(entries))'
    BY <2>2, <2>3
  <2>5. ASSUME NEW e \in (turn.base + 1)..(Len(entries) + 1)
        PROVE  /\ entries'[e].kind # "compaction"
               /\ e - 1 >= turn.base + 1 => entries'[e].parent = e - 1
    <3>1. CASE e \in TurnEntries
      <4>1. /\ entries[e].kind # "compaction"
            /\ e - 1 \in TurnEntries => entries[e].parent = e - 1
        BY <3>1 DEF TurnIsOneBranch
      <4>2. entries'[e] = entries[e]
        BY <2>2, <2>3, <3>1 DEF TurnEntries, Ids
      <4> QED
        BY <2>3, <3>1, <4>1, <4>2 DEF TurnEntries
    <3>2. CASE e = Len(entries) + 1
      <4>1. Len(entries) >= turn.base + 1 => leaf = Len(entries)
        BY <2>3 DEF TurnIsOneBranch, TurnEntries
      <4> QED
        BY <2>2, <2>3, <3>2, <4>1
    <3> QED
      BY <2>3, <3>1, <3>2 DEF TurnEntries
  <2>6. TurnIsOneBranch'
    <3>1. TurnEntries' = (turn.base + 1)..(Len(entries) + 1)
      BY <2>2 DEF TurnEntries
    <3>2. \A e \in TurnEntries' : e - 1 \in TurnEntries' => e - 1 >= turn.base + 1
      BY <2>3, <3>1
    <3> QED
      BY <2>2, <2>5, <3>1, <3>2 DEF TurnIsOneBranch
  <2> QED
    BY <1>1, <2>1, <2>4, <2>6
<1>4. CASE CompactionAppends
  <2>1. AlwaysRestorable'
    BY <1>4, AppendRestorable DEF CompactionAppends
  <2>2. ~Running'
    BY <1>4 DEF CompactionAppends, Running
  <2> QED
    BY <1>1, <2>1, <2>2 DEF TurnIsOneBranch
<1>5. CASE LeafMoves
  <2>1. AlwaysRestorable'
    BY <1>5 DEF LeafMoves, AlwaysRestorable, Restorable, Ids, TypeOK
  <2>2. ~Running'
    BY <1>5 DEF LeafMoves, Running
  <2> QED
    BY <1>1, <2>1, <2>2 DEF TurnIsOneBranch
<1>6. CASE TreeStays
  <2>1. AlwaysRestorable'
    BY <1>6 DEF TreeStays, tree, AlwaysRestorable
  <2>2. CASE Running' /\ turn'.base = turn.base /\ Running
    BY <1>1, <1>6, <2>1, <2>2 DEF TreeStays, tree, TurnIsOneBranch, TurnEntries
  <2>3. CASE Running' /\ turn'.base = Len(entries)
    <3>1. TurnEntries' = {} /\ (turn.base <= Len(entries))'
      BY <1>6, <2>3 DEF TreeStays, tree, TurnEntries, TypeOK
    <3> QED
      BY <1>1, <2>1, <3>1 DEF TurnIsOneBranch
  <2>4. CASE ~Running'
    BY <1>1, <2>1, <2>4 DEF TurnIsOneBranch
  <2> QED
    BY <1>6, <2>2, <2>3, <2>4 DEF TreeStays
<1> QED
  BY <1>2, <1>3, <1>4, <1>5, <1>6, TreeSteps

(* A checkpoint taken at any moment can be restored, and the entries of a    *)
(* running turn are one branch that ends in the active leaf.                 *)
THEOREM TreeSound == Spec => [](AlwaysRestorable /\ TurnIsOneBranch)
<1>1. Init => TreeInv
  BY DEF Init, TreeInv, TypeOK, NoTurn, Turn, Statuses, AlwaysRestorable,
     Restorable, TurnIsOneBranch, Running
<1>2. TreeInv => AlwaysRestorable /\ TurnIsOneBranch
  BY DEF TreeInv
<1> QED
  BY <1>1, <1>2, TreeInvStep, PTL DEF Spec

-----------------------------------------------------------------------------
(* What AppendOnly says of one step.                                         *)
LogGrows ==
  /\ Len(entries') \in {Len(entries), Len(entries) + 1}
  /\ \A e \in Ids : entries'[e] = entries[e]
  /\ Len(entries') > Len(entries) =>
       /\ entries'[Len(entries')].parent = leaf
       /\ leaf' = Len(entries')

(* An append is such a step.                                                 *)
LEMMA AppendIsGrowth ==
  ASSUME TypeOK, NEW entry \in Entry, entry.parent = leaf, AppendEntry(entry)
  PROVE  LogGrows
  BY AppendGrows DEF LogGrows

(* No step of the runtime removes or rewrites an entry, and a new entry      *)
(* hangs under the leaf.                                                     *)
THEOREM HistoryIsKept == Spec => AppendOnly
<1>1. TypeOK /\ [Next]_vars => [LogGrows]_vars
  <2> SUFFICES ASSUME TypeOK, Next PROVE LogGrows
    BY DEF vars
  <2>1. CASE TurnAppends \/ CompactionAppends
    BY <2>1, AppendIsGrowth DEF TurnAppends, CompactionAppends
  <2>2. CASE LeafMoves \/ TreeStays
    BY <2>2 DEF LeafMoves, TreeStays, tree, LogGrows, TypeOK
  <2> QED
    BY <2>1, <2>2, TreeSteps
<1>2. Spec => []TypeOK
  BY TypeCorrect
<1>3. [][LogGrows]_vars <=> AppendOnly
  BY PTL DEF AppendOnly, LogGrows
<1> QED
  BY <1>1, <1>2, <1>3, PTL DEF Spec

-----------------------------------------------------------------------------
(* A runtime implements a session: the log, projected, is the tree.          *)

(* The first projection is empty.                                            *)
LEMMA SessionInit == Init => Session!Init
<1> SUFFICES ASSUME Init PROVE Session!Init
  OBVIOUS
<1>1. Ids = {} /\ leaf = 0
  BY DEF Init, Ids
<1> QED
  BY <1>1 DEF Session!Init, Session!NoParent, TreeNodes, TreeRoots

(* An append under the leaf grows the projection by that node.               *)
LEMMA AppendGrowsTree ==
  ASSUME TreeInv, NEW entry \in Entry, entry.parent = leaf, AppendEntry(entry)
  PROVE  /\ Session!Grow(leaf', entry)
         /\ TreeNodes'[leaf'].entry = entry
<1> DEFINE new == Len(entries) + 1
<1>1. /\ entries' \in Seq(Entry)
      /\ Len(entries') = new
      /\ leaf' = new
      /\ \A e \in Ids : entries'[e] = entries[e]
      /\ entries'[new] = entry
  BY AppendGrows DEF TreeInv
<1>2. /\ Ids' = Ids \cup {new} /\ new \notin Ids /\ new # 0
      /\ leaf \in Ids \cup {0} /\ 0 \notin Ids
      /\ \A e \in Ids : entries[e].parent # new
  <2>1. /\ Len(entries) \in Nat
        /\ leaf \in 0..Len(entries)
        /\ \A e \in 1..Len(entries) : entries[e] \in Entry /\ entries[e].parent < e
    BY DEF TreeInv, TypeOK, AlwaysRestorable, Restorable
  <2>2. \A e \in 1..Len(entries) : entries[e].parent \in Nat
    BY <2>1 DEF Entry
  <2>3. \A e \in 1..Len(entries) : entries[e].parent # new
    BY <2>1, <2>2
  <2> QED
    BY <1>1, <2>1, <2>3 DEF Ids
<1>3. ASSUME NEW p \in Nat
      PROVE  {c \in Ids' : entries'[c].parent = p}
               = {c \in Ids : entries[c].parent = p}
                   \cup (IF p = leaf THEN {new} ELSE {})
  BY <1>1, <1>2
<1>4. {c \in Ids : entries[c].parent = new} = {} /\ new # leaf /\ new \in Nat
  <2>1. new \in Nat
    BY DEF TreeInv, TypeOK
  <2> QED
    BY <1>2, <2>1
<1>5. \A e \in Ids' : e \in Nat
  BY <1>1 DEF Ids
<1>6. TreeNodes'[new] = [parent |-> leaf, entry |-> entry, children |-> {}]
  BY <1>1, <1>2, <1>3, <1>4 DEF TreeNodes
<1>7. ASSUME NEW e \in Ids
      PROVE  TreeNodes'[e] =
               IF e # leaf THEN TreeNodes[e]
               ELSE [parent |-> TreeNodes[e].parent, entry |-> TreeNodes[e].entry,
                     children |-> TreeNodes[e].children \cup {new}]
  <2> DEFINE kids == {c \in Ids : entries[c].parent = e}
             more == IF e = leaf THEN kids \cup {new} ELSE kids
  <2>1. TreeNodes[e] = [parent |-> entries[e].parent, entry |-> entries[e],
                        children |-> kids]
    BY DEF TreeNodes
  <2>2. {c \in Ids' : entries'[c].parent = e} = more
    BY <1>2, <1>3, <1>5
  <2>3. TreeNodes'[e] = [parent |-> entries[e].parent, entry |-> entries[e],
                         children |-> more]
    <3> HIDE DEF more
    <3> QED
      BY <1>1, <1>2, <2>2 DEF TreeNodes
  <2> HIDE DEF kids
  <2>4. CASE e = leaf
    BY <2>1, <2>3, <2>4
  <2>5. CASE e # leaf
    BY <2>1, <2>3, <2>5
  <2> QED
    BY <2>4, <2>5
<1>8. DOMAIN TreeNodes = Ids /\ DOMAIN TreeNodes' = Ids'
  BY DEF TreeNodes
<1>9. TreeNodes' = Session!NodesAfter(new, leaf, entry)
  <2>1. TreeNodes' = [n \in Ids' |-> TreeNodes'[n]]
    BY DEF TreeNodes
  <2> QED
    BY <1>2, <1>6, <1>7, <1>8, <2>1 DEF Session!NodesAfter, Session!SessionNode
<1>10. TreeRoots' = IF leaf = 0 THEN TreeRoots \cup {new} ELSE TreeRoots
  BY <1>3 DEF TreeRoots
<1> QED
  BY <1>1, <1>2, <1>6, <1>8, <1>9, <1>10 DEF Session!Grow, Session!NoParent

(* Every step of the runtime is a step of the session, or none.              *)
LEMMA SessionStep == TreeInv /\ [Next]_vars => [Session!Next]_(Session!vars)
<1> SUFFICES ASSUME TreeInv, [Next]_vars
             PROVE  Session!Next \/ UNCHANGED Session!vars
  OBVIOUS
<1>1. CASE UNCHANGED vars \/ TreeStays
  <2>1. entries' = entries /\ leaf' = leaf
    BY <1>1 DEF vars, tree, TreeStays
  <2> QED
    BY <2>1 DEF Session!vars, Ids, TreeNodes, TreeRoots
<1>2. CASE TurnAppends \/ CompactionAppends
  BY <1>2, AppendGrowsTree DEF TurnAppends, CompactionAppends, Session!Next
<1>3. CASE LeafMoves
  BY <1>3 DEF LeafMoves, Session!Next, Session!Move, Ids, TreeNodes, TreeRoots
<1> QED
  BY <1>1, <1>2, <1>3, TreeSteps DEF TreeInv

(* Whatever turns, forks, compactions, aborts, closes and restores come      *)
(* between, the session is a tree that only grows at its leaf.               *)
THEOREM SessionIsATree == Spec => IsASessionTree
<1>1. Init => TreeInv
  BY DEF Init, TreeInv, TypeOK, NoTurn, Turn, Statuses, AlwaysRestorable,
     Restorable, TurnIsOneBranch, Running
<1> QED
  BY <1>1, SessionInit, SessionStep, TreeInvStep, PTL
  DEF Spec, IsASessionTree, Session!Spec

-----------------------------------------------------------------------------
(* The rounds of a turn.  While the calls of an answer are executed the last *)
(* entries are that answer and the results it has, in order; every other     *)
(* answer of a turn that goes on has all of its results.                     *)
InRound == turn.pc \in {"tool_start", "execute", "tool_end", "tool_aborted"}
Prompted == turn.pc \in {"complete", "message_update"} \/ InRound
Pending(a) == (turn.pc = "message_update" \/ InRound) /\ a = turn.assistant

(* The prompt is in the tree.                                                *)
PromptStored ==
  Prompted => turn.user \in TurnEntries /\ entries[turn.user].kind = "user"
(* The answer whose calls come next is the last entry.                       *)
AnswerStored ==
  turn.pc = "message_update" =>
    /\ turn.assistant = Len(entries) /\ turn.assistant \in TurnEntries
    /\ entries[turn.assistant].kind = "assistant"
(* The calls before the current one are answered, and nothing follows.       *)
CallsInOrder ==
  InRound =>
    /\ turn.assistant \in TurnEntries /\ entries[turn.assistant].kind = "assistant"
    /\ turn.call \in 1..entries[turn.assistant].calls
    /\ Len(entries) = turn.assistant + turn.call - 1
    /\ AnsweredUpTo(turn.assistant, turn.call - 1)
(* No earlier answer is left without its results.                            *)
OthersAnswered ==
  ~Ended => \A e \in TurnEntries :
    entries[e].kind = "assistant" => Answered(e) \/ Pending(e)

(* A call is only given up when somebody asked for it.                       *)
AbortAsked == turn.pc = "tool_aborted" => abort = "set"
(* An answer that asks for tools makes a round of its own, once it is read.  *)
Unread == IF turn.pc = "message_update" /\ entries[turn.assistant].calls > 0 THEN 1 ELSE 0
RoundsCounted ==
  /\ turn.rounds <= instance.max_tool_rounds
  /\ ~Ended => Cardinality(Asking) = turn.rounds + Unread
(* The event the consumer holds is about the call being executed.            *)
LastEndHeld == Held = 1 => turn.ends[Len(turn.ends)] = <<turn.assistant, turn.call>>

TurnInv ==
  /\ Running => /\ RoundsCounted /\ PromptStored /\ AnswerStored /\ CallsInOrder
                /\ OthersAnswered /\ AbortAsked /\ LastEndHeld
  /\ EventsMatchEntries
  /\ StatusIsEarned

(* What is read of the tree is the same when the turn's entries are.         *)
LEMMA TreeRead ==
  ASSUME TypeOK, entries' = entries, turn'.base = turn.base
  PROVE  /\ Ids' = Ids /\ TurnEntries' = TurnEntries /\ TurnTools' = TurnTools
         /\ Asking' = Asking
         /\ \A e \in Ids : Answered(e)' <=> Answered(e)
         /\ \A e \in Ids, n \in Nat : AnsweredUpTo(e, n)' <=> AnsweredUpTo(e, n)
  BY DEF TypeOK, Ids, TurnEntries, TurnTools, Asking, Answered, AnsweredUpTo

(* The entries of a turn can be counted.                                     *)
LEMMA TurnCounted ==
  ASSUME TypeOK, NEW S, S \subseteq TurnEntries
  PROVE  IsFiniteSet(S) /\ Cardinality(S) \in Nat
<1>1. turn.base + 1 \in Int /\ Len(entries) \in Int
  BY DEF TypeOK, Turn
<1>2. IsFiniteSet(TurnEntries)
  BY <1>1, FS_Interval DEF TurnEntries
<1>3. IsFiniteSet(S)
  BY <1>2, FS_Subset
<1> QED
  BY <1>3, FS_CardinalityType

(* An append adds one entry to the turn and leaves the answers as they are.  *)
LEMMA TurnGrows ==
  ASSUME TypeOK, turn.base <= Len(entries), turn'.base = turn.base,
         NEW entry \in Entry, AppendEntry(entry)
  PROVE  /\ Len(entries') = Len(entries) + 1
         /\ TurnEntries' = TurnEntries \cup {Len(entries) + 1}
         /\ Len(entries) + 1 \notin TurnEntries
         /\ \A e \in TurnEntries : e \in Ids
         /\ \A e \in Ids : entries'[e] = entries[e]
         /\ entries'[Len(entries) + 1] = entry
         /\ \A e \in Ids, n \in Nat : AnsweredUpTo(e, n) => AnsweredUpTo(e, n)'
         /\ \A e \in Ids : Answered(e) => Answered(e)'
         /\ TurnTools' =
              IF entry.kind = "tool" THEN TurnTools \cup {Len(entries) + 1} ELSE TurnTools
         /\ Cardinality(Asking') =
              Cardinality(Asking) + (IF entry.calls > 0 THEN 1 ELSE 0)
<1>1. /\ entries' \in Seq(Entry) /\ Len(entries') = Len(entries) + 1
      /\ \A e \in Ids : entries'[e] = entries[e]
      /\ entries'[Len(entries) + 1] = entry
  BY AppendGrows
<1>2. turn.base \in Nat /\ Len(entries) \in Nat
  BY DEF TypeOK, Turn
<1>3. /\ TurnEntries' = TurnEntries \cup {Len(entries) + 1}
      /\ Len(entries) + 1 \notin TurnEntries
      /\ \A e \in TurnEntries : e \in Ids
  BY <1>1, <1>2 DEF TurnEntries, Ids
<1>4. \A e \in Ids, n \in Nat : AnsweredUpTo(e, n) => AnsweredUpTo(e, n)'
  <2>1. SUFFICES ASSUME NEW e \in Ids, NEW n \in Nat, AnsweredUpTo(e, n), NEW i \in 1..n
                 PROVE  /\ e + i \in Ids' /\ entries'[e + i].kind = "tool"
                        /\ entries'[e + i].assistant = e /\ entries'[e + i].call = i
    BY DEF AnsweredUpTo
  <2>2. /\ e + i \in Ids /\ entries[e + i].kind = "tool"
        /\ entries[e + i].assistant = e /\ entries[e + i].call = i
    BY <2>1 DEF AnsweredUpTo
  <2>3. e + i \in Ids'
    BY <1>1, <1>2, <2>2 DEF Ids
  <2> QED
    BY <1>1, <2>2, <2>3
<1>5. \A e \in Ids : Answered(e) => Answered(e)'
  <2>1. SUFFICES ASSUME NEW e \in Ids, Answered(e) PROVE Answered(e)'
    OBVIOUS
  <2>2. entries[e] \in Entry
    BY DEF TypeOK, Ids
  <2>3. entries'[e].calls = entries[e].calls /\ entries[e].calls \in Nat
    BY <1>1, <2>2 DEF Entry
  <2>4. PICK n \in Nat : n = entries[e].calls
    BY <2>3
  <2>5. AnsweredUpTo(e, n)'
    BY <1>4, <2>1, <2>4 DEF Answered
  <2> QED
    BY <2>3, <2>4, <2>5 DEF Answered, AnsweredUpTo
<1>6. TurnTools' = IF entry.kind = "tool" THEN TurnTools \cup {Len(entries) + 1} ELSE TurnTools
  BY <1>1, <1>3 DEF TurnTools
<1>7. Cardinality(Asking') = Cardinality(Asking) + (IF entry.calls > 0 THEN 1 ELSE 0)
  <2> DEFINE new == Len(entries) + 1
  <2>1. Asking' = IF entry.calls > 0 THEN Asking \cup {new} ELSE Asking
    BY <1>1, <1>3 DEF Asking
  <2>2. new \notin Asking
    BY <1>3 DEF Asking
  <2>3. IsFiniteSet(Asking) /\ Cardinality(Asking) \in Nat
    BY TurnCounted DEF Asking
  <2>4. Cardinality(Asking \cup {new}) = Cardinality(Asking) + 1
    BY <2>2, <2>3, FS_AddElement
  <2> QED
    BY <2>1, <2>3, <2>4
<1> QED
  BY <1>1, <1>3, <1>4, <1>5, <1>6, <1>7

(* The story of a turn: its events and its results.  It stays when neither   *)
(* comes, or the consumer is given an event or resumes from one.             *)
Story ==
  /\ Cardinality(TurnTools) + Held = Len(turn.ends)
  /\ \A e \in TurnTools :
       turn.ends[Place(e)] = <<entries[e].assistant, entries[e].call>>

(* A result has a place among those of its turn.                             *)
LEMMA PlaceExists ==
  ASSUME TypeOK, NEW e \in TurnTools
  PROVE  Place(e) \in 1..Cardinality(TurnTools)
<1> DEFINE S == {t \in TurnTools : t <= e}
<1>1. TurnTools \subseteq TurnEntries /\ S \subseteq TurnTools /\ S \subseteq TurnEntries
  BY DEF TurnTools
<1>2. /\ IsFiniteSet(S) /\ Cardinality(S) \in Nat
      /\ IsFiniteSet(TurnTools) /\ Cardinality(TurnTools) \in Nat
  BY <1>1, TurnCounted
<1>3. e \in S
  BY DEF TurnTools, TurnEntries, TypeOK, Turn
<1>4. Cardinality(S) # 0
  BY <1>2, <1>3, FS_EmptySet
<1>5. Cardinality(S) <= Cardinality(TurnTools)
  BY <1>1, <1>2, FS_Subset
<1> QED
  BY <1>2, <1>4, <1>5 DEF Place

(* No event and no result: other entries may come.                           *)
LEMMA StoryStays ==
  ASSUME TypeOK, Story, TurnTools' = TurnTools, turn'.ends = turn.ends, Held' = Held,
         \A e \in TurnTools : entries'[e] = entries[e]
  PROVE  Story'
<1>1. \A e \in TurnTools : Place(e)' = Place(e)
  BY DEF Place
<1> QED
  BY <1>1 DEF Story

(* An event, whose result is to come.                                        *)
LEMMA EventIsHeld ==
  ASSUME TypeOK, Story, TurnTools' = TurnTools, entries' = entries,
         Held = 0, Held' = 1, NEW call, turn'.ends = Append(turn.ends, call),
         call \in Nat \X Nat
  PROVE  Story' /\ turn'.ends[Len(turn'.ends)] = call
<1> PICK ends \in Seq(Nat \X Nat) : ends = turn.ends
  BY DEF TypeOK, Turn
<1>1. /\ Len(Append(ends, call)) = Len(ends) + 1
      /\ Append(ends, call)[Len(ends) + 1] = call
      /\ \A i \in 1..Len(ends) : Append(ends, call)[i] = ends[i]
  OBVIOUS
<1>2. Cardinality(TurnTools) = Len(ends) /\ Len(ends) \in Nat
  <2>1. Cardinality(TurnTools) \in Nat
    BY TurnCounted DEF TurnTools
  <2> QED
    BY <2>1 DEF Story
<1>3. \A e \in TurnTools : Place(e)' = Place(e) /\ Place(e) \in 1..Len(ends)
  BY <1>2, PlaceExists DEF Place
<1>4. \A e \in TurnTools :
        turn'.ends[Place(e)'] = <<entries[e].assistant, entries[e].call>>
  BY <1>1, <1>3 DEF Story
<1> QED
  BY <1>1, <1>2, <1>4 DEF Story

(* The result of the event that was held, after all the others.              *)
LEMMA ResultIsToldLast ==
  ASSUME TypeOK, Story, turn.base <= Len(entries), turn'.base = turn.base,
         AppendEntry(ToolResult), Held = 1, Held' = 0, turn'.ends = turn.ends,
         LastEndHeld
  PROVE  Story'
<1> DEFINE new == Len(entries) + 1
<1>1. ToolResult \in Entry /\ ToolResult.kind = "tool"
  BY TurnEntriesTyped
<1>2. /\ TurnTools' = TurnTools \cup {new} /\ new \notin TurnEntries
      /\ \A e \in TurnEntries : e \in Ids
      /\ \A e \in Ids : entries'[e] = entries[e]
      /\ entries'[new] = ToolResult
  BY <1>1, TurnGrows
<1>3. TurnTools \subseteq TurnEntries /\ new \notin TurnTools
  BY <1>2 DEF TurnTools
<1>4. IsFiniteSet(TurnTools) /\ Cardinality(TurnTools) \in Nat
  BY <1>3, TurnCounted
<1>5. Cardinality(TurnTools') = Cardinality(TurnTools) + 1
  BY <1>2, <1>3, <1>4, FS_AddElement
<1>6. Len(turn.ends) \in Nat /\ Len(turn.ends) = Cardinality(TurnTools')
  BY <1>4, <1>5 DEF Story, TypeOK, Turn
<1>7. \A e \in TurnTools : e < new /\ e \in Ids
  BY <1>2, <1>3 DEF Ids, TypeOK
<1>8. ASSUME NEW e \in TurnTools PROVE Place(e)' = Place(e)
  <2>1. ~(new <= e)
    BY <1>7 DEF Ids, TypeOK
  <2>2. {t \in TurnTools' : t <= e} = {t \in TurnTools : t <= e}
    BY <1>2, <2>1
  <2> QED
    BY <2>2 DEF Place
<1>9. {t \in TurnTools' : t <= new} = TurnTools'
  <2>1. new \in Nat /\ \A e \in TurnTools : e \in Nat
    BY <1>7 DEF TypeOK, Ids
  <2> QED
    BY <1>2, <1>7, <2>1
<1>10. Cardinality({t \in TurnTools' : t <= new}) = Len(turn.ends)
  BY <1>6, <1>9
<1>11. ASSUME NEW e \in TurnTools'
       PROVE  turn'.ends[Place(e)'] = <<entries'[e].assistant, entries'[e].call>>
  <2>1. CASE e \in TurnTools
    BY <1>2, <1>7, <1>8, <2>1 DEF Story
  <2>2. CASE e = new
    <3>1. Place(e)' = Len(turn.ends)
      BY <1>10, <2>2 DEF Place
    <3>2. ToolResult.assistant = turn.assistant /\ ToolResult.call = turn.call
      BY DEF ToolResult, NewEntry
    <3> QED
      BY <1>2, <2>2, <3>1, <3>2 DEF LastEndHeld
  <2> QED
    BY <1>2, <2>1, <2>2
<1> QED
  BY <1>6, <1>11 DEF Story

(* Steps of other tasks: none runs a turn, or the turn stays where it is.    *)
LEMMA IdleKeepsTurn ==
  ASSUME ~Running'
  PROVE  TurnInv'
  BY DEF TurnInv, EventsMatchEntries, StatusIsEarned, Running, Ended

(* A step that touches neither the tree nor the turn, an abort at most.      *)
LEMMA OthersKeepTurn ==
  ASSUME TypeOK, TurnInv, UNCHANGED <<instance, entries, leaf, turn>>,
         abort' = abort \/ abort' = "set"
  PROVE  TurnInv'
<1>1. TurnEntries' = TurnEntries /\ Ids' = Ids
  BY DEF TurnEntries, Ids
<1>2. \A e \in Ids : Answered(e)' <=> Answered(e)
  BY DEF Answered, AnsweredUpTo, Ids
<1>3. TurnTools' = TurnTools /\ Asking' = Asking
  BY <1>1 DEF TurnTools, Asking
<1>4. EventsMatchEntries'
  BY <1>1, <1>3 DEF TurnInv, EventsMatchEntries, Running, Held, Place
<1>5. StatusIsEarned'
  BY <1>3 DEF TurnInv, StatusIsEarned, Ended, TurnEntries, Answered, AnsweredUpTo, Ids
<1>6. Running' => RoundsCounted' /\ LastEndHeld'
  BY <1>3 DEF TurnInv, Running, RoundsCounted, Unread, Ended, LastEndHeld, Held
<1>7. Running' => /\ PromptStored' /\ AnswerStored' /\ CallsInOrder' /\ OthersAnswered'
                  /\ AbortAsked'
  BY DEF TurnInv, Running, AbortAsked, PromptStored, AnswerStored, CallsInOrder, OthersAnswered,
         Prompted, InRound, Pending, Ended, TurnEntries, Answered, AnsweredUpTo, Ids
<1> QED
  BY <1>4, <1>5, <1>6, <1>7 DEF TurnInv

(* A turn starts with no entry of its own.                                   *)
LEMMA BeginKeepsTurn ==
  ASSUME TypeOK, BeginTurn
  PROVE  TurnInv'
<1>1. /\ turn'.pc = "agent_start" /\ turn'.base = Len(entries) /\ turn'.rounds = 0
      /\ turn'.ends = <<>> /\ UNCHANGED <<instance, entries>>
      /\ Len(entries) \in Nat /\ instance.max_tool_rounds \in Nat
  BY MiniPyAssumption DEF BeginTurn, NoTurn, TypeOK, tree
<1>2. TurnEntries' = {}
  BY <1>1 DEF TurnEntries
<1>3. TurnTools' = {} /\ Asking' = {} /\ Cardinality({}) = 0
  BY <1>2, FS_EmptySet DEF TurnTools, Asking
<1>4. EventsMatchEntries'
  <2>1. Cardinality(TurnTools') + 0 = Len(turn'.ends) /\ Held' = 0
    BY <1>1, <1>3 DEF Held
  <2> QED
    BY <1>3, <2>1 DEF EventsMatchEntries
<1>5. StatusIsEarned'
  BY <1>1 DEF StatusIsEarned, Ended
<1>6. RoundsCounted' /\ LastEndHeld'
  <2>1. Unread' = 0 /\ Held' = 0
    BY <1>1 DEF Unread, Held
  <2> QED
    BY <1>1, <1>3, <2>1 DEF RoundsCounted, LastEndHeld
<1>7. PromptStored' /\ AnswerStored' /\ CallsInOrder' /\ OthersAnswered' /\ AbortAsked'
  BY <1>1, <1>2 DEF PromptStored, AnswerStored, CallsInOrder, OthersAnswered, AbortAsked,
                    Prompted, InRound
<1> QED
  BY <1>4, <1>5, <1>6, <1>7 DEF TurnInv

(* What a step of the turn keeps of its locals: all of them but where it     *)
(* stands, unless it says otherwise.                                         *)
Moves(t, pc) ==
  /\ turn'.pc = pc /\ turn'.base = t.base /\ turn'.user = t.user
  /\ turn'.assistant = t.assistant /\ turn'.call = t.call
  /\ turn'.rounds = t.rounds /\ turn'.ends = t.ends /\ turn'.status = t.status

(* The generator goes from a yield to an await, or back, and stores nothing. *)
LEMMA WaitKeepsTurn ==
  ASSUME TypeOK, TurnInv, UNCHANGED <<instance, entries>>,
         \/ turn.pc = "agent_start" /\ Moves(turn, "prepare")
         \/ turn.pc = "prepare" /\ Moves(turn, "context_injection")
         \/ turn.pc = "tool_start" /\ Moves(turn, "execute")
  PROVE  TurnInv'
<1>1. turn'.base = turn.base /\ turn'.ends = turn.ends
  BY DEF Moves
<1>2. /\ Ids' = Ids /\ TurnEntries' = TurnEntries /\ TurnTools' = TurnTools
      /\ Asking' = Asking
      /\ \A e \in Ids : Answered(e)' <=> Answered(e)
      /\ \A e \in Ids, n \in Nat : AnsweredUpTo(e, n)' <=> AnsweredUpTo(e, n)
  BY <1>1, TreeRead
<1>3. /\ Running /\ Running' /\ ~Ended /\ ~Ended'
      /\ Held = 0 /\ Held' = 0 /\ Unread = 0 /\ Unread' = 0
  BY DEF Moves, Running, Ended, Held, Unread
<1>4. EventsMatchEntries'
  BY <1>1, <1>2, <1>3, StoryStays DEF TurnInv, EventsMatchEntries, Story
<1>5. StatusIsEarned' /\ RoundsCounted' /\ LastEndHeld'
  BY <1>2, <1>3 DEF TurnInv, StatusIsEarned, RoundsCounted, LastEndHeld, Moves
<1>6. \A e \in TurnEntries : e \in Ids
  BY DEF TypeOK, Turn, TurnEntries, Ids
<1>7. PromptStored' /\ AnswerStored' /\ AbortAsked'
  BY <1>2, <1>3
  DEF TurnInv, PromptStored, AnswerStored, AbortAsked, Prompted, InRound, Moves
<1>8. CallsInOrder'
  <2>1. CASE turn.pc = "tool_start" /\ Moves(turn, "execute")
    BY <1>2, <1>3, <2>1
    DEF TurnInv, CallsInOrder, InRound, Moves, AnsweredUpTo, TurnEntries, Ids
  <2>2. CASE ~InRound'
    BY <2>2 DEF CallsInOrder
  <2> QED
    BY <2>1, <2>2 DEF InRound, Moves
<1>9. OthersAnswered'
  BY <1>2, <1>3, <1>6 DEF TurnInv, OthersAnswered, Pending, InRound, Moves
<1> QED
  BY <1>4, <1>5, <1>7, <1>8, <1>9 DEF TurnInv

(* The tool's outcome becomes an event before it becomes an entry.           *)
LEMMA OutcomeKeepsTurn ==
  ASSUME TypeOK, TurnInv, UNCHANGED <<instance, entries>>, turn.pc = "execute",
         NEW pc \in {"tool_end", "tool_aborted"},
         pc = "tool_aborted" => abort' = "set",
         turn' = EndYielded(pc)
  PROVE  TurnInv'
<1>1. /\ turn'.pc = pc /\ turn'.base = turn.base /\ turn'.user = turn.user
      /\ turn'.assistant = turn.assistant /\ turn'.call = turn.call
      /\ turn'.rounds = turn.rounds
      /\ turn'.ends = Append(turn.ends, <<turn.assistant, turn.call>>)
      /\ <<turn.assistant, turn.call>> \in Nat \X Nat
  BY DEF TypeOK, Turn, EndYielded
<1>2. /\ Ids' = Ids /\ TurnEntries' = TurnEntries /\ TurnTools' = TurnTools
      /\ Asking' = Asking
      /\ \A e \in Ids : Answered(e)' <=> Answered(e)
      /\ \A e \in Ids, n \in Nat : AnsweredUpTo(e, n)' <=> AnsweredUpTo(e, n)
  BY <1>1, TreeRead
<1>3. /\ Running /\ Running' /\ ~Ended /\ ~Ended'
      /\ Held = 0 /\ Held' = 1 /\ Unread = 0 /\ Unread' = 0
  BY <1>1 DEF Running, Ended, Held, Unread
<1>4. EventsMatchEntries' /\ LastEndHeld'
  <2>1. Story
    BY <1>3 DEF TurnInv, EventsMatchEntries, Story
  <2> PICK call \in Nat \X Nat : call = <<turn.assistant, turn.call>>
    BY <1>1
  <2>2. turn'.ends = Append(turn.ends, call)
    BY <1>1
  <2>3. Story' /\ turn'.ends[Len(turn'.ends)] = call
    BY <1>2, <1>3, <2>1, <2>2, EventIsHeld
  <2> QED
    BY <1>1, <2>3 DEF EventsMatchEntries, Story, LastEndHeld
<1>5. StatusIsEarned' /\ RoundsCounted'
  BY <1>1, <1>2, <1>3 DEF TurnInv, StatusIsEarned, RoundsCounted
<1>6. \A e \in TurnEntries : e \in Ids
  BY DEF TypeOK, Turn, TurnEntries, Ids
<1>7. PromptStored' /\ AnswerStored' /\ AbortAsked'
  BY <1>1, <1>2, <1>3 DEF TurnInv, PromptStored, AnswerStored, AbortAsked, Prompted, InRound
<1>8. CallsInOrder'
  BY <1>1, <1>3 DEF TurnInv, CallsInOrder, InRound, AnsweredUpTo, TurnEntries, Ids
<1>9. OthersAnswered'
  BY <1>1, <1>2, <1>3, <1>6 DEF TurnInv, OthersAnswered, Pending, InRound
<1> QED
  BY <1>4, <1>5, <1>7, <1>8, <1>9 DEF TurnInv

(* The prompt, and the memories before it, are the first entries of a turn.  *)
LEMMA FirstEntriesKeepTurn ==
  ASSUME TypeOK, TurnInv, UNCHANGED instance, turn.base <= Len(entries),
         NEW entry \in Entry, AppendEntry(entry), entry.calls = 0,
         \/ /\ turn.pc \in {"agent_start", "context_injection"} /\ entry.kind = "user"
            /\ turn' = [turn EXCEPT !.pc = "complete", !.user = Len(entries) + 1]
         \/ /\ turn.pc = "prepare" /\ entry.kind = "context"
            /\ turn' = [turn EXCEPT !.pc = "context_injection"]
  PROVE  TurnInv'
<1>1. /\ turn'.base = turn.base /\ turn'.rounds = turn.rounds /\ turn'.ends = turn.ends
      /\ \/ turn'.pc = "complete" /\ turn'.user = Len(entries) + 1 /\ entry.kind = "user"
         \/ turn'.pc = "context_injection" /\ entry.kind = "context"
  BY DEF TypeOK, Turn
<1>2. /\ Len(entries') = Len(entries) + 1
      /\ TurnEntries' = TurnEntries \cup {Len(entries) + 1}
      /\ \A e \in TurnEntries : e \in Ids
      /\ \A e \in Ids : entries'[e] = entries[e]
      /\ entries'[Len(entries) + 1] = entry
      /\ \A e \in Ids : Answered(e) => Answered(e)'
      /\ TurnTools' =
           IF entry.kind = "tool" THEN TurnTools \cup {Len(entries) + 1} ELSE TurnTools
      /\ Cardinality(Asking') =
           Cardinality(Asking) + (IF entry.calls > 0 THEN 1 ELSE 0)
  BY <1>1, TurnGrows
<1>3. /\ Running /\ Running' /\ ~Ended /\ ~Ended'
      /\ Held = 0 /\ Held' = 0 /\ Unread = 0 /\ Unread' = 0
  BY <1>1 DEF Running, Ended, Held, Unread
<1>4. EventsMatchEntries'
  <2>1. TurnTools' = TurnTools /\ \A e \in TurnTools : entries'[e] = entries[e]
    BY <1>1, <1>2 DEF TurnTools
  <2> QED
    BY <1>1, <1>3, <2>1, StoryStays DEF TurnInv, EventsMatchEntries, Story
<1>5. StatusIsEarned' /\ RoundsCounted' /\ LastEndHeld'
  <2>1. Cardinality(Asking) = turn.rounds + 0 /\ turn.rounds \in Nat
    BY <1>3 DEF TurnInv, RoundsCounted, TypeOK, Turn
  <2>2. Cardinality(Asking') = turn'.rounds + 0
    BY <1>1, <1>2, <2>1
  <2> QED
    BY <1>1, <1>3, <2>2 DEF TurnInv, StatusIsEarned, RoundsCounted, LastEndHeld
<1>6. PromptStored' /\ AnswerStored' /\ CallsInOrder' /\ AbortAsked'
  BY <1>1, <1>2, <1>3
  DEF TurnInv, PromptStored, AnswerStored, CallsInOrder, AbortAsked, Prompted, InRound
<1>7. OthersAnswered'
  <2>1. \A e \in TurnEntries : entries[e].kind = "assistant" => Answered(e)
    BY <1>3 DEF TurnInv, OthersAnswered, Pending, InRound
  <2> QED
    BY <1>1, <1>2, <2>1 DEF OthersAnswered
<1> QED
  BY <1>4, <1>5, <1>6, <1>7 DEF TurnInv

(* The model's answer is the last entry, and nothing else awaits a result.   *)
LEMMA AnswerKeepsTurn ==
  ASSUME TypeOK, TurnInv, UNCHANGED instance, turn.base <= Len(entries),
         NEW calls \in Nat, turn.pc = "complete",
         AppendEntry(AssistantEntry(calls)),
         turn' = [turn EXCEPT !.pc = "message_update", !.assistant = Len(entries) + 1]
  PROVE  TurnInv'
<1> DEFINE entry == AssistantEntry(calls)
<1>1. /\ turn'.base = turn.base /\ turn'.rounds = turn.rounds /\ turn'.ends = turn.ends
      /\ turn'.pc = "message_update" /\ turn'.user = turn.user
      /\ turn'.assistant = Len(entries) + 1
  BY DEF TypeOK, Turn
<1>2. entry \in Entry /\ entry.kind = "assistant" /\ entry.calls = calls
  BY TurnEntriesTyped
<1>3. /\ Len(entries') = Len(entries) + 1
      /\ TurnEntries' = TurnEntries \cup {Len(entries) + 1}
      /\ \A e \in TurnEntries : e \in Ids
      /\ \A e \in Ids : entries'[e] = entries[e]
      /\ entries'[Len(entries) + 1] = entry
      /\ \A e \in Ids : Answered(e) => Answered(e)'
      /\ TurnTools' =
           IF entry.kind = "tool" THEN TurnTools \cup {Len(entries) + 1} ELSE TurnTools
      /\ Cardinality(Asking') =
           Cardinality(Asking) + (IF entry.calls > 0 THEN 1 ELSE 0)
  BY <1>1, <1>2, TurnGrows
<1> HIDE DEF entry
<1>4. /\ Running /\ Running' /\ ~Ended /\ ~Ended'
      /\ Held = 0 /\ Held' = 0 /\ Unread = 0
      /\ Unread' = IF entry.calls > 0 THEN 1 ELSE 0
  BY <1>1, <1>3 DEF Running, Ended, Held, Unread
<1>5. EventsMatchEntries'
  <2>1. TurnTools' = TurnTools /\ \A e \in TurnTools : entries'[e] = entries[e]
    BY <1>2, <1>3 DEF TurnTools
  <2> QED
    BY <1>1, <1>4, <2>1, StoryStays DEF TurnInv, EventsMatchEntries, Story
<1>6. StatusIsEarned' /\ RoundsCounted' /\ LastEndHeld'
  <2>1. Cardinality(Asking) = turn.rounds + 0 /\ turn.rounds \in Nat
    BY <1>4 DEF TurnInv, RoundsCounted, TypeOK, Turn
  <2>2. Cardinality(Asking') = turn'.rounds + Unread'
    BY <1>1, <1>3, <1>4, <2>1
  <2> QED
    BY <1>1, <1>4, <2>2 DEF TurnInv, StatusIsEarned, RoundsCounted, LastEndHeld
<1>7. PromptStored' /\ AnswerStored' /\ CallsInOrder' /\ AbortAsked'
  BY <1>1, <1>2, <1>3, <1>4
  DEF TurnInv, PromptStored, AnswerStored, CallsInOrder, AbortAsked, Prompted, InRound
<1>8. OthersAnswered'
  <2>1. \A e \in TurnEntries : entries[e].kind = "assistant" => Answered(e)
    BY <1>4 DEF TurnInv, OthersAnswered, Pending, InRound
  <2> QED
    BY <1>1, <1>3, <2>1 DEF OthersAnswered, Pending
<1> QED
  BY <1>5, <1>6, <1>7, <1>8 DEF TurnInv

(* The result of the call being executed comes right after those before it.  *)
LEMMA ResultAnswers ==
  ASSUME TypeOK, TurnInv, turn.base <= Len(entries), turn'.base = turn.base,
         InRound, AppendEntry(ToolResult)
  PROVE  /\ turn.assistant \in TurnEntries /\ turn.assistant \in Ids
         /\ entries[turn.assistant].kind = "assistant"
         /\ turn.call \in 1..entries[turn.assistant].calls
         /\ entries[turn.assistant].calls \in Nat
         /\ Len(entries') = turn.assistant + turn.call
         /\ \A i \in 1..turn.call : /\ turn.assistant + i \in Ids'
                                    /\ entries'[turn.assistant + i].kind = "tool"
                                    /\ entries'[turn.assistant + i].assistant = turn.assistant
                                    /\ entries'[turn.assistant + i].call = i
<1>1. /\ turn.assistant \in TurnEntries /\ entries[turn.assistant].kind = "assistant"
      /\ turn.call \in 1..entries[turn.assistant].calls
      /\ Len(entries) = turn.assistant + turn.call - 1
      /\ AnsweredUpTo(turn.assistant, turn.call - 1)
  BY DEF TurnInv, CallsInOrder, InRound, Running
<1>2. /\ turn.assistant \in Nat /\ turn.call \in Nat /\ turn.base \in Nat
      /\ Len(entries) \in Nat
  BY DEF TypeOK, Turn
<1>3. turn.assistant \in Ids
  BY <1>1, <1>2 DEF TurnEntries, Ids
<1>4. entries[turn.assistant].calls \in Nat
  <2>1. entries[turn.assistant] \in Entry
    BY <1>3 DEF TypeOK, Ids
  <2> QED
    BY <2>1 DEF Entry
<1>5. /\ ToolResult \in Entry /\ ToolResult.kind = "tool"
      /\ ToolResult.assistant = turn.assistant /\ ToolResult.call = turn.call
  BY <1>2, TurnEntriesTyped DEF ToolResult, NewEntry
<1>6. /\ Len(entries') = Len(entries) + 1
      /\ \A e \in Ids : entries'[e] = entries[e]
      /\ entries'[Len(entries) + 1] = ToolResult
  BY <1>5, AppendGrows
<1>7. ASSUME NEW i \in 1..turn.call
      PROVE  /\ turn.assistant + i \in Ids'
             /\ entries'[turn.assistant + i].kind = "tool"
             /\ entries'[turn.assistant + i].assistant = turn.assistant
             /\ entries'[turn.assistant + i].call = i
  <2>1. turn.assistant + i \in Ids'
    BY <1>1, <1>2, <1>6, SMTT(30) DEF Ids, TurnEntries
  <2>2. CASE i = turn.call
    <3>1. turn.assistant + i = Len(entries) + 1
      BY <1>1, <1>2, <2>2
    <3> QED
      BY <1>5, <1>6, <2>1, <2>2, <3>1
  <2>3. CASE i # turn.call
    <3>1. i \in 1..(turn.call - 1)
      BY <1>2, <1>7, <2>3
    <3> QED
      BY <1>1, <1>6, <2>1, <3>1 DEF AnsweredUpTo
  <2> QED
    BY <2>2, <2>3
<1> QED
  BY <1>1, <1>2, <1>3, <1>4, <1>6, <1>7

(* A result stored after its event: the next call, or the next request.      *)
LEMMA ResultKeepsTurn ==
  ASSUME TypeOK, TurnInv, turn.base <= Len(entries), AfterToolEnd
  PROVE  TurnInv'
<1>1. /\ turn.pc = "tool_end" /\ AppendEntry(ToolResult) /\ UNCHANGED <<instance, abort>>
      /\ turn'.base = turn.base /\ turn'.rounds = turn.rounds /\ turn'.ends = turn.ends
      /\ turn'.user = turn.user /\ turn'.assistant = turn.assistant
      /\ \/ /\ turn.call < entries[turn.assistant].calls
            /\ turn'.pc = "tool_start" /\ turn'.call = turn.call + 1
         \/ /\ ~(turn.call < entries[turn.assistant].calls)
            /\ turn'.pc = "complete"
  BY DEF AfterToolEnd, TypeOK, Turn, session
<1>2. /\ InRound /\ Running /\ Running' /\ ~Ended /\ ~Ended'
      /\ Held = 1 /\ Held' = 0 /\ Unread = 0 /\ Unread' = 0
  BY <1>1 DEF InRound, Running, Ended, Held, Unread
<1>3. ToolResult \in Entry /\ ToolResult.kind = "tool" /\ ToolResult.calls = 0
  BY TurnEntriesTyped
<1>4. /\ Len(entries') = Len(entries) + 1
      /\ TurnEntries' = TurnEntries \cup {Len(entries) + 1}
      /\ \A e \in TurnEntries : e \in Ids
      /\ \A e \in Ids : entries'[e] = entries[e]
      /\ entries'[Len(entries) + 1] = ToolResult
      /\ \A e \in Ids : Answered(e) => Answered(e)'
      /\ Cardinality(Asking') =
           Cardinality(Asking) + (IF ToolResult.calls > 0 THEN 1 ELSE 0)
  BY <1>1, <1>3, TurnGrows
<1>5. PICK a \in Ids, c \in Nat :
        /\ a = turn.assistant /\ c = turn.call /\ a \in TurnEntries
        /\ entries[a].kind = "assistant" /\ entries[a].calls \in Nat
        /\ c \in 1..entries[a].calls
        /\ Len(entries') = a + c
        /\ \A i \in 1..c : /\ a + i \in Ids' /\ entries'[a + i].kind = "tool"
                           /\ entries'[a + i].assistant = a /\ entries'[a + i].call = i
  <2>1. /\ turn.assistant \in TurnEntries /\ turn.assistant \in Ids
        /\ entries[turn.assistant].kind = "assistant"
        /\ turn.call \in 1..entries[turn.assistant].calls
        /\ entries[turn.assistant].calls \in Nat
        /\ Len(entries') = turn.assistant + turn.call
        /\ \A i \in 1..turn.call : /\ turn.assistant + i \in Ids'
                                   /\ entries'[turn.assistant + i].kind = "tool"
                                   /\ entries'[turn.assistant + i].assistant = turn.assistant
                                   /\ entries'[turn.assistant + i].call = i
    BY <1>1, <1>2, ResultAnswers
  <2>2. turn.call \in Nat
    BY DEF TypeOK, Turn
  <2> QED
    BY <2>1, <2>2
<1>6. EventsMatchEntries'
  BY <1>1, <1>2, ResultIsToldLast DEF TurnInv, EventsMatchEntries, Story
<1>7. StatusIsEarned' /\ RoundsCounted' /\ LastEndHeld'
  <2>1. Cardinality(Asking) = turn.rounds + 0 /\ turn.rounds \in Nat
    BY <1>2 DEF TurnInv, RoundsCounted, TypeOK, Turn
  <2>2. Cardinality(Asking') = turn'.rounds + 0
    BY <1>1, <1>3, <1>4, <2>1
  <2> QED
    BY <1>1, <1>2, <2>2 DEF TurnInv, StatusIsEarned, RoundsCounted, LastEndHeld
<1>8. PromptStored'
  BY <1>1, <1>2, <1>4 DEF TurnInv, PromptStored, Prompted
<1>9. AnswerStored' /\ AbortAsked'
  BY <1>1 DEF AnswerStored, AbortAsked
<1>10. CallsInOrder'
  <2>1. CASE turn'.pc = "tool_start"
    <3>1. /\ turn'.call = c + 1 /\ turn'.assistant = a
          /\ entries'[a] = entries[a] /\ c < entries[a].calls
      BY <1>1, <1>4, <1>5, <2>1
    <3> QED
      BY <1>1, <1>4, <1>5, <2>1, <3>1, SMTT(30) DEF CallsInOrder, InRound, AnsweredUpTo
  <2>2. CASE turn'.pc = "complete"
    BY <1>1, <1>4, <1>5, <2>2, SMTT(30) DEF CallsInOrder, InRound, AnsweredUpTo
  <2> QED
    BY <1>1, <2>1, <2>2
<1>11. OthersAnswered'
  <2>1. \A e \in TurnEntries : entries[e].kind = "assistant" => Answered(e) \/ e = a
    BY <1>1, <1>2, <1>5 DEF TurnInv, OthersAnswered, Pending
  <2>2. Answered(a)' \/ Pending(a)'
    <3>1. CASE turn'.pc = "tool_start"
      BY <1>1, <1>5, <3>1 DEF Pending, InRound
    <3>2. CASE turn'.pc = "complete"
      <4>1. entries'[a].calls = c
        BY <1>1, <1>4, <1>5, <3>2
      <4> QED
        BY <1>5, <4>1 DEF Answered, AnsweredUpTo
    <3> QED
      BY <1>1, <3>1, <3>2
  <2> QED
    BY <1>3, <1>4, <1>5, <2>1, <2>2 DEF OthersAnswered
<1> QED
  BY <1>1, <1>2, <1>6, <1>7, <1>8, <1>9, <1>10, <1>11 DEF TurnInv

(* The turn is over: how it ended is the truth.                              *)
LEMMA EndKeepsTurn ==
  ASSUME TypeOK, TurnInv, UNCHANGED <<instance, entries>>, abort' = abort,
         \/ turn.pc = "agent_end" /\ Moves(turn, "agent_settled") /\ leaf' = leaf
         \/ /\ turn.pc \in {"prepare", "complete"} /\ abort = "set"
            /\ turn' = EndTurn("aborted")
  PROVE  TurnInv'
<1>1. /\ turn'.base = turn.base /\ turn'.rounds = turn.rounds /\ turn'.ends = turn.ends
      /\ turn'.user = turn.user
      /\ \/ /\ turn.pc = "agent_end" /\ leaf' = leaf
            /\ turn'.pc = "agent_settled" /\ turn'.status = turn.status
         \/ /\ turn'.pc = "agent_end" /\ turn'.status = "aborted" /\ abort = "set"
            /\ turn.pc \in {"prepare", "complete"}
  BY DEF Moves, EndTurn, TypeOK, Turn
<1>2. /\ Ids' = Ids /\ TurnEntries' = TurnEntries /\ TurnTools' = TurnTools
      /\ Asking' = Asking
      /\ \A e \in Ids : Answered(e)' <=> Answered(e)
  BY <1>1, TreeRead
<1>3. Running /\ Running' /\ Ended' /\ Held = 0 /\ Held' = 0
  BY <1>1 DEF Running, Ended, Held
<1>4. EventsMatchEntries'
  BY <1>1, <1>2, <1>3, StoryStays DEF TurnInv, EventsMatchEntries, Story
<1>5. \A e \in TurnEntries : e \in Ids
  BY DEF TypeOK, Turn, TurnEntries, Ids
<1>6. StatusIsEarned'
  BY <1>1, <1>2, <1>5 DEF TurnInv, StatusIsEarned, Ended
<1>8. RoundsCounted' /\ LastEndHeld'
  BY <1>1, <1>3 DEF TurnInv, RoundsCounted, LastEndHeld
<1>7. PromptStored' /\ AnswerStored' /\ CallsInOrder' /\ OthersAnswered' /\ AbortAsked'
  BY <1>1, <1>3 DEF PromptStored, AnswerStored, CallsInOrder, OthersAnswered, AbortAsked,
                    Prompted, InRound
<1> QED
  BY <1>3, <1>4, <1>6, <1>7, <1>8 DEF TurnInv

(* What follows an answer: a final answer leaves no call open, the terminal  *)
(* entry of a failed turn asks for nothing, and a new round has its first    *)
(* call right after the answer.                                              *)
LEMMA AfterAnswerKeepsTurn ==
  ASSUME TypeOK, TurnInv, TurnIsOneBranch, turn.base <= Len(entries), AfterAnswer
  PROVE  TurnInv'
<1>1. /\ turn.pc = "message_update" /\ UNCHANGED <<instance, abort>>
      /\ turn.rounds \in Nat /\ turn.base \in Nat
      /\ instance.max_tool_rounds \in Nat
      /\ turn'.base = turn.base /\ turn'.ends = turn.ends
      /\ turn'.user = turn.user /\ turn'.assistant = turn.assistant
      /\ turn'.pc \in {"agent_end", "tool_start"}
  BY MiniPyAssumption DEF AfterAnswer, EndTurn, TypeOK, Turn, session
<1>2. Running /\ Running' /\ ~Ended /\ Held = 0 /\ Held' = 0 /\ Unread' = 0
  BY <1>1 DEF Running, Ended, Held, Unread
<1>3. /\ turn.rounds <= instance.max_tool_rounds
      /\ Cardinality(Asking) =
           turn.rounds + (IF entries[turn.assistant].calls > 0 THEN 1 ELSE 0)
      /\ turn.user \in TurnEntries /\ entries[turn.user].kind = "user"
      /\ turn.assistant = Len(entries) /\ turn.assistant \in TurnEntries
      /\ entries[turn.assistant].kind = "assistant"
      /\ \A e \in TurnEntries :
           entries[e].kind = "assistant" => Answered(e) \/ e = turn.assistant
  BY <1>1, <1>2
  DEF TurnInv, RoundsCounted, Unread, PromptStored, AnswerStored, OthersAnswered,
      Prompted, Pending
<1>4. Story /\ LastEndHeld'
  BY <1>2 DEF TurnInv, EventsMatchEntries, Story, LastEndHeld
<1>5. \A e \in TurnEntries : e \in Ids
  BY DEF TypeOK, Turn, TurnEntries, Ids
<1>6. entries[turn.assistant].calls \in Nat
  <2>1. entries[turn.assistant] \in Entry
    BY <1>3, <1>5 DEF TypeOK, Ids
  <2> QED
    BY <2>1 DEF Entry
<1>7. CASE /\ entries[turn.assistant].calls = 0 /\ UNCHANGED tree
           /\ turn' = EndTurn("completed")
  <2>1. /\ turn'.pc = "agent_end" /\ turn'.status = "completed"
        /\ turn'.rounds = turn.rounds /\ UNCHANGED <<entries, leaf>>
    BY <1>7 DEF EndTurn, TypeOK, Turn, tree
  <2>2. /\ Ids' = Ids /\ TurnEntries' = TurnEntries /\ TurnTools' = TurnTools
        /\ \A e \in Ids : Answered(e)' <=> Answered(e)
    BY <1>1, <2>1, TreeRead
  <2>3. leaf = Len(entries)
    BY <1>2, <1>3 DEF TurnIsOneBranch
  <2>4. Answered(turn.assistant)
    BY <1>7 DEF Answered, AnsweredUpTo
  <2>5. StatusIsEarned'
    <3>1. leaf' = turn.assistant
      BY <1>3, <2>1, <2>3
    <3>2. \A e \in TurnEntries : entries[e].kind = "assistant" => Answered(e)'
      BY <1>3, <1>5, <2>2, <2>4
    <3>3. /\ leaf' \in TurnEntries' /\ turn'.user \in TurnEntries'
          /\ entries'[leaf'].kind = "assistant" /\ entries'[leaf'].calls = 0
      BY <1>1, <1>3, <1>7, <2>1, <2>2, <3>1
    <3> QED
      BY <2>1, <2>2, <3>2, <3>3 DEF StatusIsEarned
  <2>6. EventsMatchEntries'
    BY <1>1, <1>2, <1>4, <2>1, <2>2, StoryStays DEF EventsMatchEntries, Story
  <2>7. RoundsCounted'
    BY <1>1, <1>3, <2>1 DEF RoundsCounted, Ended
  <2> QED
    BY <1>1, <1>4, <2>1, <2>5, <2>6, <2>7
    DEF TurnInv, PromptStored, AnswerStored, CallsInOrder, OthersAnswered, AbortAsked,
        Prompted, InRound, Ended
<1>8. CASE /\ turn.rounds >= instance.max_tool_rounds /\ entries[turn.assistant].calls > 0
           /\ AppendEntry(AssistantEntry(0)) /\ turn' = EndTurn("failed")
  <2>1. /\ turn'.pc = "agent_end" /\ turn'.status = "failed"
        /\ turn'.rounds = turn.rounds
    BY <1>8 DEF EndTurn, TypeOK, Turn
  <2>2. /\ AssistantEntry(0) \in Entry /\ AssistantEntry(0).kind = "assistant"
        /\ AssistantEntry(0).calls = 0
    BY TurnEntriesTyped
  <2>3. /\ \A e \in TurnEntries : e \in Ids
        /\ \A e \in Ids : entries'[e] = entries[e]
        /\ TurnTools' = IF AssistantEntry(0).kind = "tool"
                        THEN TurnTools \cup {Len(entries) + 1} ELSE TurnTools
        /\ Cardinality(Asking') =
             Cardinality(Asking) + (IF AssistantEntry(0).calls > 0 THEN 1 ELSE 0)
    BY <1>1, <1>8, <2>2, TurnGrows
  <2>5. EventsMatchEntries'
    <3>1. TurnTools' = TurnTools /\ \A e \in TurnTools : entries'[e] = entries[e]
      BY <2>2, <2>3 DEF TurnTools
    <3> QED
      BY <1>1, <1>2, <1>4, <3>1, StoryStays DEF EventsMatchEntries, Story
  <2>6. StatusIsEarned'
    <3>1. Cardinality(Asking') = instance.max_tool_rounds + 1
      BY <1>1, <1>3, <1>8, <2>2, <2>3
    <3> QED
      BY <1>1, <2>1, <3>1 DEF StatusIsEarned
  <2>7. RoundsCounted'
    BY <1>1, <1>3, <2>1 DEF RoundsCounted, Ended
  <2> QED
    BY <1>1, <1>4, <2>1, <2>5, <2>6, <2>7
    DEF TurnInv, PromptStored, AnswerStored, CallsInOrder, OthersAnswered, AbortAsked,
        Prompted, InRound, Ended
<1>9. CASE /\ entries[turn.assistant].calls > 0
           /\ turn.rounds < instance.max_tool_rounds /\ UNCHANGED tree
           /\ turn' = [turn EXCEPT !.pc = "tool_start", !.rounds = @ + 1, !.call = 1]
  <2>1. /\ turn'.pc = "tool_start" /\ turn'.rounds = turn.rounds + 1 /\ turn'.call = 1
        /\ UNCHANGED <<entries, leaf>>
    BY <1>9 DEF TypeOK, Turn, tree
  <2>2. /\ Ids' = Ids /\ TurnEntries' = TurnEntries /\ TurnTools' = TurnTools
        /\ Asking' = Asking
        /\ \A e \in Ids : Answered(e)' <=> Answered(e)
    BY <1>1, <2>1, TreeRead
  <2>3. EventsMatchEntries'
    BY <1>1, <1>2, <1>4, <2>1, <2>2, StoryStays DEF EventsMatchEntries, Story
  <2>4. StatusIsEarned' /\ ~Ended'
    BY <2>1 DEF StatusIsEarned, Ended
  <2>5. PromptStored' /\ AnswerStored' /\ AbortAsked'
    BY <1>1, <1>3, <2>1, <2>2 DEF PromptStored, AnswerStored, AbortAsked
  <2>6. CallsInOrder'
    <3>1. Len(entries) = turn.assistant + 1 - 1 /\ 1 \in 1..entries[turn.assistant].calls
      BY <1>3, <1>6, <1>9 DEF TypeOK
    <3>2. AnsweredUpTo(turn.assistant, 0)'
      BY DEF AnsweredUpTo
    <3> QED
      BY <1>1, <1>3, <2>1, <2>2, <3>1 DEF CallsInOrder, AnsweredUpTo
  <2>7. OthersAnswered'
    BY <1>1, <1>3, <1>5, <2>1, <2>2 DEF OthersAnswered, Pending, InRound
  <2>8. RoundsCounted'
    <3>1. Cardinality(Asking') = turn'.rounds + 0 /\ turn'.rounds <= instance.max_tool_rounds
      BY <1>1, <1>3, <1>9, <2>1, <2>2
    <3> QED
      BY <1>1, <1>2, <3>1 DEF RoundsCounted
  <2> QED
    BY <1>4, <2>3, <2>4, <2>5, <2>6, <2>7, <2>8 DEF TurnInv
<1> QED
  BY <1>7, <1>8, <1>9 DEF AfterAnswer

(* An aborted call has its result too, and the abort was asked for.          *)
LEMMA AbortedResultKeepsTurn ==
  ASSUME TypeOK, TurnInv, turn.base <= Len(entries), AfterToolAborted
  PROVE  TurnInv'
<1>1. /\ turn.pc = "tool_aborted" /\ AppendEntry(ToolResult) /\ UNCHANGED <<instance, abort>>
      /\ turn'.base = turn.base /\ turn'.rounds = turn.rounds /\ turn'.ends = turn.ends
      /\ turn'.pc = "agent_end" /\ turn'.status = "aborted"
  BY DEF AfterToolAborted, EndTurn, TypeOK, Turn, session
<1>2. Running /\ Running' /\ ~Ended /\ Held = 1 /\ Held' = 0
  BY <1>1 DEF Running, Ended, Held
<1>3. EventsMatchEntries'
  BY <1>1, <1>2, ResultIsToldLast DEF TurnInv, EventsMatchEntries, Story
<1>4. StatusIsEarned'
  BY <1>1, <1>2 DEF TurnInv, AbortAsked, StatusIsEarned
<1>5. RoundsCounted' /\ LastEndHeld'
  BY <1>1, <1>2 DEF TurnInv, RoundsCounted, LastEndHeld, Ended
<1> QED
  BY <1>1, <1>2, <1>3, <1>4, <1>5
  DEF TurnInv, PromptStored, AnswerStored, CallsInOrder, OthersAnswered, AbortAsked,
      Prompted, InRound, Ended

(* Every step keeps the story of the turn: one step of the proof for each    *)
(* action, or group of actions with the same effect on it.                   *)
LEMMA TurnInvStep == TreeInv /\ TurnInv /\ [Next]_vars => TurnInv'
<1> SUFFICES ASSUME TreeInv, TurnInv, [Next]_vars PROVE TurnInv'
  OBVIOUS
<1>1. TypeOK /\ TurnIsOneBranch
  BY DEF TreeInv
<1>2. Running => turn.base <= Len(entries)
  BY DEF TreeInv
<1>3. turn \in Turn
  BY <1>1 DEF TypeOK
<1>4. CASE UNCHANGED vars \/ Start \/ Abort \/ Close
  <2>1. /\ UNCHANGED <<instance, entries, leaf, turn>>
        /\ abort' = abort \/ abort' = "set"
    BY <1>4 DEF Start, Abort, Close, vars, session, tree
  <2> QED
    BY <1>1, <2>1, OthersKeepTurn
<1>5. CASE AfterSettled \/ ModelRaises \/ Abandon \/ Compact \/ Restore \/ \E e \in Ids : Fork(e)
  <2>1. ~Running'
    BY <1>3, <1>5 DEF AfterSettled, ModelRaises, Abandon, Finally, Compact, Restore, Fork,
                Mutable, TurnActive, Running, NoTurn
  <2> QED
    BY <2>1, IdleKeepsTurn
<1>6. CASE BeginTurn
  BY <1>1, <1>6, BeginKeepsTurn
<1>7. ASSUME turn.pc \in {"agent_start", "context_injection"}, AppendUser, UNCHANGED instance
      PROVE  TurnInv'
  <2>1. Plain("user") \in Entry /\ Plain("user").kind = "user" /\ Plain("user").calls = 0
    BY <1>1, TurnEntriesTyped DEF Kinds
  <2>2. AppendEntry(Plain("user"))
    BY <1>7 DEF AppendUser
  <2>3. turn' = [turn EXCEPT !.pc = "complete", !.user = Len(entries) + 1]
    BY <1>7 DEF AppendUser
  <2>4. turn.base <= Len(entries)
    BY <1>2, <1>7 DEF Running
  <2> QED
    BY <1>1, <1>7, <2>1, <2>2, <2>3, <2>4, FirstEntriesKeepTurn
<1>8. ASSUME turn.pc = "agent_start", turn' = [turn EXCEPT !.pc = "prepare"],
             UNCHANGED <<instance, entries>>
      PROVE  TurnInv'
  <2>1. Moves(turn, "prepare")
    BY <1>3, <1>8 DEF Moves, Turn
  <2> QED
    BY <1>1, <1>8, <2>1, WaitKeepsTurn
<1>9. CASE AfterStart
  BY <1>7, <1>8, <1>9 DEF AfterStart, session, tree
<1>10. CASE AfterInjection
  BY <1>7, <1>10 DEF AfterInjection, session
<1>11. CASE Prepared
  <2>1. /\ turn.pc = "prepare" /\ UNCHANGED instance
        /\ turn' = [turn EXCEPT !.pc = "context_injection"]
    BY <1>11 DEF Prepared, session
  <2>2. CASE UNCHANGED tree
    <3>1. Moves(turn, "context_injection")
      BY <1>3, <2>1 DEF Moves, Turn
    <3> QED
      BY <1>1, <2>1, <2>2, <3>1, WaitKeepsTurn DEF tree
  <2>3. CASE AppendEntry(Plain("context"))
    <3>1. /\ Plain("context") \in Entry /\ Plain("context").kind = "context"
          /\ Plain("context").calls = 0
      BY <1>1, TurnEntriesTyped DEF Kinds
    <3>2. turn.base <= Len(entries)
      BY <1>2, <2>1 DEF Running
    <3> QED
      BY <1>1, <2>1, <2>3, <3>1, <3>2, FirstEntriesKeepTurn
  <2> QED
    BY <1>11, <2>2, <2>3 DEF Prepared
<1>12. ASSUME NEW calls \in 0..instance.calls, Completed(calls)
       PROVE  TurnInv'
  <2>1. calls \in Nat
    BY <1>1, MiniPyAssumption DEF TypeOK
  <2>2. turn.base <= Len(entries)
    BY <1>2, <1>12 DEF Completed, Running
  <2> QED
    BY <1>1, <1>12, <2>1, <2>2, AnswerKeepsTurn DEF Completed, session
<1>13. CASE AfterAnswer
  <2>1. turn.base <= Len(entries)
    BY <1>2, <1>13 DEF AfterAnswer, Running
  <2> QED
    BY <1>1, <1>13, <2>1, AfterAnswerKeepsTurn
<1>14. CASE AfterToolStart
  <2>1. /\ turn.pc = "tool_start" /\ UNCHANGED <<instance, entries>>
        /\ Moves(turn, "execute")
    BY <1>3, <1>14 DEF AfterToolStart, Moves, Turn, session, tree
  <2> QED
    BY <1>1, <2>1, WaitKeepsTurn
<1>15. CASE Executed
  BY <1>1, <1>15, OutcomeKeepsTurn DEF Executed, session, tree
<1>16. CASE Interrupted
  <2>1. UNCHANGED <<instance, entries, abort>> /\ abort = "set"
    BY <1>16 DEF Interrupted, session, tree
  <2>2. CASE turn.pc = "execute"
    BY <1>1, <1>16, <2>1, <2>2, OutcomeKeepsTurn DEF Interrupted
  <2>3. CASE turn.pc # "execute"
    <3>1. turn.pc \in {"prepare", "complete"} /\ turn' = EndTurn("aborted")
      BY <1>16, <2>3 DEF Interrupted, Awaits
    <3> QED
      BY <1>1, <2>1, <3>1, EndKeepsTurn
  <2> QED
    BY <2>2, <2>3
<1>17. CASE AfterToolEnd
  <2>1. turn.base <= Len(entries)
    BY <1>2, <1>17 DEF AfterToolEnd, Running
  <2> QED
    BY <1>1, <1>17, <2>1, ResultKeepsTurn
<1>18. CASE AfterToolAborted
  <2>1. turn.base <= Len(entries)
    BY <1>2, <1>18 DEF AfterToolAborted, Running
  <2> QED
    BY <1>1, <1>18, <2>1, AbortedResultKeepsTurn
<1>19. CASE AfterEnd
  <2>1. /\ turn.pc = "agent_end" /\ UNCHANGED <<instance, entries, leaf, abort>>
        /\ Moves(turn, "agent_settled")
    BY <1>3, <1>19 DEF AfterEnd, Moves, Turn, session, tree
  <2> QED
    BY <1>1, <2>1, EndKeepsTurn
<1> QED
  BY <1>4, <1>5, <1>6, <1>9, <1>10, <1>11, <1>12, <1>13, <1>14, <1>15, <1>16, <1>17, <1>18,
     <1>19 DEF Next, Resume, Answer

(* No turn, no story: what holds of a turn holds before the first one.       *)
LEMMA TurnInvInitially == Init => TreeInv /\ TurnInv
<1> SUFFICES ASSUME Init PROVE TreeInv /\ TurnInv
  OBVIOUS
<1>1. TreeInv
  BY DEF Init, TreeInv, TypeOK, NoTurn, Turn, Statuses, AlwaysRestorable,
     Restorable, TurnIsOneBranch, Running
<1>2. TurnInv
  BY DEF Init, NoTurn, TurnInv, EventsMatchEntries, StatusIsEarned, Running, Ended
<1> QED
  BY <1>1, <1>2

(* In a running turn the stored tool results are those of the                *)
(* tool_execution_end events, one for one and in their order, but for the    *)
(* event the consumer has not resumed from; so when it settles, its events   *)
(* and its entries tell the same story, through every abort in mid-round.    *)
THEOREM EventsAreStored == Spec => []EventsMatchEntries
<1>1. TurnInv => EventsMatchEntries
  BY DEF TurnInv
<1> QED
  BY <1>1, TurnInvInitially, TreeInvStep, TurnInvStep, PTL DEF Spec

(* The status a turn ends with is the truth about its branch: completed only *)
(* below a final answer with every call of the turn answered, failed only    *)
(* when one answer more than max_tool_rounds asked for tools, aborted only   *)
(* when somebody asked.                                                      *)
THEOREM StatusesAreEarned == Spec => []StatusIsEarned
<1>1. TurnInv => StatusIsEarned
  BY DEF TurnInv
<1> QED
  BY <1>1, TurnInvInitially, TreeInvStep, TurnInvStep, PTL DEF Spec

-----------------------------------------------------------------------------
(* The active path.  PathTo recurses from an entry to its parent, which is   *)
(* older, so it has a value for every entry.                                 *)

(* Every entry has an older parent, or none.                                 *)
LEMMA ParentsAreOlder ==
  ASSUME TypeOK, AlwaysRestorable
  PROVE  /\ Len(entries) \in Nat
         /\ leaf \in Ids \cup {0}
         /\ \A e \in Ids : /\ e \in Nat /\ e <= Len(entries)
                           /\ entries[e] \in Entry
                           /\ entries[e].parent \in Ids \cup {0}
                           /\ entries[e].parent < e
<1>1. Len(entries) \in Nat /\ \A e \in Ids : entries[e] \in Entry
  BY DEF TypeOK, Ids
<1>2. \A e \in Ids : entries[e].parent \in Nat
  BY <1>1 DEF Entry
<1> QED
  BY <1>1, <1>2 DEF AlwaysRestorable, Restorable, Ids

(* There are paths to the root when every parent is older.                   *)
LEMMA PathsExist ==
  ASSUME NEW n \in Nat, NEW parent, \A e \in 1..n : parent[e] \in 0..(e - 1)
  PROVE  \E g \in [0..n -> Seq(1..n)] :
           /\ g[0] = <<>>
           /\ \A e \in 1..n : g[e] = Append(g[parent[e]], e)
<1> DEFINE D == 0..n
           T == Seq(1..n)
           Top == {0}
           rank == [e \in D |-> e]
           b == [e \in Top |-> <<>>]
           F == [x \in T \X (1..n) |-> Append(x[1], x[2])]
<1>1. D \ Top = 1..n
  OBVIOUS
<1>2. Descends(D, Top, parent, rank, n)
  <2>1. \A e \in 1..n : parent[e] \in D /\ parent[e] < e /\ rank[e] = e
                         /\ rank[parent[e]] = parent[e]
    OBVIOUS
  <2> QED
    BY <1>1, <2>1 DEF Descends
<1>3. \A e \in D \cap Top : b[e] \in T
  OBVIOUS
<1>4. \A e \in 1..n, s \in T : F[<<s, e>>] = Append(s, e) /\ Append(s, e) \in T
  OBVIOUS
<1>5. Stays(D, Top, b, F, T)
  BY <1>1, <1>3, <1>4 DEF Stays
<1>6. PICK g \in [D -> T] : Solves(g, D, Top, parent, b, F)
  <2> HIDE DEF D, T, Top, rank, b, F
  <2> QED
    BY <1>2, <1>5, RecursionStays
<1>7. g[0] = <<>>
  <2>1. 0 \in D /\ 0 \in Top /\ b[0] = <<>>
    OBVIOUS
  <2> HIDE DEF D, Top, b
  <2> QED
    BY <1>6, <2>1 DEF Solves, Value
<1>8. ASSUME NEW e \in 1..n PROVE g[e] = Append(g[parent[e]], e)
  <2>1. g[e] = F[<<g[parent[e]], e>>]
    BY <1>1, <1>6 DEF Solves, Value
  <2>2. g[parent[e]] \in T
    <3>1. parent[e] \in D
      OBVIOUS
    <3> QED
      BY <1>6, <3>1
  <2> HIDE DEF F, T
  <2> QED
    BY <1>4, <2>1, <2>2
<1> QED
  BY <1>6, <1>7, <1>8

(* The path to an entry is the path to its parent and the entry.             *)
LEMMA PathEquation ==
  ASSUME TypeOK, AlwaysRestorable
  PROVE  /\ PathTo[0] = <<>>
         /\ \A e \in Ids : PathTo[e] = Append(PathTo[entries[e].parent], e)
         /\ \A e \in Ids \cup {0} : PathTo[e] \in Seq(Ids)
<1> DEFINE n == Len(entries)
           D == Ids \cup {0}
           parent == [e \in Ids |-> entries[e].parent]
<1>1. /\ n \in Nat /\ Ids = 1..n /\ D = 0..n
      /\ \A e \in Ids : parent[e] = entries[e].parent /\ parent[e] \in 0..(e - 1)
  BY ParentsAreOlder DEF Ids
<1>2. PICK g \in [0..n -> Seq(1..n)] :
        g[0] = <<>> /\ \A e \in 1..n : g[e] = Append(g[parent[e]], e)
  <2> HIDE DEF n, parent
  <2> QED
    BY <1>1, PathsExist
<1>3. \A e \in Ids, s \in Seq(Ids) : Append(s, e) \in Seq(Ids)
  OBVIOUS
<1>4. \A e \in D : g[e] = IF e = 0 THEN <<>> ELSE Append(g[entries[e].parent], e)
  BY <1>1, <1>2
<1>5. PathTo = [e \in D |-> IF e = 0 THEN <<>> ELSE Append(PathTo[entries[e].parent], e)]
  <2>1. g = [e \in D |-> IF e = 0 THEN <<>> ELSE Append(g[entries[e].parent], e)]
    BY <1>1, <1>2, <1>4
  <2> QED
    BY <2>1 DEF PathTo
<1>6. PathTo[0] = <<>>
  BY <1>5
<1>7. \A e \in Ids : PathTo[e] = Append(PathTo[entries[e].parent], e)
  <2>1. \A e \in Ids : e \in D /\ e # 0
    BY DEF Ids
  <2> HIDE DEF D
  <2> QED
    BY <1>5, <2>1
<1> DEFINE S == {e \in D : PathTo[e] \in Seq(Ids)}
<1>8. ASSUME NEW e \in 0..n, \A j \in 0..(e - 1) : j \in S PROVE e \in S
  <2>1. CASE e = 0
    <3>1. <<>> \in Seq(Ids)
      OBVIOUS
    <3> QED
      BY <1>6, <2>1, <3>1
  <2>2. CASE e # 0
    <3>1. e \in Ids /\ entries[e].parent \in 0..(e - 1)
      <4>1. e \in Ids
        BY <2>2 DEF Ids
      <4>2. entries[e].parent \in Nat /\ entries[e].parent < e
        BY <4>1, ParentsAreOlder DEF Ids
      <4> QED
        BY <4>1, <4>2
    <3>2. PathTo[entries[e].parent] \in Seq(Ids)
      BY <1>8, <3>1
    <3>3. PathTo[e] \in Seq(Ids)
      BY <1>3, <1>7, <3>1, <3>2
    <3> QED
      BY <3>1, <3>3
  <2> QED
    BY <2>1, <2>2
<1>9. 0..n \subseteq S
  <2> HIDE DEF n, S
  <2> QED
    BY <1>1, <1>8, EverySmallNatural
<1> QED
  BY <1>1, <1>6, <1>7, <1>9

(* On an unbroken branch the path to an entry ends with the entries of the   *)
(* branch, each as far from its end as from that entry.                      *)
PathEndsWith(u, e) ==
  \A d \in u..e : /\ Len(PathTo[e]) - (e - d) \in DOMAIN PathTo[e]
                  /\ PathTo[e][Len(PathTo[e]) - (e - d)] = d

(* On an unbroken branch every path ends so.                                 *)
LEMMA PathOfBranch ==
  ASSUME TypeOK, AlwaysRestorable, NEW u \in Ids,
         \A e \in (u + 1)..Len(entries) : entries[e].parent = e - 1
  PROVE  \A e \in u..Len(entries) : PathEndsWith(u, e)
<1>1. Len(entries) \in Nat /\ u \in 1..Len(entries)
  BY ParentsAreOlder DEF Ids
<1> DEFINE n == Len(entries)
           S == {k \in 0..n : u <= k => PathEndsWith(u, k)}
<1>2. ASSUME NEW e \in Ids
      PROVE  /\ entries[e].parent \in Ids \cup {0}
             /\ PathTo[e] = Append(PathTo[entries[e].parent], e)
             /\ PathTo[entries[e].parent] \in Seq(Ids)
             /\ PathTo[e] \in Seq(Ids)
             /\ Len(PathTo[e]) = Len(PathTo[entries[e].parent]) + 1
             /\ PathTo[e][Len(PathTo[e])] = e
             /\ \A i \in 1..Len(PathTo[entries[e].parent]) :
                  PathTo[e][i] = PathTo[entries[e].parent][i]
  <2>1. entries[e].parent \in Ids \cup {0}
    BY ParentsAreOlder
  <2> PICK s \in Seq(Ids) : s = PathTo[entries[e].parent]
    BY <2>1, PathEquation
  <2>2. PathTo[e] = Append(s, e)
    BY PathEquation
  <2>3. /\ Append(s, e) \in Seq(Ids) /\ Len(Append(s, e)) = Len(s) + 1
        /\ Append(s, e)[Len(s) + 1] = e
        /\ \A i \in 1..Len(s) : Append(s, e)[i] = s[i]
    OBVIOUS
  <2> QED
    BY <2>1, <2>2, <2>3
<1>3. ASSUME NEW e \in 0..n, \A j \in 0..(e - 1) : j \in S PROVE e \in S
  <2> SUFFICES ASSUME u <= e PROVE PathEndsWith(u, e)
    OBVIOUS
  <2>1. e \in Ids
    BY <1>1 DEF Ids
  <2> PICK s \in Seq(Ids) : s = PathTo[e]
    BY <1>2, <2>1
  <2> PICK t \in Seq(Ids) : t = PathTo[entries[e].parent]
    BY <1>2, <2>1
  <2>2. /\ Len(s) = Len(t) + 1 /\ s[Len(s)] = e
        /\ \A i \in 1..Len(t) : s[i] = t[i]
    BY <1>2, <2>1
  <2>3. CASE e = u
    <3>1. \A d \in u..e : d = e
      BY <1>1, <2>3
    <3>2. Len(s) \in DOMAIN s /\ Len(s) - (e - e) = Len(s)
      BY <2>2
    <3> QED
      BY <2>2, <3>1, <3>2 DEF PathEndsWith
  <2>4. CASE e # u
    <3>1. e - 1 \in 0..n /\ u <= e - 1 /\ entries[e].parent = e - 1 /\ e - 1 \in 0..(e - 1)
      BY <1>1, <2>4
    <3>2. PathEndsWith(u, e - 1) /\ t = PathTo[e - 1]
      BY <1>3, <3>1
    <3>3. ASSUME NEW d \in u..e
          PROVE  Len(s) - (e - d) \in DOMAIN s /\ s[Len(s) - (e - d)] = d
      <4>1. CASE d = e
        BY <2>2, <4>1
      <4>2. CASE d # e
        <5>1. d \in u..(e - 1)
          BY <1>1, <4>2
        <5>2. Len(t) - ((e - 1) - d) \in DOMAIN t /\ t[Len(t) - ((e - 1) - d)] = d
          BY <3>2, <5>1 DEF PathEndsWith
        <5> PICK i : i = Len(t) - ((e - 1) - d)
          OBVIOUS
        <5>3. Len(t) \in Nat /\ DOMAIN t = 1..Len(t) /\ DOMAIN s = 1..Len(s)
          OBVIOUS
        <5>4. Len(s) - (e - d) = i
          <6>1. e \in Nat /\ d \in Nat
            BY <1>1, <2>1, <5>1 DEF Ids
          <6> QED
            BY <2>2, <5>3, <6>1
        <5>5. i \in 1..Len(t) /\ t[i] = d
          BY <5>2, <5>3
        <5>6. i \in 1..Len(s) /\ s[i] = d
          <6>1. s[i] = d
            BY <2>2, <5>5
          <6>2. i \in 1..(Len(t) + 1)
            BY <5>3, <5>5
          <6> QED
            BY <2>2, <6>1, <6>2
        <5> QED
          BY <5>3, <5>4, <5>6
      <4> QED
        BY <4>1, <4>2
    <3> QED
      BY <3>3 DEF PathEndsWith
  <2> QED
    BY <2>3, <2>4
<1>4. 0..n \subseteq S
  <2> HIDE DEF n, S
  <2> QED
    BY <1>1, <1>3, EverySmallNatural DEF n
<1> QED
  BY <1>1, <1>4

(* The rest of a sequence from one of its positions on.                      *)
LEMMA EndOfSequence ==
  ASSUME NEW S, NEW s \in Seq(S), NEW first \in Nat, first >= 1, first <= Len(s) + 1
  PROVE  /\ Len(SubSeq(s, first, Len(s))) = Len(s) - first + 1
         /\ \A i \in 1..(Len(s) - first + 1) :
              SubSeq(s, first, Len(s))[i] = s[first + i - 1]
         /\ DOMAIN SubSeq(s, first, Len(s)) = 1..(Len(s) - first + 1)
<1>1. SubSeq(s, first, Len(s)) = [i \in 1..(1 + Len(s) - first) |-> s[i + first - 1]]
  OBVIOUS
<1>2. 1 + Len(s) - first \in Nat /\ 1 + Len(s) - first = Len(s) - first + 1
  OBVIOUS
<1> QED
  BY <1>1, <1>2

(* What the model is shown begins no later than the prompt of a turn, since  *)
(* no compaction comes after that.                                           *)
LEMMA TurnIsShown ==
  ASSUME TreeInv, Running, NEW u \in TurnEntries
  PROVE  \A e \in u..Len(entries) : \E i \in DOMAIN ModelMessages : ModelMessages[i] = e
<1> DEFINE n == Len(entries)
<1>1. TypeOK /\ AlwaysRestorable /\ TurnIsOneBranch /\ turn.base <= n
  BY DEF TreeInv
<1>2. turn.base \in Nat /\ n \in Nat
  BY <1>1 DEF TypeOK, Turn
<1>3. /\ u \in Ids /\ leaf = n /\ u <= n
      /\ \A e \in u..n : e \in TurnEntries /\ entries[e].kind # "compaction"
      /\ \A e \in (u + 1)..n : entries[e].parent = e - 1
  BY <1>1, <1>2 DEF TurnIsOneBranch, TurnEntries, Ids
<1>4. PathEndsWith(u, n)
  <2>1. u \in Nat /\ n \in u..n
    BY <1>2, <1>3 DEF Ids
  <2> QED
    BY <1>1, <1>3, <2>1, PathOfBranch
<1> PICK path \in Seq(Ids) : path = PathTo[leaf]
  BY <1>1, ParentsAreOlder, PathEquation
<1> DEFINE at(d) == Len(path) - (n - d)
           compactions == {i \in DOMAIN path : entries[path[i]].kind = "compaction"}
           first == IF compactions = {} THEN 1 ELSE Max(compactions)
<1>5. /\ Len(path) \in Nat /\ DOMAIN path = 1..Len(path) /\ u \in Nat
      /\ \A d \in u..n : at(d) \in 1..Len(path) /\ path[at(d)] = d
  BY <1>2, <1>3, <1>4 DEF PathEndsWith, Ids
<1>6. at(u) \in 1..Len(path)
  BY <1>2, <1>3, <1>5
<1>7. ASSUME NEW i \in compactions PROVE i < at(u)
  <2> SUFFICES ASSUME i >= at(u) PROVE FALSE
    BY <1>5, <1>6
  <2> DEFINE d == n - (Len(path) - i)
  <2>1. i \in 1..Len(path) /\ i >= Len(path) - (n - u)
    BY <1>5
  <2>2. d \in u..n /\ at(d) = i
    <3> HIDE DEF compactions
    <3> QED
      BY <1>2, <1>5, <2>1
  <2>3. path[i] = d
    BY <1>5, <2>2
  <2> QED
    BY <1>3, <2>2, <2>3
<1>8. first \in 1..at(u)
  <2>1. CASE compactions = {}
    BY <1>6, <2>1
  <2>2. CASE compactions # {}
    <3>1. compactions \in SUBSET (0..Len(path))
      BY <1>5
    <3> HIDE DEF compactions
    <3>2. Max(compactions) \in compactions
      BY <1>5, <2>2, <3>1, MaxExists
    <3>3. Max(compactions) < at(u)
      BY <1>7, <3>2
    <3>4. Max(compactions) \in 1..Len(path)
      BY <1>5, <3>2 DEF compactions
    <3> QED
      BY <1>6, <2>2, <3>3, <3>4
  <2> QED
    BY <2>1, <2>2
<1>9. ModelMessages = SubSeq(path, first, Len(path))
  BY DEF ModelMessages
<1> HIDE DEF first
<1>10. ASSUME NEW e \in u..n
       PROVE  \E i \in DOMAIN ModelMessages : ModelMessages[i] = e
  <2> DEFINE i == at(e) - first + 1
  <2>1. at(e) \in 1..Len(path) /\ at(e) >= at(u) /\ path[at(e)] = e
    BY <1>2, <1>5
  <2>2. first \in Nat /\ first >= 1 /\ first <= Len(path) + 1
    BY <1>6, <1>8
  <2>3. /\ Len(SubSeq(path, first, Len(path))) = Len(path) - first + 1
        /\ \A j \in 1..(Len(path) - first + 1) :
             SubSeq(path, first, Len(path))[j] = path[first + j - 1]
        /\ DOMAIN SubSeq(path, first, Len(path)) = 1..(Len(path) - first + 1)
    BY <2>2, EndOfSequence
  <2>4. i \in 1..(Len(path) - first + 1) /\ first + i - 1 = at(e)
    <3> PICK p : p = at(e)
      OBVIOUS
    <3> PICK q : q = at(u)
      OBVIOUS
    <3>1. /\ p \in 1..Len(path) /\ p >= q /\ q \in 1..Len(path) /\ Len(path) \in Nat
          /\ first \in 1..q /\ i = p - first + 1
      <4> HIDE DEF first
      <4> QED
        BY <1>5, <1>6, <1>8, <2>1
    <3> HIDE DEF at, first
    <3> HIDE DEF i
    <3>2. i \in 1..(Len(path) - first + 1) /\ first + i - 1 = p
      BY <3>1
    <3> QED
      BY <3>2
  <2>5. i \in DOMAIN ModelMessages
    BY <1>9, <2>3, <2>4
  <2>6. ModelMessages[i] = path[first + i - 1]
    BY <1>9, <2>3, <2>4
  <2> QED
    BY <2>1, <2>4, <2>5, <2>6
<1> QED
  BY <1>10

(* A path goes from a root to its entry, and from each entry to a child.     *)
IsPath(p, e) ==
  /\ p \in Seq(Ids) /\ Len(p) > 0 /\ p[Len(p)] = e
  /\ \A i \in 2..Len(p) : entries[p[i]].parent = p[i - 1]
  /\ entries[p[1]].parent = 0

(* That is what _active_path collects.                                       *)
LEMMA PathsAreBranches ==
  ASSUME TypeOK, AlwaysRestorable
  PROVE  \A e \in Ids : IsPath(PathTo[e], e)
<1> DEFINE n == Len(entries)
           S == {e \in 0..n : e # 0 => IsPath(PathTo[e], e)}
<1>1. n \in Nat /\ Ids = 1..n
  BY ParentsAreOlder DEF Ids
<1>2. ASSUME NEW e \in 0..n, \A j \in 0..(e - 1) : j \in S PROVE e \in S
  <2> SUFFICES ASSUME e # 0 PROVE IsPath(PathTo[e], e)
    OBVIOUS
  <2> PICK q : q = entries[e].parent
    OBVIOUS
  <2>1. e \in Ids /\ q \in Ids \cup {0} /\ q \in 0..(e - 1)
    <3>1. e \in Ids
      BY <1>1
    <3>2. q \in Ids \cup {0} /\ q < e
      BY <3>1, ParentsAreOlder
    <3> QED
      BY <1>1, <3>1, <3>2
  <2> PICK s \in Seq(Ids) : s = PathTo[q]
    BY <2>1, PathEquation
  <2> PICK t : t = PathTo[e]
    OBVIOUS
  <2>2. /\ t = Append(s, e) /\ t \in Seq(Ids) /\ Len(t) = Len(s) + 1
        /\ t[Len(s) + 1] = e /\ \A i \in 1..Len(s) : t[i] = s[i]
        /\ Len(s) \in Nat
    <3>1. t = Append(s, e)
      BY <2>1, PathEquation
    <3>2. /\ Append(s, e) \in Seq(Ids) /\ Len(Append(s, e)) = Len(s) + 1
          /\ Append(s, e)[Len(s) + 1] = e
          /\ \A i \in 1..Len(s) : Append(s, e)[i] = s[i]
      BY <2>1
    <3> QED
      BY <3>1, <3>2
  <2>3. CASE q = 0
    <3>1. s = <<>>
      BY <2>3, PathEquation
    <3>2. Len(t) = 1 /\ t[1] = e
      BY <2>2, <3>1
    <3>3. \A i \in 2..Len(t) : entries[t[i]].parent = t[i - 1]
      BY <3>2
    <3>4. entries[t[1]].parent = 0
      BY <2>3, <3>2
    <3>5. t[Len(t)] = e
      BY <3>2
    <3>6. Len(t) > 0
      BY <3>2
    <3> QED
      BY <2>2, <3>3, <3>4, <3>5, <3>6 DEF IsPath
  <2>4. CASE q # 0
    <3>1. IsPath(s, q)
      BY <1>2, <2>1, <2>4
    <3>2. ASSUME NEW i \in 2..Len(t) PROVE entries[t[i]].parent = t[i - 1]
      <4>1. CASE i \in 2..Len(s)
        <5>1. i - 1 \in 1..Len(s) /\ i \in 1..Len(s)
          BY <2>2, <4>1
        <5> QED
          BY <2>2, <3>1, <4>1, <5>1 DEF IsPath
      <4>2. CASE i = Len(s) + 1
        <5>1. i - 1 = Len(s) /\ Len(s) \in 1..Len(s)
          BY <2>2, <3>1, <4>2 DEF IsPath
        <5> QED
          BY <2>2, <3>1, <4>2, <5>1 DEF IsPath
      <4> QED
        BY <2>2, <4>1, <4>2
    <3>3. t[1] = s[1]
      <4>1. 1 \in 1..Len(s)
        BY <2>2, <3>1 DEF IsPath
      <4> QED
        BY <2>2, <4>1
    <3>4. entries[t[1]].parent = 0
      BY <3>1, <3>3 DEF IsPath
    <3>5. Len(t) > 0 /\ t[Len(t)] = e
      BY <2>2
    <3>6. IsPath(t, e)
      BY <2>2, <3>2, <3>4, <3>5 DEF IsPath
    <3> QED
      BY <3>6
  <2> QED
    BY <2>3, <2>4
<1>3. 0..n \subseteq S
  <2> HIDE DEF n, S
  <2> QED
    BY <1>1, <1>2, EverySmallNatural
<1>4. \A e \in Ids : e \in 0..n /\ e # 0
  BY <1>1
<1> QED
  BY <1>3, <1>4

(* What the model is shown is the end of such a path, from its latest        *)
(* compaction on.                                                            *)
LEMMA BranchIsShown ==
  ASSUME TypeOK, AlwaysRestorable, leaf \in Ids
  PROVE  IsActiveBranch(ModelMessages)
<1> PICK path \in Seq(Ids) : path = PathTo[leaf]
  BY PathEquation
<1> DEFINE compactions == {i \in DOMAIN path : entries[path[i]].kind = "compaction"}
           first == IF compactions = {} THEN 1 ELSE Max(compactions)
           shown == SubSeq(path, first, Len(path))
<1>1. ModelMessages = shown
  BY DEF ModelMessages
<1>2. IsPath(path, leaf) /\ Len(path) \in Nat /\ DOMAIN path = 1..Len(path)
  BY PathsAreBranches
<1>3. /\ first \in 1..Len(path)
      /\ \A i \in compactions : i <= first
      /\ first = 1 \/ first \in compactions
  <2>1. CASE compactions = {}
    BY <1>2, <2>1 DEF IsPath
  <2>2. CASE compactions # {}
    <3>1. compactions \in SUBSET (0..Len(path)) /\ compactions \subseteq 1..Len(path)
      BY <1>2
    <3> HIDE DEF compactions
    <3>2. Max(compactions) \in compactions /\ \A i \in compactions : i <= Max(compactions)
      BY <1>2, <2>2, <3>1, MaxExists
    <3> QED
      BY <2>2, <3>1, <3>2
  <2> QED
    BY <2>1, <2>2
<1> PICK k : k = first
  OBVIOUS
<1> HIDE DEF first
<1>4. /\ k \in 1..Len(path) /\ Len(shown) = Len(path) - k + 1
      /\ \A i \in 1..(Len(path) - k + 1) : shown[i] = path[k + i - 1]
  <2>1. k \in Nat /\ k >= 1 /\ k <= Len(path) + 1
    BY <1>2, <1>3
  <2> QED
    BY <1>2, <1>3, <2>1, EndOfSequence
<1> HIDE DEF shown
<1>5. Len(shown) > 0 /\ shown[Len(shown)] = leaf /\ shown[1] = path[k]
  <2>1. Len(shown) \in 1..(Len(path) - k + 1) /\ k + Len(shown) - 1 = Len(path)
        /\ 1 \in 1..(Len(path) - k + 1) /\ k + 1 - 1 = k
    BY <1>2, <1>4
  <2>2. shown[Len(shown)] = path[k + Len(shown) - 1] /\ shown[1] = path[k + 1 - 1]
    BY <1>4, <2>1
  <2>3. Len(shown) > 0
    BY <1>2, <2>1
  <2>4. shown[Len(shown)] = path[Len(path)] /\ shown[1] = path[k]
    BY <2>1, <2>2
  <2> QED
    BY <1>2, <2>3, <2>4 DEF IsPath
<1>6. ASSUME NEW i \in 2..Len(shown)
      PROVE  /\ entries[shown[i]].parent = shown[i - 1]
             /\ entries[shown[i]].kind # "compaction"
  <2> PICK j : j = k + i - 1
    OBVIOUS
  <2>1. /\ i \in 1..(Len(path) - k + 1) /\ i - 1 \in 1..(Len(path) - k + 1)
        /\ j \in 2..Len(path) /\ j - 1 = k + (i - 1) - 1 /\ j > k
    BY <1>2, <1>4
  <2>2. shown[i] = path[j] /\ shown[i - 1] = path[j - 1]
    BY <1>4, <2>1
  <2>3. j \notin compactions
    <3>1. ~(j <= k)
      BY <1>4, <2>1
    <3> QED
      BY <1>3, <3>1
  <2>4. j \in DOMAIN path
    BY <1>2, <2>1
  <2> QED
    BY <1>2, <2>1, <2>2, <2>3, <2>4 DEF IsPath
<1>7. entries[shown[1]].parent = 0 \/ entries[shown[1]].kind = "compaction"
  BY <1>2, <1>3, <1>5 DEF IsPath
<1> QED
  BY <1>1, <1>5, <1>6, <1>7 DEF IsActiveBranch

(* Whenever the model is asked, in whatever turn after whatever forks and    *)
(* compactions, it is shown the active branch from its latest compaction on  *)
(* and nothing else; the prompt of this turn and all that followed is in it, *)
(* with every call it made in this turn answered, once and in order.         *)
THEOREM WholeTurnIsSeen == Spec => []ModelSeesWholeTurn
<1>1. TreeInv /\ TurnInv => ModelSeesWholeTurn
  <2> SUFFICES ASSUME TreeInv, TurnInv, turn.pc = "complete"
               PROVE  /\ IsActiveBranch(ModelMessages)
                      /\ \A e \in turn.user..Len(entries) :
                           \E i \in DOMAIN ModelMessages : ModelMessages[i] = e
                      /\ entries[turn.user].kind = "user"
                      /\ \A e \in TurnEntries : entries[e].kind = "assistant" => Answered(e)
    BY DEF ModelSeesWholeTurn
  <2>1. Running /\ PromptStored /\ OthersAnswered
    BY DEF TurnInv, Running
  <2>2. turn.user \in TurnEntries /\ entries[turn.user].kind = "user"
    BY <2>1 DEF PromptStored, Prompted
  <2>3. \A e \in TurnEntries : entries[e].kind = "assistant" => Answered(e)
    BY <2>1 DEF OthersAnswered, Ended, Pending, InRound
  <2>4. TypeOK /\ AlwaysRestorable /\ leaf \in Ids
    <3>1. Len(entries) \in Nat /\ turn.base \in Nat
      BY DEF TreeInv, TypeOK, Turn
    <3> QED
      BY <2>1, <2>2, <3>1 DEF TreeInv, TurnIsOneBranch, TurnEntries, Ids
  <2> QED
    BY <2>1, <2>2, <2>3, <2>4, TurnIsShown, BranchIsShown
<1> QED
  BY <1>1, TurnInvInitially, TreeInvStep, TurnInvStep, PTL DEF Spec

-----------------------------------------------------------------------------
(* What the projection of a session onto its turns relies on: which entry    *)
(* may hang under which.  An answer of the model hangs under the prompt, an  *)
(* earlier answer or a result; a result hangs under the answer that asked    *)
(* for it or under another result of that answer.                            *)
AnswerFollows(e) ==
  entries[e].kind = "assistant" =>
    /\ entries[e].parent # 0
    /\ entries[entries[e].parent].kind \in {"user", "assistant", "tool"}
ResultFollows(e) ==
  entries[e].kind = "tool" =>
    /\ entries[e].parent # 0
    /\ \/ /\ entries[e].parent = entries[e].assistant
          /\ entries[entries[e].parent].kind = "assistant"
       \/ /\ entries[entries[e].parent].kind = "tool"
          /\ entries[entries[e].parent].assistant = entries[e].assistant
(* After the prompt a turn has only answers and results.                     *)
PromptFollowed ==
  Prompted => \A e \in (turn.user + 1)..Len(entries) :
                entries[e].kind \in {"assistant", "tool"}
Followed == \A e \in Ids : AnswerFollows(e) /\ ResultFollows(e)
GraphInv == Followed /\ PromptFollowed

(* What may be appended under the leaf.                                      *)
MayFollow(entry) ==
  /\ entry.kind = "assistant" =>
       leaf # 0 /\ entries[leaf].kind \in {"user", "assistant", "tool"}
  /\ entry.kind = "tool" =>
       /\ leaf # 0
       /\ \/ leaf = entry.assistant /\ entries[leaf].kind = "assistant"
          \/ entries[leaf].kind = "tool" /\ entries[leaf].assistant = entry.assistant

(* _append_entry keeps the order of the log when it appends such an entry.   *)
LEMMA AppendFollows ==
  ASSUME TypeOK, AlwaysRestorable, Followed, NEW entry \in Entry,
         AppendEntry(entry), entry.parent = leaf, MayFollow(entry)
  PROVE  Followed'
<1>1. /\ entries' \in Seq(Entry)
      /\ Len(entries') = Len(entries) + 1
      /\ \A e \in Ids : entries'[e] = entries[e]
      /\ entries'[Len(entries) + 1] = entry
  BY AppendGrows
<1>2. /\ Len(entries) \in Nat /\ leaf \in Ids \cup {0}
      /\ \A e \in Ids : entries[e].parent \in Ids \cup {0}
  BY ParentsAreOlder
<1>3. ASSUME NEW e \in Ids' PROVE AnswerFollows(e)' /\ ResultFollows(e)'
  <2>1. CASE e \in Ids
    <3>1. /\ entries'[e] = entries[e]
          /\ entries[e].parent # 0 => entries'[entries[e].parent] = entries[entries[e].parent]
      BY <1>1, <1>2, <2>1
    <3>2. AnswerFollows(e) /\ ResultFollows(e)
      BY <2>1 DEF Followed
    <3> QED
      BY <3>1, <3>2 DEF AnswerFollows, ResultFollows
  <2>2. CASE e \notin Ids
    <3>1. e = Len(entries) + 1
      BY <1>1, <1>2, <2>2 DEF Ids
    <3>2. /\ entries'[e] = entry
          /\ leaf # 0 => entries'[leaf] = entries[leaf]
      BY <1>1, <1>2, <3>1
    <3> QED
      BY <3>2 DEF AnswerFollows, ResultFollows, MayFollow
  <2> QED
    BY <2>1, <2>2
<1> QED
  BY <1>3 DEF Followed

(* A turn that has its prompt ends in the prompt, an answer or a result.     *)
LEMMA PromptedLeaf ==
  ASSUME TreeInv, TurnInv, GraphInv, Prompted
  PROVE  /\ leaf = Len(entries) /\ leaf \in Ids /\ turn.user \in Ids /\ turn.user <= leaf
         /\ entries[leaf].kind \in {"user", "assistant", "tool"}
<1>1. Running /\ TypeOK
  BY DEF Prompted, InRound, Running, TreeInv
<1>2. turn.user \in TurnEntries /\ entries[turn.user].kind = "user"
  BY <1>1 DEF TurnInv, PromptStored
<1>3. Len(entries) \in Nat /\ turn.base \in Nat
  BY <1>1 DEF TypeOK, Turn
<1>4. leaf = Len(entries) /\ leaf \in Ids /\ turn.user \in Ids /\ turn.user <= leaf
  BY <1>1, <1>2, <1>3 DEF TreeInv, TurnIsOneBranch, TurnEntries, Ids
<1>5. leaf # turn.user => leaf \in (turn.user + 1)..Len(entries)
  BY <1>3, <1>4 DEF Ids
<1>6. \A e \in (turn.user + 1)..Len(entries) : entries[e].kind \in {"assistant", "tool"}
  BY DEF GraphInv, PromptFollowed
<1> QED
  BY <1>2, <1>4, <1>5, <1>6

(* A result is stored under its answer or under the result before it.        *)
LEMMA ResultMayFollow ==
  ASSUME TreeInv, TurnInv, GraphInv, InRound
  PROVE  MayFollow(ToolResult)
<1>1. Running /\ TypeOK /\ Prompted
  BY DEF Prompted, InRound, Running, TreeInv
<1>2. /\ turn.assistant \in TurnEntries /\ entries[turn.assistant].kind = "assistant"
      /\ turn.call \in 1..entries[turn.assistant].calls
      /\ Len(entries) = turn.assistant + turn.call - 1
      /\ AnsweredUpTo(turn.assistant, turn.call - 1)
  BY <1>1 DEF TurnInv, CallsInOrder
<1>3. leaf = Len(entries) /\ leaf \in Ids
  BY <1>1, PromptedLeaf
<1>4. Len(entries) \in Nat /\ turn.assistant \in Nat /\ turn.call \in Nat
  BY <1>1 DEF TypeOK, Turn
<1>5. ToolResult.kind = "tool" /\ ToolResult.assistant = turn.assistant
  BY DEF ToolResult, NewEntry
<1>6. CASE turn.call = 1
  <2>1. leaf = turn.assistant
    BY <1>2, <1>3, <1>4, <1>6
  <2> QED
    BY <1>2, <1>3, <1>5, <2>1 DEF MayFollow, Ids
<1>7. CASE turn.call # 1
  <2>1. turn.call - 1 \in 1..(turn.call - 1) /\ leaf = turn.assistant + (turn.call - 1)
    BY <1>2, <1>3, <1>4, <1>7
  <2>2. entries[leaf].kind = "tool" /\ entries[leaf].assistant = turn.assistant
    BY <1>2, <2>1 DEF AnsweredUpTo
  <2> QED
    BY <1>3, <1>5, <2>2 DEF MayFollow, Ids
<1> QED
  BY <1>6, <1>7

(* A step that leaves the tree and the prompt, and does not begin a turn.    *)
LEMMA OthersFollow ==
  ASSUME GraphInv, entries' = entries, Prompted' => Prompted /\ turn'.user = turn.user
  PROVE  GraphInv'
  BY DEF GraphInv, Followed, PromptFollowed, AnswerFollows, ResultFollows, Ids

(* Every step of the runtime keeps this.                                     *)
LEMMA GraphInvStep == TreeInv /\ TurnInv /\ GraphInv /\ [Next]_vars => GraphInv'
<1> SUFFICES ASSUME TreeInv, TurnInv, GraphInv, [Next]_vars PROVE GraphInv'
  OBVIOUS
<1>1. TypeOK /\ AlwaysRestorable /\ Followed /\ turn \in Turn /\ Len(entries) \in Nat
  BY DEF TreeInv, GraphInv, TypeOK
<1>2. CASE UNCHANGED vars \/ Start \/ Abort \/ Close
  BY <1>2, OthersFollow DEF vars, session, tree, Start, Abort, Close, Prompted, InRound
<1>3. CASE BeginTurn
  <2>1. entries' = entries /\ turn'.pc = "agent_start"
    BY <1>3 DEF BeginTurn, tree, NoTurn
  <2> QED
    BY <2>1, OthersFollow DEF Prompted, InRound
<1>4. ASSUME AppendUser PROVE GraphInv'
  <2>1. Plain("user") \in Entry /\ Plain("user").parent = leaf /\ Plain("user").kind = "user"
    BY <1>1, TurnEntriesTyped DEF Kinds
  <2>2. Followed'
    BY <1>1, <1>4, <2>1, AppendFollows DEF AppendUser, MayFollow
  <2>3. turn'.user = Len(entries) + 1 /\ Len(entries') = Len(entries) + 1
    BY <1>1, <1>4, <2>1, AppendGrows DEF AppendUser, Turn
  <2> QED
    BY <1>1, <2>2, <2>3 DEF GraphInv, PromptFollowed
<1>5. CASE AfterStart \/ AfterInjection
  <2>1. CASE turn' = [turn EXCEPT !.pc = "prepare"] /\ UNCHANGED tree
    <3>1. entries' = entries /\ turn'.pc = "prepare"
      BY <1>1, <2>1 DEF tree, Turn
    <3> QED
      BY <3>1, OthersFollow DEF Prompted, InRound
  <2> QED
    BY <1>4, <1>5, <2>1 DEF AfterStart, AfterInjection
<1>6. ASSUME NEW kind \in {"context", "compaction"}, AppendEntry(Plain(kind)), ~Prompted'
      PROVE  GraphInv'
  <2>1. Plain(kind) \in Entry /\ Plain(kind).parent = leaf /\ Plain(kind).kind = kind
    BY <1>1, TurnEntriesTyped DEF Kinds
  <2>2. Followed'
    BY <1>1, <1>6, <2>1, AppendFollows DEF MayFollow
  <2> QED
    BY <1>6, <2>2 DEF GraphInv, PromptFollowed
<1>7. CASE Prepared
  <2>1. turn'.pc = "context_injection"
    BY <1>1, <1>7 DEF Prepared, Turn
  <2>2. ~Prompted'
    BY <2>1 DEF Prompted, InRound
  <2>3. AppendEntry(Plain("context")) \/ entries' = entries
    BY <1>7 DEF Prepared, tree
  <2> QED
    BY <1>6, <2>2, <2>3, OthersFollow
<1>8. ASSUME NEW entry \in Entry, entry.kind \in {"assistant", "tool"}, entry.parent = leaf,
             AppendEntry(entry), MayFollow(entry), Prompted, turn'.user = turn.user
      PROVE  GraphInv'
  <2>1. Followed'
    BY <1>1, <1>8, AppendFollows
  <2>2. /\ Len(entries') = Len(entries) + 1
        /\ \A e \in Ids : entries'[e] = entries[e]
        /\ entries'[Len(entries) + 1] = entry
    BY <1>1, <1>8, AppendGrows
  <2>3. \A e \in (turn.user + 1)..Len(entries) : entries[e].kind \in {"assistant", "tool"}
    BY <1>8 DEF GraphInv, PromptFollowed
  <2>4. turn.user \in Ids
    BY <1>8, PromptedLeaf
  <2>5. ASSUME NEW e \in (turn.user + 1)..(Len(entries) + 1)
        PROVE  entries'[e].kind \in {"assistant", "tool"}
    <3>1. CASE e = Len(entries) + 1
      BY <1>8, <2>2, <3>1
    <3>2. CASE e # Len(entries) + 1
      <4>1. e \in (turn.user + 1)..Len(entries) /\ e \in Ids
        BY <1>1, <2>4, <3>2 DEF Ids
      <4> QED
        BY <2>2, <2>3, <4>1
    <3> QED
      BY <3>1, <3>2
  <2> QED
    BY <1>8, <2>1, <2>2, <2>5 DEF GraphInv, PromptFollowed
<1>9. ASSUME NEW calls \in Nat, AppendEntry(AssistantEntry(calls)),
             turn.pc \in {"complete", "message_update"}, turn'.user = turn.user
      PROVE  GraphInv'
  <2>1. /\ AssistantEntry(calls) \in Entry /\ AssistantEntry(calls).parent = leaf
        /\ AssistantEntry(calls).kind = "assistant"
    BY <1>1, TurnEntriesTyped
  <2>2. Prompted
    BY <1>9 DEF Prompted
  <2>3. leaf # 0 /\ entries[leaf].kind \in {"user", "assistant", "tool"}
    BY <1>1, <2>2, PromptedLeaf DEF Ids
  <2>4. MayFollow(AssistantEntry(calls))
    BY <2>1, <2>3 DEF MayFollow
  <2> QED
    BY <1>8, <1>9, <2>1, <2>2, <2>4
<1>10. ASSUME NEW calls \in 0..instance.calls, Completed(calls) PROVE GraphInv'
  <2>1. calls \in Nat
    BY <1>1, MiniPyAssumption DEF TypeOK
  <2>2. turn'.user = turn.user
    BY <1>1, <1>10 DEF Completed, Turn
  <2> QED
    BY <1>9, <1>10, <2>1, <2>2 DEF Completed
<1>11. CASE AfterAnswer
  <2>1. turn'.user = turn.user /\ turn.pc = "message_update"
    BY <1>1, <1>11 DEF AfterAnswer, EndTurn, Turn
  <2>2. AppendEntry(AssistantEntry(0)) \/ entries' = entries
    BY <1>11 DEF AfterAnswer, tree
  <2>3. Prompted
    BY <2>1 DEF Prompted
  <2> QED
    BY <1>9, <2>1, <2>2, <2>3, OthersFollow
<1>12. CASE AfterToolStart \/ Executed \/ Interrupted \/ AfterEnd
  <2>1. entries' = entries /\ turn'.user = turn.user
    BY <1>1, <1>12 DEF AfterToolStart, Executed, Interrupted, AfterEnd, EndTurn, EndYielded,
       tree, Turn
  <2>2. Prompted' => Prompted
    BY <1>1, <1>12 DEF AfterToolStart, Executed, Interrupted, AfterEnd, EndTurn, EndYielded,
       Turn, Prompted, InRound, Awaits
  <2> QED
    BY <2>1, <2>2, OthersFollow
<1>13. CASE AfterToolEnd \/ AfterToolAborted
  <2>1. AppendEntry(ToolResult) /\ InRound /\ turn'.user = turn.user
    BY <1>1, <1>13 DEF AfterToolEnd, AfterToolAborted, EndTurn, InRound, Turn
  <2>2. ToolResult \in Entry /\ ToolResult.parent = leaf /\ ToolResult.kind = "tool"
    BY <1>1, TurnEntriesTyped
  <2>3. Prompted
    BY <2>1 DEF Prompted
  <2> QED
    BY <1>8, <2>1, <2>2, <2>3, ResultMayFollow
<1>14. CASE AfterSettled \/ ModelRaises \/ Abandon \/ Restore
  <2>1. entries' = entries /\ turn'.pc \in {"idle", "left"}
    BY <1>14 DEF AfterSettled, ModelRaises, Abandon, Finally, Restore, NoTurn, tree
  <2> QED
    BY <2>1, OthersFollow DEF Prompted, InRound
<1>15. CASE Compact
  <2>1. AppendEntry(Plain("compaction")) /\ turn' = turn /\ turn.pc = "idle"
    BY <1>15 DEF Compact, Mutable, TurnActive
  <2> QED
    BY <1>6, <2>1 DEF Prompted, InRound
<1>16. ASSUME NEW e \in Ids, Fork(e) PROVE GraphInv'
  BY <1>16, OthersFollow DEF Fork, Prompted, InRound
<1> QED
  BY <1>2, <1>3, <1>5, <1>7, <1>10, <1>11, <1>12, <1>13, <1>14, <1>15, <1>16
  DEF Next, Resume, Answer

-----------------------------------------------------------------------------
(* The paths as sets: what is on the way to an entry.                        *)
On(e) == ToSet(PathTo[e])

(* An append adds its element to what a sequence holds.                      *)
LEMMA AppendedSet ==
  ASSUME NEW S, NEW s \in Seq(S), NEW x
  PROVE  ToSet(Append(s, x)) = ToSet(s) \cup {x}
<1> DEFINE t == Append(s, x)
<1>1. /\ Len(s) \in Nat /\ DOMAIN s = 1..Len(s) /\ DOMAIN t = 1..(Len(s) + 1)
      /\ t[Len(s) + 1] = x
      /\ \A i \in 1..Len(s) : t[i] = s[i]
  OBVIOUS
<1> HIDE DEF t
<1>2. \A y \in ToSet(t) : y \in ToSet(s) \cup {x}
  <2> SUFFICES ASSUME NEW i \in DOMAIN t PROVE t[i] \in ToSet(s) \cup {x}
    BY DEF ToSet
  <2>1. CASE i = Len(s) + 1
    BY <1>1, <2>1
  <2>2. CASE i # Len(s) + 1
    <3>1. i \in 1..Len(s)
      BY <1>1, <2>2
    <3> QED
      BY <1>1, <3>1 DEF ToSet
  <2> QED
    BY <2>1, <2>2
<1>3. \A i \in 1..Len(s) : s[i] \in ToSet(t)
  BY <1>1 DEF ToSet
<1>4. x \in ToSet(t)
  BY <1>1 DEF ToSet
<1>5. \A y \in ToSet(s) : y \in ToSet(t)
  BY <1>1, <1>3 DEF ToSet
<1> QED
  BY <1>2, <1>4, <1>5 DEF t

(* The entries on a path: those on the path to the parent, and the entry     *)
(* itself; none of them is younger.                                          *)
LEMMA OnPath ==
  ASSUME TypeOK, AlwaysRestorable
  PROVE  /\ On(0) = {}
         /\ \A e \in Ids : On(e) = On(entries[e].parent) \cup {e}
         /\ \A e \in Ids \cup {0} : On(e) \subseteq 1..e /\ On(e) \subseteq Ids
<1>1. On(0) = {}
  <2>1. DOMAIN PathTo[0] = {}
    BY PathEquation
  <2> QED
    BY <2>1 DEF On, ToSet
<1>2. ASSUME NEW e \in Ids PROVE On(e) = On(entries[e].parent) \cup {e}
  <2>1. PathTo[entries[e].parent] \in Seq(Ids)
    BY ParentsAreOlder, PathEquation
  <2>2. PathTo[e] = Append(PathTo[entries[e].parent], e)
    BY PathEquation
  <2> QED
    BY <2>1, <2>2, AppendedSet DEF On
<1> DEFINE n == Len(entries)
           S == {e \in 0..n : On(e) \subseteq 1..e}
<1>3. n \in Nat /\ Ids = 1..n
  BY ParentsAreOlder DEF Ids
<1>4. ASSUME NEW e \in 0..n, \A j \in 0..(e - 1) : j \in S PROVE e \in S
  <2>1. CASE e = 0
    BY <1>1, <2>1
  <2>2. CASE e # 0
    <3>1. e \in Ids
      BY <1>3, <2>2
    <3>2. entries[e].parent \in 0..(e - 1)
      BY <1>3, <3>1, ParentsAreOlder
    <3>3. On(entries[e].parent) \subseteq 1..entries[e].parent
      BY <1>4, <3>2
    <3>4. \A d \in On(e) : d \in 1..e
      BY <1>2, <1>3, <3>1, <3>2, <3>3
    <3> QED
      BY <3>4
  <2> QED
    BY <2>1, <2>2
<1>5. 0..n \subseteq S
  <2> HIDE DEF n, S
  <2> QED
    BY <1>3, <1>4, EverySmallNatural
<1>6. \A e \in 0..n : On(e) \subseteq 1..e /\ On(e) \subseteq Ids
  BY <1>3, <1>5
<1> QED
  BY <1>1, <1>2, <1>3, <1>6

(* The path to what is on a path is the beginning of that path.              *)
LEMMA PathsNest ==
  ASSUME TypeOK, AlwaysRestorable
  PROVE  \A e \in Ids \cup {0} : \A d \in On(e) : On(d) = On(e) \cap (1..d)
<1> DEFINE n == Len(entries)
           Nested(e) == \A d \in On(e) : On(d) = On(e) \cap (1..d)
           S == {e \in 0..n : Nested(e)}
<1>1. n \in Nat /\ Ids = 1..n
  BY ParentsAreOlder DEF Ids
<1>2. ASSUME NEW e \in 0..n, \A j \in 0..(e - 1) : j \in S PROVE e \in S
  <2>1. CASE e = 0
    BY <2>1, OnPath
  <2>2. CASE e # 0
    <3>1. e \in Ids
      BY <1>1, <2>2
    <3> PICK p : p = entries[e].parent
      OBVIOUS
    <3>2. p \in 0..(e - 1) /\ p \in Ids \cup {0} /\ On(e) = On(p) \cup {e}
      BY <1>1, <3>1, ParentsAreOlder, OnPath
    <3>3. Nested(p)
      BY <1>2, <3>2
    <3>4. On(e) \subseteq 1..e /\ On(p) \subseteq 1..p
      BY <3>1, <3>2, OnPath
    <3>5. ASSUME NEW d \in On(e) PROVE On(d) = On(e) \cap (1..d)
      <4>1. CASE d = e
        BY <3>4, <4>1
      <4>2. CASE d # e
        <5>1. d \in On(p)
          BY <3>2, <4>2
        <5>2. On(d) = On(p) \cap (1..d)
          BY <3>3, <5>1
        <5>3. e \notin 1..d
          BY <1>1, <3>2, <3>4, <5>1
        <5> QED
          BY <3>2, <5>2, <5>3
      <4> QED
        BY <4>1, <4>2
    <3> QED
      BY <3>5
  <2> QED
    BY <2>1, <2>2
<1>3. 0..n \subseteq S
  <2> HIDE DEF n, S
  <2> QED
    BY <1>1, <1>2, EverySmallNatural
<1> QED
  BY <1>1, <1>3

-----------------------------------------------------------------------------
(* nearest_user has a value for every entry, for the same reason.            *)
IsNearest(g, n, parent, U) ==
  g = [e \in 1..n |-> IF parent[e] = 0 \/ parent[e] \in U THEN parent[e] ELSE g[parent[e]]]

(* Such a function exists for any tree whose parents are older.              *)
LEMMA NearestExists ==
  ASSUME NEW n \in Nat, NEW parent, NEW U,
         \A e \in 1..n : parent[e] \in 0..(e - 1)
  PROVE  \E g : IsNearest(g, n, parent, U)
<1> DEFINE D == 1..n
           T == 0..n
           Top == {e \in 1..n : parent[e] = 0 \/ parent[e] \in U}
           rank == [e \in D |-> e]
           F == [x \in T \X D |-> x[1]]
<1>1. Descends(D, Top, parent, rank, n)
  <2>1. \A e \in D \ Top : parent[e] \in D /\ rank[e] = e
                            /\ rank[parent[e]] = parent[e] /\ parent[e] < e
    OBVIOUS
  <2>2. rank \in [D -> 0..n]
    OBVIOUS
  <2> HIDE DEF D, Top, rank
  <2> QED
    BY <2>1, <2>2 DEF Descends
<1>2. \A e \in D, v \in T : F[<<v, e>>] = v
  OBVIOUS
<1>3. Stays(D, Top, parent, F, T)
  <2>1. \A e \in D : parent[e] \in T
    OBVIOUS
  <2> HIDE DEF D, T, Top, F
  <2> QED
    BY <1>2, <2>1 DEF Stays
<1>4. PICK g \in [D -> T] : Solves(g, D, Top, parent, parent, F)
  <2> HIDE DEF D, T, Top, rank, F
  <2> QED
    BY <1>1, <1>3, RecursionStays
<1>5. ASSUME NEW e \in D
      PROVE  g[e] = IF parent[e] = 0 \/ parent[e] \in U THEN parent[e] ELSE g[parent[e]]
  <2>1. g[e] = IF e \in Top THEN parent[e] ELSE F[<<g[parent[e]], e>>]
    <3> HIDE DEF D, T, Top, F
    <3> QED
      BY <1>4 DEF Solves, Value
  <2>2. e \notin Top => parent[e] \in D
    OBVIOUS
  <2>3. e \notin Top => g[parent[e]] \in T
    BY <1>4, <2>2
  <2>4. e \notin Top => F[<<g[parent[e]], e>>] = g[parent[e]]
    <3> HIDE DEF D, T, Top, F
    <3> QED
      BY <1>2, <2>3
  <2> QED
    BY <2>1, <2>4
<1>6. IsNearest(g, n, parent, U)
  BY <1>4, <1>5 DEF IsNearest
<1> HIDE DEF D, T, Top, rank, F
<1> QED
  BY <1>6

(* So the recursion of nearest_user holds of every entry.                    *)
LEMMA NearestEquation ==
  ASSUME TypeOK, AlwaysRestorable
  PROVE  \A e \in Ids : NearestUser[e] = IF entries[e].parent = 0 \/ entries[e].parent \in Users
                                         THEN entries[e].parent
                                         ELSE NearestUser[entries[e].parent]
<1> DEFINE n == Len(entries)
           parent == [e \in Ids |-> entries[e].parent]
<1>1. /\ n \in Nat /\ Ids = 1..n
      /\ \A e \in Ids : parent[e] = entries[e].parent /\ parent[e] \in 0..(e - 1)
  BY ParentsAreOlder DEF Ids
<1>2. PICK g : IsNearest(g, n, parent, Users)
  <2> HIDE DEF n, parent
  <2> QED
    BY <1>1, NearestExists
<1>3. g = [e \in Ids |-> IF entries[e].parent = 0 \/ entries[e].parent \in Users
                         THEN entries[e].parent ELSE g[entries[e].parent]]
  BY <1>1, <1>2 DEF IsNearest
<1>4. NearestUser =
        [e \in Ids |-> IF entries[e].parent = 0 \/ entries[e].parent \in Users
                       THEN entries[e].parent ELSE NearestUser[entries[e].parent]]
  BY <1>3 DEF NearestUser
<1> QED
  BY <1>4

(* It is the newest prompt above the entry, or none when there is no prompt. *)
IsNewestOf(above, x) ==
  \/ above = {} /\ x = 0
  \/ x \in above /\ \A u \in above : u <= x

(* nearest_user names the newest prompt above the entry.                     *)
LEMMA NearestIsNewest ==
  ASSUME TypeOK, AlwaysRestorable
  PROVE  \A e \in Ids : IsNewestOf(Users \cap On(entries[e].parent), NearestUser[e])
<1> DEFINE n == Len(entries)
           Holds(e) == IsNewestOf(Users \cap On(entries[e].parent), NearestUser[e])
           S == {e \in 0..n : e # 0 => Holds(e)}
<1>1. n \in Nat /\ Ids = 1..n /\ Users \subseteq Ids
  BY ParentsAreOlder DEF Ids, Users
<1>2. ASSUME NEW e \in 0..n, \A j \in 0..(e - 1) : j \in S PROVE e \in S
  <2> SUFFICES ASSUME e # 0 PROVE Holds(e)
    OBVIOUS
  <2>1. e \in Ids
    BY <1>1
  <2> PICK p : p = entries[e].parent
    OBVIOUS
  <2>2. p \in 0..(e - 1) /\ p \in Ids \cup {0}
    BY <1>1, <2>1, ParentsAreOlder
  <2>3. NearestUser[e] = IF p = 0 \/ p \in Users THEN p ELSE NearestUser[p]
    BY <2>1, NearestEquation
  <2>4. CASE p = 0
    BY <2>3, <2>4, OnPath DEF IsNewestOf
  <2>5. CASE p \in Users
    <3>1. p \in On(p) /\ On(p) \subseteq 1..p
      BY <1>1, <2>5, OnPath
    <3> QED
      BY <2>3, <2>5, <3>1 DEF IsNewestOf
  <2>6. CASE p # 0 /\ p \notin Users
    <3>1. p \in Ids /\ Holds(p)
      BY <1>2, <2>2, <2>6
    <3>2. Users \cap On(p) = Users \cap On(entries[p].parent)
      BY <2>6, <3>1, OnPath
    <3> QED
      BY <2>3, <2>6, <3>1, <3>2
  <2> QED
    BY <2>4, <2>5, <2>6
<1>3. 0..n \subseteq S
  <2> HIDE DEF n, S
  <2> QED
    BY <1>1, <1>2, EverySmallNatural
<1>4. \A e \in Ids : e \in 0..n /\ e # 0
  BY <1>1
<1> QED
  BY <1>3, <1>4

-----------------------------------------------------------------------------
(* What a turn shows.                                                        *)
Shown(u) == On(Anchor(OwnEntries(u)))

(* The fields of a node of project_turn_graph.                               *)
LEMMA NodeFields ==
  ASSUME NEW u
  PROVE  /\ Node(u).id = u
         /\ Node(u).parent_id = NearestUser[u]
         /\ Node(u).continue_entry_id = Anchor(OwnEntries(u))
         /\ Node(u).messages = OfKind(Shown(u), {"user", "assistant"})
         /\ Node(u).answer = OfKind(OwnEntries(u) \cap Shown(u), {"assistant"})
         /\ Node(u).tools = OfKind(OwnEntries(u) \cap Shown(u), {"tool"})
         /\ Node(u).other_answers = OfKind(OwnEntries(u) \ Shown(u), {"assistant"})
         /\ Node(u).active = (u \in On(leaf))
  BY DEF Node, Shown, On

(* A turn is continued at an entry of the log.                               *)
LEMMA AnchorIsStored ==
  ASSUME TypeOK, AlwaysRestorable, NEW u \in Users
  PROVE  Anchor(OwnEntries(u)) \in Ids \cup {0}
<1> PICK own : own = OwnEntries(u)
  OBVIOUS
<1>1. own \in SUBSET (0..Len(entries)) /\ own # {} /\ own \subseteq Ids
  BY DEF OwnEntries, Users, Ids
<1>2. Max(own) \in own
  BY <1>1, ParentsAreOlder, MaxExists
<1> QED
  BY <1>1, <1>2, ParentsAreOlder DEF Anchor

(* Every answer and every result belongs to a turn.                          *)
LEMMA AnswersHaveTurns ==
  ASSUME TypeOK, AlwaysRestorable, Followed
  PROVE  \A e \in Ids : entries[e].kind \in {"assistant", "tool"} => NearestUser[e] \in Users
<1> DEFINE n == Len(entries)
           Holds(e) == entries[e].kind \in {"assistant", "tool"} => NearestUser[e] \in Users
           S == {e \in 0..n : e # 0 => Holds(e)}
<1>1. n \in Nat /\ Ids = 1..n
  BY ParentsAreOlder DEF Ids
<1>2. ASSUME NEW e \in 0..n, \A j \in 0..(e - 1) : j \in S PROVE e \in S
  <2> SUFFICES ASSUME e # 0, entries[e].kind \in {"assistant", "tool"}
               PROVE  NearestUser[e] \in Users
    OBVIOUS
  <2>1. e \in Ids
    BY <1>1
  <2> PICK p : p = entries[e].parent
    OBVIOUS
  <2>2. p # 0 /\ entries[p].kind \in {"user", "assistant", "tool"}
    BY <2>1 DEF Followed, AnswerFollows, ResultFollows
  <2>3. p \in Ids /\ p \in 0..(e - 1)
    BY <1>1, <2>1, <2>2, ParentsAreOlder
  <2>4. NearestUser[e] = IF p = 0 \/ p \in Users THEN p ELSE NearestUser[p]
    BY <2>1, NearestEquation
  <2>5. p \notin Users => Holds(p) /\ entries[p].kind \in {"assistant", "tool"}
    BY <1>2, <2>2, <2>3 DEF Users
  <2> QED
    BY <2>2, <2>4, <2>5
<1>3. 0..n \subseteq S
  <2> HIDE DEF n, S
  <2> QED
    BY <1>1, <1>2, EverySmallNatural
<1>4. \A e \in Ids : e \in 0..n /\ e # 0
  BY <1>1
<1> QED
  BY <1>3, <1>4

(* A turn that shows a result on a path shows the answer it belongs to.      *)
LEMMA ResultsHaveAnswers ==
  ASSUME TypeOK, AlwaysRestorable, Followed, NEW x \in Ids \cup {0}, NEW u \in Users
  PROVE  \A t \in Ids : t \in On(x) /\ NearestUser[t] = u /\ entries[t].kind = "tool" =>
           /\ entries[t].assistant \in OwnEntries(u) \cap On(x)
           /\ entries[entries[t].assistant].kind = "assistant"
<1> DEFINE n == Len(entries)
           InTurn(t) == t \in On(x) /\ NearestUser[t] = u
           Holds(t) == InTurn(t) /\ entries[t].kind = "tool" =>
                         /\ entries[t].assistant \in OwnEntries(u) \cap On(x)
                         /\ entries[entries[t].assistant].kind = "assistant"
           S == {t \in 0..n : t # 0 => Holds(t)}
<1>1. n \in Nat /\ Ids = 1..n
  BY ParentsAreOlder DEF Ids
<1>2. ASSUME NEW t \in 0..n, \A j \in 0..(t - 1) : j \in S PROVE t \in S
  <2> SUFFICES ASSUME t # 0, InTurn(t), entries[t].kind = "tool"
               PROVE  /\ entries[t].assistant \in OwnEntries(u) \cap On(x)
                      /\ entries[entries[t].assistant].kind = "assistant"
    OBVIOUS
  <2>1. t \in Ids
    BY <1>1
  <2> PICK p : p = entries[t].parent
    OBVIOUS
  <2>2. /\ p # 0
        /\ \/ p = entries[t].assistant /\ entries[p].kind = "assistant"
           \/ entries[p].kind = "tool" /\ entries[p].assistant = entries[t].assistant
    BY <2>1 DEF Followed, ResultFollows
  <2>3. p \in Ids /\ p \in 0..(t - 1)
    BY <1>1, <2>1, <2>2, ParentsAreOlder
  <2>4. p \notin Users
    BY <2>2 DEF Users
  <2>5. NearestUser[t] = NearestUser[p]
    BY <2>1, <2>2, <2>4, NearestEquation
  <2>6. p \in On(x)
    <3>1. On(t) \subseteq On(x)
      BY PathsNest
    <3>2. p \in On(p) /\ On(p) \subseteq On(t)
      BY <2>1, <2>3, OnPath
    <3> QED
      BY <3>1, <3>2
  <2>7. p \in OwnEntries(u) /\ InTurn(p)
    BY <2>3, <2>4, <2>5, <2>6 DEF OwnEntries
  <2>8. Holds(p)
    BY <1>2, <2>2, <2>3
  <2> QED
    BY <2>2, <2>6, <2>7, <2>8
<1>3. 0..n \subseteq S
  <2> HIDE DEF n, S
  <2> QED
    BY <1>1, <1>2, EverySmallNatural
<1>4. \A t \in Ids : t \in 0..n /\ t # 0
  BY <1>1
<1> QED
  BY <1>3, <1>4

(* One turn shows an answer, in one of its two lists.                        *)
LEMMA ShownOnce ==
  ASSUME TypeOK, AlwaysRestorable, Followed, NEW a \in Ids, entries[a].kind = "assistant"
  PROVE  Cardinality({n \in Nodes : a \in n.answer})
           + Cardinality({n \in Nodes : a \in n.other_answers}) = 1
<1> DEFINE u == NearestUser[a]
           Answers == {n \in Nodes : a \in n.answer}
           Others == {n \in Nodes : a \in n.other_answers}
<1>1. u \in Users /\ a \notin Users
  BY AnswersHaveTurns DEF Users
<1>2. \A v \in Users : a \in OwnEntries(v) <=> v = u
  BY <1>1 DEF OwnEntries
<1>3. \A v \in Users : /\ a \in Node(v).answer <=> v = u /\ a \in Shown(v)
                       /\ a \in Node(v).other_answers <=> v = u /\ a \notin Shown(v)
  BY <1>2, NodeFields DEF OfKind
<1> HIDE DEF u
<1>4. Answers = IF a \in Shown(u) THEN {Node(u)} ELSE {}
  BY <1>1, <1>3 DEF Nodes
<1>5. Others = IF a \in Shown(u) THEN {} ELSE {Node(u)}
  BY <1>1, <1>3 DEF Nodes
<1>6. Cardinality({Node(u)}) = 1 /\ Cardinality({}) = 0
  BY FS_Singleton, FS_EmptySet
<1>7. Cardinality(Answers) + Cardinality(Others) = 1
  <2> HIDE DEF Answers, Others
  <2>1. CASE a \in Shown(u)
    BY <1>4, <1>5, <1>6, <2>1
  <2>2. CASE a \notin Shown(u)
    BY <1>4, <1>5, <1>6, <2>2
  <2> QED
    BY <2>1, <2>2
<1> QED
  BY <1>7

(* No answer of the model is lost or shown twice, on whatever branch a fork  *)
(* left it, and each result is shown with the answer that asked for it.      *)
THEOREM AnswersAreShownOnce == Spec => []EveryAnswerOnce
<1>1. TreeInv /\ GraphInv => EveryAnswerOnce
  <2> SUFFICES ASSUME TreeInv, GraphInv
               PROVE  /\ \A a \in OfKind(Ids, {"assistant"}) :
                           Cardinality({n \in Nodes : a \in n.answer})
                             + Cardinality({n \in Nodes : a \in n.other_answers}) = 1
                      /\ \A n \in Nodes : \A t \in n.tools : entries[t].assistant \in n.answer
    BY DEF EveryAnswerOnce
  <2>1. TypeOK /\ AlwaysRestorable /\ Followed
    BY DEF TreeInv, GraphInv
  <2>2. ASSUME NEW a \in OfKind(Ids, {"assistant"})
        PROVE  Cardinality({n \in Nodes : a \in n.answer})
                 + Cardinality({n \in Nodes : a \in n.other_answers}) = 1
    <3>1. a \in Ids /\ entries[a].kind = "assistant"
      BY DEF OfKind
    <3> QED
      BY <2>1, <3>1, ShownOnce
  <2>3. ASSUME NEW n \in Nodes, NEW t \in n.tools
        PROVE  entries[t].assistant \in n.answer
    <3> PICK u \in Users : n = Node(u)
      BY DEF Nodes
    <3>1. t \in OwnEntries(u) \cap Shown(u) /\ entries[t].kind = "tool"
      BY NodeFields DEF OfKind
    <3>2. t \in Ids /\ NearestUser[t] = u
      BY <3>1 DEF OwnEntries, Users
    <3>3. Anchor(OwnEntries(u)) \in Ids \cup {0}
      BY <2>1, AnchorIsStored
    <3>4. /\ entries[t].assistant \in OwnEntries(u) \cap Shown(u)
          /\ entries[entries[t].assistant].kind = "assistant"
      BY <2>1, <3>1, <3>2, <3>3, ResultsHaveAnswers DEF Shown
    <3> QED
      BY <3>4, NodeFields DEF OfKind
  <2> QED
    BY <2>2, <2>3
<1>2. Init => GraphInv
  BY DEF Init, GraphInv, Followed, PromptFollowed, Ids, NoTurn, Prompted, InRound
<1> QED
  BY <1>1, <1>2, TurnInvInitially, TreeInvStep, TurnInvStep, GraphInvStep, PTL DEF Spec

-----------------------------------------------------------------------------
(* The active turns.  Numbers of which each but the first names the one      *)
(* before it form a chain.                                                   *)
NamesTheOneBefore(U, before) == \A u \in U : IsNewestOf({v \in U : v < u}, before[u])

(* Together they name all of them but the last, and 0.                       *)
NamesAllButTheLast(U, before) == {before[u] : u \in U} = {0} \cup (U \ {Max(U)})

(* Such numbers do form a chain: no two name the same one.                   *)
LEMMA NumbersChain ==
  ASSUME NEW n \in Nat, NEW U \in SUBSET (1..n), U # {}, NEW before,
         NamesTheOneBefore(U, before)
  PROVE  /\ NamesAllButTheLast(U, before)
         /\ \A u, v \in U : before[u] = before[v] => u = v
<1> PICK last : last = Max(U)
  OBVIOUS
<1>1. last \in U /\ \A u \in U : u <= last
  <2>1. U \in SUBSET (0..n)
    OBVIOUS
  <2> QED
    BY <2>1, MaxExists
<1>2. \A u \in U : u \in Nat /\ u > 0
  OBVIOUS
<1>3. ASSUME NEW u \in U PROVE before[u] = 0 \/ (before[u] \in U /\ before[u] < u)
  BY DEF NamesTheOneBefore, IsNewestOf
<1>4. ASSUME NEW u \in U, NEW v \in U, v < u
      PROVE  before[u] \in U /\ before[u] < u /\ v <= before[u]
  <2>1. v \in {w \in U : w < u}
    BY <1>4
  <2> QED
    BY <2>1 DEF NamesTheOneBefore, IsNewestOf
<1>5. ASSUME NEW u \in U PROVE before[u] \in {0} \cup (U \ {last})
  <2>1. ASSUME before[u] \in U, before[u] < u PROVE before[u] # last
    <3>1. u <= last /\ u \in Nat /\ last \in Nat
      BY <1>1, <1>2
    <3> QED
      BY <2>1, <3>1
  <2> QED
    BY <1>3, <2>1
<1>6. \E u \in U : before[u] = 0
  <2>1. U \in SUBSET Nat
    BY <1>2
  <2> PICK first \in U : \A u \in U : first <= u
    BY <2>1, FirstExists
  <2>2. before[first] \in U /\ before[first] < first => FALSE
    <3> SUFFICES ASSUME before[first] \in U, before[first] < first PROVE FALSE
      OBVIOUS
    <3>1. first <= before[first] /\ first \in Nat /\ before[first] \in Nat
      BY <1>2
    <3> QED
      BY <3>1
  <2> QED
    BY <1>3, <2>2
<1>7. ASSUME NEW v \in U, v # last PROVE \E u \in U : before[u] = v
  <2> DEFINE Later == {u \in U : v < u}
  <2>1. Later \in SUBSET Nat
    BY <1>2
  <2>2. last \in Later
    <3>1. v <= last /\ v \in Nat /\ last \in Nat
      BY <1>1, <1>2
    <3> QED
      BY <1>1, <1>7, <3>1
  <2> PICK u \in Later : \A w \in Later : u <= w
    <3> HIDE DEF Later
    <3> QED
      BY <2>1, <2>2, FirstExists
  <2>3. u \in U /\ v < u /\ v \in U
    OBVIOUS
  <2>4. before[u] \in U /\ before[u] < u /\ v <= before[u]
    BY <1>4, <2>3
  <2>5. v < before[u] => u <= before[u]
    BY <2>4
  <2> HIDE DEF Later
  <2>6. u \in Nat /\ v \in Nat /\ before[u] \in Nat
    BY <1>2, <2>3, <2>4
  <2>7. before[u] = v
    BY <2>4, <2>5, <2>6
  <2> QED
    BY <2>3, <2>7
<1>8. ASSUME NEW u \in U, NEW v \in U, before[u] = before[v], u < v PROVE FALSE
  <2>1. before[v] \in U /\ u <= before[v]
    BY <1>4, <1>8
  <2>2. before[u] # 0
    BY <1>2, <1>8, <2>1
  <2>3. before[u] < u
    BY <1>3, <2>2
  <2>4. u \in Nat /\ before[v] \in Nat
    BY <1>2, <2>1
  <2> QED
    BY <1>8, <2>1, <2>3, <2>4
<1>9. ASSUME NEW u \in U, NEW v \in U, before[u] = before[v] PROVE u = v
  <2>1. u \in Nat /\ v \in Nat
    BY <1>2
  <2>2. ~(u < v) /\ ~(v < u)
    BY <1>8, <1>9
  <2> QED
    BY <2>1, <2>2
<1>10. {before[u] : u \in U} = {0} \cup (U \ {last})
  BY <1>5, <1>6, <1>7
<1> QED
  BY <1>9, <1>10 DEF NamesAllButTheLast

(* What different numbers stand for is as many as they are.                  *)
LEMMA AsManyNames ==
  ASSUME NEW U, IsFiniteSet(U), NEW f, \A u, v \in U : f[u] = f[v] => u = v
  PROVE  Cardinality({f[u] : u \in U}) = Cardinality(U)
<1> DEFINE T == {f[u] : u \in U}
           g == [u \in U |-> f[u]]
<1>1. g \in Bijection(U, T)
  BY DEF Bijection, Injection, IsInjective, Surjection
<1>2. ExistsBijection(U, T)
  BY <1>1 DEF ExistsBijection
<1> QED
  BY <1>2, FS_Bijection

(* The prompts on the active path: the one before a prompt is the nearest    *)
(* above it, and the newest is the turn the leaf is in.                      *)
LEMMA ActivePrompts ==
  ASSUME TypeOK, AlwaysRestorable, NEW U, U = Users \cap On(leaf)
  PROVE  /\ U \subseteq 1..Len(entries)
         /\ NamesTheOneBefore(U, NearestUser)
         /\ \A w \in U : (\A u \in U : u <= w) => leaf \in OwnEntries(w)
<1>1. /\ leaf \in Ids \cup {0} /\ Len(entries) \in Nat
      /\ On(leaf) \subseteq 1..leaf /\ On(leaf) \subseteq Ids
  BY ParentsAreOlder, OnPath
<1>2. ASSUME NEW u \in U PROVE IsNewestOf({v \in U : v < u}, NearestUser[u])
  <2>1. u \in Ids /\ u \in On(leaf)
    BY <1>1
  <2> PICK p : p = entries[u].parent
    OBVIOUS
  <2>2. p \in Ids \cup {0} /\ p < u /\ p \in Nat
    BY <2>1, ParentsAreOlder DEF Ids
  <2>3. On(u) = On(p) \cup {u} /\ On(p) \subseteq 1..p
    BY <2>1, <2>2, OnPath
  <2>4. On(u) = On(leaf) \cap (1..u)
    BY <1>1, <2>1, PathsNest
  <2>5. u \in Nat
    BY <2>1, ParentsAreOlder
  <2>6. \A v : v \in On(p) <=> v \in On(leaf) /\ v \in 1..u /\ v # u
    BY <2>2, <2>3, <2>4, <2>5
  <2>7. \A v \in On(leaf) : v \in 1..u /\ v # u <=> v < u
    BY <1>1, <2>5
  <2>8. Users \cap On(p) = {v \in U : v < u}
    BY <2>6, <2>7
  <2> QED
    BY <2>1, <2>8, NearestIsNewest
<1>3. ASSUME NEW w \in U, \A u \in U : u <= w PROVE leaf \in OwnEntries(w)
  <2>1. leaf \in Ids
    BY <1>1, OnPath
  <2>2. On(leaf) = On(entries[leaf].parent) \cup {leaf}
    BY <2>1, OnPath
  <2>3. w \in Nat /\ leaf \in Nat /\ w <= leaf
    BY <1>1, <2>1, ParentsAreOlder
  <2>4. CASE leaf \in Users
    <3>1. leaf \in U
      BY <2>2, <2>4
    <3>2. leaf = w
      BY <1>3, <2>3, <3>1
    <3> QED
      BY <3>2 DEF OwnEntries
  <2>5. CASE leaf \notin Users
    <3>1. U = Users \cap On(entries[leaf].parent)
      BY <2>2, <2>5
    <3>2. IsNewestOf(U, NearestUser[leaf])
      BY <2>1, <3>1, NearestIsNewest
    <3>3. NearestUser[leaf] \in U /\ w <= NearestUser[leaf] /\ NearestUser[leaf] <= w
      BY <1>3, <3>2 DEF IsNewestOf
    <3>4. NearestUser[leaf] \in Nat
      BY <1>1, <3>3
    <3>5. NearestUser[leaf] = w
      BY <2>3, <3>3, <3>4
    <3> QED
      BY <2>1, <2>5, <3>5 DEF OwnEntries
  <2> QED
    BY <2>4, <2>5
<1> QED
  BY <1>1, <1>2, <1>3 DEF Ids, NamesTheOneBefore

(* The active turns are one chain up to the first prompt, and the last of    *)
(* them shows the very conversation the model goes on with.                  *)
THEOREM ActiveTurnsChain == Spec => []ActiveChain
<1>1. TreeInv => ActiveChain
  <2> DEFINE active == {n \in Nodes : n.active}
             newest == CHOOSE n \in active : \A m \in active : m.id <= n.id
             U == Users \cap On(leaf)
             parents == {n.parent_id : n \in active}
  <2> SUFFICES ASSUME TreeInv, active # {}
               PROVE  /\ parents = {0} \cup {n.id : n \in active \ {newest}}
                      /\ Cardinality(parents) = Cardinality(active)
                      /\ newest.continue_entry_id = leaf
                      /\ newest.messages = OfKind(ToSet(PathTo[leaf]), {"user", "assistant"})
    BY DEF ActiveChain
  <2>1. TypeOK /\ AlwaysRestorable /\ Len(entries) \in Nat
    BY ParentsAreOlder DEF TreeInv
  <2>2. /\ U \subseteq 1..Len(entries)
        /\ NamesTheOneBefore(U, NearestUser)
        /\ \A w \in U : (\A u \in U : u <= w) => leaf \in OwnEntries(w)
    BY <2>1, ActivePrompts
  <2>0. \A u : /\ Node(u).id = u /\ Node(u).parent_id = NearestUser[u]
                /\ Node(u).active = (u \in On(leaf))
    BY NodeFields
  <2>3. active = {Node(u) : u \in U}
    BY <2>0 DEF Nodes
  <2> HIDE DEF active, U
  <2>4. U # {}
    BY <2>3
  <2> PICK w : w = Max(U)
    OBVIOUS
  <2>5. w \in U /\ \A u \in U : u <= w
    <3>1. U \in SUBSET (0..Len(entries))
      BY <2>1, <2>2
    <3> QED
      BY <2>1, <2>4, <3>1, MaxExists
  <2>6. /\ {NearestUser[u] : u \in U} = {0} \cup (U \ {w})
        /\ \A u, v \in U : NearestUser[u] = NearestUser[v] => u = v
    <3> PICK before : before = NearestUser
      OBVIOUS
    <3> PICK n : n = Len(entries)
      OBVIOUS
    <3>1. n \in Nat /\ U \in SUBSET (1..n) /\ U # {}
      BY <2>1, <2>2, <2>4
    <3>2. NamesTheOneBefore(U, before)
      BY <2>2
    <3>3. \A a, b \in U : before[a] = before[b] => a = b
      BY <3>1, <3>2, NumbersChain
    <3>4. NamesAllButTheLast(U, before)
      BY <3>1, <3>2, NumbersChain
    <3>5. {before[u] : u \in U} = {0} \cup (U \ {w})
      BY <3>4 DEF NamesAllButTheLast
    <3> QED
      BY <3>3, <3>5
  <2>7. newest = Node(w)
    <3>1. Node(w) \in active /\ \A m \in active : m.id <= Node(w).id
      BY <2>3, <2>5, <2>0
    <3>2. newest \in active /\ \A m \in active : m.id <= newest.id
      BY <3>1
    <3> HIDE DEF newest
    <3> PICK u \in U : newest = Node(u)
      BY <2>3, <3>2
    <3>3. w <= u /\ u <= w /\ u \in Nat /\ w \in Nat
      BY <2>2, <2>5, <3>1, <3>2, <2>0
    <3> QED
      BY <3>3
  <2> HIDE DEF newest
  <2>8. parents = {NearestUser[u] : u \in U}
    BY <2>3, <2>0
  <2>9. {n.id : n \in active \ {newest}} = U \ {w}
    BY <2>3, <2>5, <2>7, <2>0
  <2>10. Cardinality(parents) = Cardinality(active)
    <3> DEFINE f == [u \in U |-> Node(u)]
               g == [u \in U |-> NearestUser[u]]
    <3>1. IsFiniteSet(U)
      <4>1. IsFiniteSet(1..Len(entries))
        BY <2>1, FS_Interval
      <4> QED
        BY <2>2, <4>1, FS_Subset
    <3>2. Cardinality({f[u] : u \in U}) = Cardinality(U)
      <4>1. \A u, v \in U : f[u] = f[v] => u = v
        BY <2>0
      <4> HIDE DEF f
      <4> QED
        BY <3>1, <4>1, AsManyNames
    <3>3. Cardinality({g[u] : u \in U}) = Cardinality(U)
      <4>1. \A u, v \in U : g[u] = g[v] => u = v
        BY <2>6
      <4> HIDE DEF g
      <4> QED
        BY <3>1, <4>1, AsManyNames
    <3>4. {f[u] : u \in U} = active /\ {g[u] : u \in U} = parents
      BY <2>3, <2>8
    <3> QED
      BY <3>2, <3>3, <3>4
  <2>11. newest.continue_entry_id = leaf /\ newest.messages = OfKind(On(leaf), {"user", "assistant"})
    <3>1. Anchor(OwnEntries(w)) = leaf
      BY <2>2, <2>5 DEF Anchor
    <3> QED
      BY <2>7, <3>1, NodeFields DEF Shown
  <2> QED
    BY <2>6, <2>8, <2>9, <2>10, <2>11 DEF On
<1> QED
  BY <1>1, TurnInvInitially, TreeInvStep, PTL DEF Spec
=============================================================================
