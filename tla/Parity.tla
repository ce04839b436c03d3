------------------------------ MODULE Parity ------------------------------
(*****************************************************************************)
(* RuntimeParityService (traces/parity.py): what of a recorded run is kept   *)
(* when two runs are compared, over every timeline Tracing can record.       *)
(*                                                                           *)
(* The result a tool ended with, and a piece of the assistant's text, are    *)
(* told apart by the sequence number of their event.  Tool names, context    *)
(* statuses and the wording of a check are left out.                         *)
(*****************************************************************************)
EXTENDS Tracing

LifecycleTypes == Types \ {"message"}

\* fault: an update is the continuation of the event before it
LifecycleAdjacent(events) ==
  LET Kept(i) == /\ events[i].type \in LifecycleTypes
                 /\ ~(events[i].type = "message_update" /\ i > 1
                        /\ events[i - 1].type = "message_update")
      kept == SetToSortSeq({i \in DOMAIN events : Kept(i)}, <)
  IN [k \in DOMAIN kept |-> events[kept[k]].type]

(* _lifecycle: the types of the live events, where updates that follow one   *)
(* another count as one.                                                     *)
Lifecycle(events) ==
  LET Step(kept, event) ==
        IF \/ event.type \notin LifecycleTypes
           \/ event.type = "message_update" /\ kept # <<>> /\ Last(kept) = event.type
        THEN kept ELSE Append(kept, event.type)
  IN FoldLeft(Step, <<>>, events)

(* _tool_outcomes: one for each call id, where it was first seen, with its   *)
(* last end.                                                                 *)
OutcomesAfter(outcomes, event, sequence) ==
  LET at == {i \in DOMAIN outcomes : outcomes[i].call = event.call}
  IN CASE event.type = "tool_execution_start" /\ at = {} ->
            Append(outcomes, [call |-> event.call, ended |-> 0])
       [] event.type = "tool_execution_end" /\ at = {} ->
            Append(outcomes, [call |-> event.call, ended |-> sequence])
       [] event.type = "tool_execution_end" /\ at # {} ->
            [i \in DOMAIN outcomes |->
               IF i \in at THEN [outcomes[i] EXCEPT !.ended = sequence] ELSE outcomes[i]]
       [] OTHER -> outcomes

ToolOutcomes(events) ==
  LET Step(outcomes, i) == OutcomesAfter(outcomes, events[i], i)
  IN FoldLeftDomain(Step, <<>>, events)

(* snapshot; of the text, the pieces it is joined from.                      *)
Snapshot(run) ==
  [terminal_status |-> run.status,
   lifecycle |-> Lifecycle(run.events),
   tools |-> ToolOutcomes(run.events),
   assistant_text |-> Positions(run, LAMBDA e : e.type = "message_update")]

(* compare: the checks two runs fail.                                        *)
Ends(tools) == [i \in DOMAIN tools |-> tools[i].ended # 0]

Differences(left, right) ==
  {check \in {"terminal_status", "lifecycle", "tool_outcomes",
              "assistant_output_present"} :
     CASE check = "terminal_status" -> left.terminal_status # right.terminal_status
       [] check = "lifecycle" -> left.lifecycle # right.lifecycle
       [] check = "tool_outcomes" -> Ends(left.tools) # Ends(right.tools)
       [] OTHER -> (left.assistant_text = {}) # (right.assistant_text = {})}

-----------------------------------------------------------------------------
(* PARITY-002 and 0019 design, "entry-replay rows are excluded": wherever in *)
(* its timeline entries were filed, a run is like itself without them.  And  *)
(* its tools are those of its tool rows, which another piece of code         *)
(* projects from the same events one at a time: one outcome for each row,    *)
(* with the row's result, in the order in which they were first seen.        *)
Unsynchronised(run) ==
  [run EXCEPT !.events =
     FoldLeft(LAMBDA kept, e : IF e.key = 0 THEN Append(kept, e) ELSE kept, <<>>, @)]

ParityTellsTheRun ==
  \A r \in DOMAIN runs :
    LET tools == ToolOutcomes(runs[r].events)
        First(c) == Min(Positions(runs[r], LAMBDA e : e.call = c))
    IN /\ Differences(Snapshot(runs[r]), Snapshot(Unsynchronised(runs[r]))) = {}
       /\ {tools[i].call : i \in DOMAIN tools}
            = {c \in Calls : runs[r].tools[c] # [started |-> 0, ended |-> 0]}
       /\ \A i \in DOMAIN tools : tools[i].ended = runs[r].tools[tools[i].call].ended
       /\ \A i, j \in DOMAIN tools : i < j => First(tools[i].call) < First(tools[j].call)
=============================================================================
