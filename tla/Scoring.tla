------------------------------ MODULE Scoring ------------------------------
(*****************************************************************************)
(* What an evaluation case expects (evaluations/models.py) and how           *)
(* TraceEvaluator._checks (evaluations/service.py) holds a trace against it. *)
(*                                                                           *)
(* A list of expectations is a set: normalisation drops repeated values.     *)
(* A trace is what the checks look at: the run's status and duration (a      *)
(* clock that ran backwards counts as 0), its tool executions, the           *)
(* context_injection events, and the set of texts its answer contains,       *)
(* letter case folded.  Scores and thresholds are fractions <<n, d>>.        *)
(*****************************************************************************)
EXTENDS Naturals, Sequences, FiniteSets

CONSTANT None  \* an expectation not set, a value not known

TerminalStatuses == {"completed", "failed", "aborted"}

NoExpectations ==
  [required_tools |-> {}, forbidden_tools |-> {}, max_tool_calls |-> None,
   max_duration_ms |-> None, require_citation_validation |-> FALSE,
   answer_contains |-> {}, terminal_status |-> None, context_status |-> None,
   required_memory_ids |-> {}, forbidden_memory_ids |-> {},
   max_context_items |-> None]

(* What every EvaluationExpectations is, valid or not.                       *)
IsExpectations(expected) ==
  /\ expected = [field \in DOMAIN NoExpectations |-> expected[field]]
  /\ \A field \in {"required_tools", "forbidden_tools", "answer_contains",
                  "required_memory_ids", "forbidden_memory_ids"} :
       IsFiniteSet(expected[field])
  /\ expected.require_citation_validation \in BOOLEAN

(* validate_expectations *)
ValidExpectations(expected) ==
  /\ expected.required_tools \cap expected.forbidden_tools = {}
  /\ expected.required_memory_ids \cap expected.forbidden_memory_ids = {}
  /\ expected # NoExpectations

\* fault: of several events the first is taken
ContextObservationFirst(trace) ==
  IF trace.injections # <<>> /\ Head(trace.injections).well_formed
  THEN [valid |-> TRUE, status |-> Head(trace.injections).status,
        selected_ids |-> Head(trace.injections).selected_ids]
  ELSE [valid |-> FALSE, status |-> None, selected_ids |-> {}]

(* _context_observation: usable evidence is exactly one well-formed event.   *)
ContextObservation(trace) ==
  IF Len(trace.injections) = 1 /\ trace.injections[1].well_formed
  THEN [valid |-> TRUE, status |-> trace.injections[1].status,
        selected_ids |-> trace.injections[1].selected_ids]
  ELSE [valid |-> FALSE, status |-> None, selected_ids |-> {}]

(* _checks, one for each expectation that is set.                            *)
OneCheck(kind, configured, passed) ==
  IF configured THEN {[id |-> <<kind>>, passed |-> passed]} ELSE {}
CheckEach(kind, subjects, Passed(_)) ==
  {[id |-> <<kind, s>>, passed |-> Passed(s)] : s \in subjects}

ContextChecks(expected, context) ==
  OneCheck("context_status", expected.context_status # None,
           context.valid /\ context.status = expected.context_status)
  \cup CheckEach("required_memory", expected.required_memory_ids,
                 LAMBDA m : context.valid /\ m \in context.selected_ids)
  \cup CheckEach("forbidden_memory", expected.forbidden_memory_ids,
                 LAMBDA m : context.valid /\ m \notin context.selected_ids)
  \cup OneCheck("context_item_limit", expected.max_context_items # None,
                context.valid
                /\ Cardinality(context.selected_ids) <= expected.max_context_items)

AnswerChecks(expected, answer) ==
  CheckEach("answer_contains", expected.answer_contains, LAMBDA text : text \in answer)

Checks(expected, trace) ==
  LET Executed(name) == {i \in DOMAIN trace.tools : trace.tools[i].name = name}
      Succeeded(name) == {i \in Executed(name) : trace.tools[i].is_error = FALSE}
  IN OneCheck("run_status", expected.terminal_status # None,
              trace.status = expected.terminal_status)
     \cup CheckEach("required_tool", expected.required_tools,
                    LAMBDA name : Succeeded(name) # {})
     \cup CheckEach("forbidden_tool", expected.forbidden_tools,
                    LAMBDA name : Executed(name) = {})
     \cup OneCheck("tool_call_limit", expected.max_tool_calls # None,
                   Len(trace.tools) <= expected.max_tool_calls)
     \cup OneCheck("duration_limit", expected.max_duration_ms # None,
                   trace.duration_ms <= expected.max_duration_ms)
     \cup OneCheck("citation_validation", expected.require_citation_validation,
                   \E i \in Succeeded("validate_citation") : trace.tools[i].valid)
     \cup ContextChecks(expected, ContextObservation(trace))
     \cup AnswerChecks(expected, trace.answer)

Score(checks) == <<Cardinality({c \in checks : c.passed}), Cardinality(checks)>>
Meets(score, threshold) == score[1] * threshold[2] >= threshold[1] * score[2]
Lower(score, previous) == score[1] * previous[2] < previous[1] * score[2]
=============================================================================
