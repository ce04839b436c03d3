--------------------------- MODULE MCEvaluations ---------------------------
(* Two cases, one suite, two requests; a strict case on the tools, and one   *)
(* on the memories with a low threshold; a trace that meets all of both, and *)
(* an aborted one that reports its memories twice and passes only the second.*)
EXTENDS Evaluations

CONSTANTS c1, c2, s1, w1, w2, m1, m2

MCCases == {c1, c2}
MCSuites == {s1}
TwoWorkers == {w1, w2}
Symmetric == Permutations(Workers)

OnTools == [expectations |-> [NoExpectations EXCEPT !.required_tools = {"search"},
                                                    !.max_tool_calls = 1,
                                                    !.terminal_status = "completed"],
            pass_threshold |-> <<1, 1>>]
OnMemory == [expectations |-> [NoExpectations EXCEPT !.required_memory_ids = {m1},
                                                     !.forbidden_memory_ids = {m2},
                                                     !.context_status = "selected",
                                                     !.max_context_items = 1,
                                                     !.answer_contains = {"yes"}],
             pass_threshold |-> <<1, 5>>]
Contradiction == [expectations |-> [NoExpectations EXCEPT !.required_tools = {"search"},
                                                          !.forbidden_tools = {"search"}],
                  pass_threshold |-> <<1, 1>>]
MCInputs == {OnTools, OnMemory, Contradiction}

Search == [name |-> "search", is_error |-> FALSE, valid |-> FALSE]
Selected == [well_formed |-> TRUE, status |-> "selected", selected_ids |-> {m1}]
Good == [status |-> "completed", duration_ms |-> 1, tools |-> <<Search>>,
         injections |-> <<Selected>>, answer |-> {"yes"}]
Bad == [Good EXCEPT !.status = "aborted", !.tools = <<Search, Search>>,
                    !.injections = <<Selected, Selected>>]
MCTraces == {Good, Bad}

(* The stored suite has both cases, or one while the other does not exist. *)
MCInit == /\ Init
          /\ cases[c1] = OnTools
          /\ \/ cases[c2] = OnMemory /\ suites[s1] = <<c1, c2>>
             \/ cases[c2] = None /\ suites[s1] = <<c1>>
MCSpec == MCInit /\ [][Next]_vars
=============================================================================
