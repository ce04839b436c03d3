----------------------------- MODULE MCMiniPy -----------------------------
(* The instances of one MiniPy runtime:                                      *)
(* Loop  one turn after an optional compaction, two rounds of two calls,     *)
(*       aborts and abandonment at every point;                              *)
(* Tree  two turns and a compaction with forks to every entry and closes     *)
(*       and restores in between, one call per answer.                       *)
EXTENDS TurnGraph

Loop == [max_tool_rounds |-> 2, calls |-> 2, turns |-> 1, compactions |-> 1]
Tree == [max_tool_rounds |-> 1, calls |-> 1, turns |-> 2, compactions |-> 1]
MCInstances == {Loop, Tree}
=============================================================================
