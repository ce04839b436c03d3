------------------------------ MODULE MCPiRpc ------------------------------
(* Two prompts and a command over one Pi process and its successor: enough   *)
(* for a stream after an abandoned one, a command beside a stream, and a     *)
(* marker that outlives its process.                                         *)
EXTENDS PiRpc
CONSTANTS p1, p2, c1, none

MCRequests == {p1, p2, c1}
MCPrompts == {p1, p2}
=============================================================================
