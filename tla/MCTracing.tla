----------------------------- MODULE MCTracing -----------------------------
(* A wrapped session that may grow by one entry: two runs of two events, and *)
(* one of four, with one tool call id; one of three with two of them.        *)
EXTENDS Parity, TLC

CONSTANTS c1, c2

MCCalls == {c1, c2}
MCInstances == {[calls |-> {c1}, runs |-> 2, events |-> 2],
                [calls |-> {c1}, runs |-> 1, events |-> 4],
                [calls |-> {c1, c2}, runs |-> 1, events |-> 3]}
=============================================================================
