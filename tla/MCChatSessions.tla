--------------------------- MODULE MCChatSessions ---------------------------
(* One session id, as ids never share state; two objects, so that a closing  *)
(* object and its successor can be alive together; two connections and one   *)
(* or two deletes.  The cfgs differ in their bounds.                         *)
(*                                                                           *)
(* ChatSafety also bounds what comes together: of a refused write, a crash,  *)
(* a compact or fork, and the DELETEs in progress, no four at a time.        *)
EXTENDS ChatSessions

CONSTANTS i1, o1, o2, w1, w2, d1, d2

MCIds == {i1}
TwoObjects == {o1, o2}
OneSocket == {w1}
TwoSockets == {w1, w2}
OneDelete == {d1}
TwoDeletes == {d1, d2}
Together ==
  used.faults + used.crashes + used.commands
    + Cardinality({d \in Deletes : del[d].phase # "off"}) <= 3
Symmetric == Permutations(Objects) \cup Permutations(Sockets) \cup Permutations(Deletes)
=============================================================================
