----------------------------- MODULE TurnGraph -----------------------------
(*****************************************************************************)
(* project_turn_graph (sessions/turn_graph.py): the entry tree of a MiniPy   *)
(* session as a graph of user turns, over every tree MiniPy can reach.       *)
(*                                                                           *)
(* A node is named by its user entry; 0 is None.  Entries stand for their    *)
(* contents, and every assistant entry has a text.                           *)
(*****************************************************************************)
EXTENDS MiniPy, SequencesExt

Users == {e \in Ids : entries[e].kind = "user"}

(* nearest_user: the closest user entry above an entry.                      *)
NearestUser[e \in Ids] ==
  LET parent == entries[e].parent
  IN IF parent = 0 \/ parent \in Users THEN parent ELSE NearestUser[parent]

\* fault: only the active branch is searched
OwnEntriesActive(u) == {u} \cup {e \in ToSet(PathTo[leaf]) \ Users : NearestUser[e] = u}

(* turn_entries: a user entry and what hangs below it before the next user,  *)
(* on whatever branch.                                                       *)
OwnEntries(u) == {u} \cup {e \in Ids \ Users : NearestUser[e] = u}

\* fault: a turn is always continued at its newest entry
AnchorNewest(own) == Max(own)

(* Where a turn is continued: at the leaf if that is in the turn, else at    *)
(* the last of its entries in the log.                                       *)
Anchor(own) == IF leaf \in own THEN leaf ELSE Max(own)

OfKind(es, kinds) == {e \in es : entries[e].kind \in kinds}

Node(u) ==
  LET own == OwnEntries(u)
      path == ToSet(PathTo[Anchor(own)])
  IN [id |-> u,
      parent_id |-> NearestUser[u],
      continue_entry_id |-> Anchor(own),
      messages |-> OfKind(path, {"user", "assistant"}),
      answer |-> OfKind(own \cap path, {"assistant"}),
      tools |-> OfKind(own \cap path, {"tool"}),
      other_answers |-> OfKind(own \ path, {"assistant"}),
      active |-> u \in ToSet(PathTo[leaf])]

Nodes == {Node(u) : u \in Users}

-----------------------------------------------------------------------------
(* The projection depends on the tree alone, and a turn can be abandoned     *)
(* after each of its entries: to look at it when no turn runs is to look at  *)
(* it over every tree.                                                       *)
Quiet == life = "started" /\ ~Running

(* GRAPH-002 and GRAPH-004: no answer of the model is lost or shown twice,   *)
(* on whatever branch it is, and a tool result is shown by the turn that     *)
(* shows the answer that asked for it.                                       *)
EveryAnswerOnce ==
  Quiet => LET nodes == Nodes
           IN /\ \A a \in OfKind(Ids, {"assistant"}) :
                   Cardinality({n \in nodes : a \in n.answer})
                     + Cardinality({n \in nodes : a \in n.other_answers}) = 1
              /\ \A n \in nodes : \A t \in n.tools : entries[t].assistant \in n.answer

(* GRAPH-003: the active turns form one chain, each the parent of the next,  *)
(* and the last of them shows the conversation the model is continuing.      *)
ActiveChain ==
  Quiet =>
    LET active == {n \in Nodes : n.active}
        newest == CHOOSE n \in active : \A m \in active : m.id <= n.id
    IN active # {} =>
         /\ {n.parent_id : n \in active} = {0} \cup {n.id : n \in active \ {newest}}
         /\ Cardinality({n.parent_id : n \in active}) = Cardinality(active)
         /\ newest.continue_entry_id = leaf
         /\ newest.messages = OfKind(ToSet(PathTo[leaf]), {"user", "assistant"})
=============================================================================
