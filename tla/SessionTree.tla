---------------------------- MODULE SessionTree ----------------------------
(*****************************************************************************)
(* What a session promises whoever stores it, forks it or draws it: a tree   *)
(* that only grows, and a leaf from which it grows.                          *)
(*                                                                           *)
(* The tree is SessionTree (sessions/tree.py): an entry is taken once, under *)
(* no parent or under one that is there.  The leaf and its moves are the     *)
(* runtime's fork.  children and roots are sets: their lists are in the      *)
(* order of the appends, which the ids tell as well.  0 is None.             *)
(*****************************************************************************)
EXTENDS Naturals

VARIABLES
  nodes,  \* nodes: from an id to its entry, the parent and the children
  roots,  \* roots
  leaf    \* the entry the next one goes under

vars == <<nodes, roots, leaf>>

NoParent == 0

Init == DOMAIN nodes = {} /\ roots = {} /\ leaf = NoParent

SessionNode(parent, entry, children) ==
  [parent |-> parent, entry |-> entry, children |-> children]

(* append: the entry becomes a node, and a child of its parent or a root.    *)
NodesAfter(id, parent, entry) ==
  [n \in DOMAIN nodes \cup {id} |->
     IF n = id THEN SessionNode(parent, entry, {})
     ELSE IF n # parent THEN nodes[n]
     ELSE SessionNode(nodes[n].parent, nodes[n].entry, nodes[n].children \cup {id})]

Grow(id, entry) ==
  /\ id \notin DOMAIN nodes \cup {NoParent}
  /\ leaf \in DOMAIN nodes \cup {NoParent}
  /\ nodes' = NodesAfter(id, leaf, entry)
  /\ roots' = IF leaf = NoParent THEN roots \cup {id} ELSE roots
  /\ leaf' = id

(* fork *)
Move == /\ leaf' \in DOMAIN nodes
        /\ UNCHANGED <<nodes, roots>>

(* An entry is whatever its node says it is.                                 *)
Next == \/ Grow(leaf', nodes'[leaf'].entry)
        \/ Move

Spec == Init /\ [][Next]_vars
=============================================================================
