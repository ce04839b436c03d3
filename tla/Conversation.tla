---------------------------- MODULE Conversation ----------------------------
(*****************************************************************************)
(* What browser chat promises to its clients (specs 0007 and 0017), with no  *)
(* word of objects, connections, checkpoints or rows: a conversation a       *)
(* client may open and read only grows; a turn reported complete stays in    *)
(* it; when the server stops, the end of a conversation may be lost, but     *)
(* never a turn that was reported; and a DELETE takes it away for good.      *)
(*****************************************************************************)
EXTENDS Naturals, SequencesExt

CONSTANTS
  Ids,     \* session ids
  NoConversation

VARIABLES
  up,      \* the server runs
  shown,   \* what opening a session shows, the turn of each entry in order
  acked,   \* the turns reported complete
  removed  \* the sessions a client asked to delete

vars == <<up, shown, acked, removed>>

Init ==
  /\ up = TRUE
  /\ shown = [i \in Ids |-> NoConversation]
  /\ acked = [i \in Ids |-> {}]
  /\ removed = {}

Exists(i) == shown[i] # NoConversation
Others(i) == \A j \in Ids \ {i} : shown'[j] = shown[j] /\ acked'[j] = acked[j]

(* The conversation begins, or goes on from where it was; a turn that is     *)
(* reported is in it.                                                        *)
Talk(i) ==
  /\ up
  /\ i \notin removed
  /\ shown'[i] # NoConversation
  /\ Exists(i) => IsPrefix(shown[i], shown'[i])
  /\ acked[i] \subseteq acked'[i]
  /\ acked'[i] \subseteq acked[i] \cup ToSet(shown'[i])
  /\ Others(i)
  /\ UNCHANGED <<up, removed>>

Withdraw(i) ==
  /\ up
  /\ removed' = removed \cup {i}
  /\ shown'[i] = NoConversation /\ acked'[i] = {}
  /\ Others(i)
  /\ UNCHANGED up

(* The server is shut down or dies: of each conversation a beginning stays   *)
(* that holds every reported turn.                                           *)
Stop ==
  /\ up /\ ~up'
  /\ \A i \in Ids :
       \/ Exists(i) /\ shown'[i] # NoConversation
            /\ IsPrefix(shown'[i], shown[i]) /\ acked[i] \subseteq ToSet(shown'[i])
       \/ shown'[i] = NoConversation /\ acked[i] = {}
  /\ UNCHANGED <<acked, removed>>

Start == ~up /\ up' /\ UNCHANGED <<shown, acked, removed>>

Next == (\E i \in Ids : Talk(i) \/ Withdraw(i)) \/ Stop \/ Start

Spec == Init /\ [][Next]_vars
=============================================================================
