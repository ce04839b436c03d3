--------------------------- MODULE ContextPolicy ---------------------------
(*****************************************************************************)
(* MemoryContextPolicy.prepare (memory/context.py): which confirmed memories *)
(* are put before a prompt, over every table MemoryStore can reach.          *)
(*                                                                           *)
(* Relevance is the full-text index's, so a search may return the confirmed  *)
(* rows that match in any order.  A text is its length.                      *)
(*****************************************************************************)
EXTENDS MemoryStore, Naturals, SequencesExt

CONSTANTS
  SearchLimit,   \* limit of search_confirmed: 50
  ItemLimit,     \* item_limit
  CharLimits,    \* the values of char_limit to look at
  Frame,         \* length of _HEADER and _FOOTER
  PrefixLength,  \* length of _render_prefix and "content: " of a memory
  ContentLength  \* length of its stripped content

ASSUME ContextAssumption ==
  /\ SearchLimit \in Nat /\ ItemLimit \in Nat \ {0}
  /\ Frame \in Nat /\ CharLimits \subseteq Nat /\ \A limit \in CharLimits : Frame < limit
  /\ PrefixLength \in [Memories -> Nat] /\ ContentLength \in [Memories -> Nat]

(* search_confirmed                                                          *)
SearchResults ==
  {result \in SetToAllKPermutations({m \in Stored : memories[m].status = "confirmed"}) :
     Len(result) <= SearchLimit}

Applies(m, session) ==
  \/ memories[m].scope = "global"
  \/ memories[m].scope = "session" /\ memories[m].source_session_id = session

Eligible(result, session) ==
  FoldLeft(LAMBDA kept, m : IF Applies(m, session) THEN Append(kept, m) ELSE kept,
           <<>>, result)

First(seq, k) == SubSeq(seq, 1, Min({k, Len(seq)}))

Separator == 2  \* the empty line between two blocks

Block(m) == PrefixLength[m] + ContentLength[m]

(* The length of the text when one more block is joined to it.               *)
Joined(selection, block) ==
  IF selection.ids = <<>> THEN Frame + block
  ELSE selection.length + Separator + block

Nothing == [ids |-> <<>>, length |-> 0, truncated |-> FALSE, stop |-> FALSE]

\* fault: the ellipsis does not count
ClippedTooLong(m, limit) ==
  LET allowance == limit - (Frame + PrefixLength[m])
  IN Frame + PrefixLength[m] + Min({ContentLength[m], allowance}) + 1

(* The length of the text with one memory, its content cut to leave room for *)
(* an ellipsis.  (It may be shorter by the blanks before the cut.)           *)
Clipped(m, limit) ==
  LET allowance == limit - (Frame + PrefixLength[m])
  IN Frame + PrefixLength[m] + Min({ContentLength[m], allowance - 1}) + 1

(* One pass of the selection loop.                                           *)
Pick(selection, m, limit) ==
  LET joined == Joined(selection, Block(m))
  IN CASE selection.stop -> selection
       [] ~selection.stop /\ joined <= limit ->
            [selection EXCEPT !.ids = Append(@, m), !.length = joined]
       [] /\ ~selection.stop /\ joined > limit
          /\ selection.ids = <<>> /\ limit > Frame + PrefixLength[m] + 1 ->
            [ids |-> <<m>>, length |-> Clipped(m, limit), truncated |-> TRUE, stop |-> TRUE]
       [] OTHER -> [selection EXCEPT !.stop = TRUE]

Prepare(result, session, limit) ==
  FoldLeft(LAMBDA selection, m : Pick(selection, m, limit), Nothing,
           First(Eligible(result, session), ItemLimit))

-----------------------------------------------------------------------------
(* What is selected for a session with a given search result and budget.     *)
ForEachPrompt(P(_, _, _)) ==
  \A result \in SearchResults, session \in Sessions, limit \in CharLimits :
    P(Eligible(result, session), limit, Prepare(result, session, limit))

(* MEMCTX-005: the order of relevance decides, within the two budgets.  The  *)
(* selection is the longest beginning of the eligible memories that fits as  *)
(* a whole; a memory is cut only when it is the first and does not fit       *)
(* alone, and then the text with its ellipsis fits too.                      *)
MostRelevantFirst ==
  ForEachPrompt(LAMBDA eligible, limit, selection :
    LET Total(k) == FoldLeft(LAMBDA total, m : total + Separator + Block(m),
                             Frame, First(eligible, k)) - Separator
        fitting == {k \in 1..Len(First(eligible, ItemLimit)) : Total(k) <= limit}
    IN /\ selection.length <= limit
       /\ selection.ids = First(eligible, Len(selection.ids))
       /\ IF selection.truncated
          THEN fitting = {} /\ Len(selection.ids) = 1
          ELSE Len(selection.ids) = Cardinality(fitting))
=============================================================================
