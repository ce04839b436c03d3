------------------------- MODULE MemoryStoreProofs -------------------------
(*****************************************************************************)
(* What memory/repository.py keeps true of the memory table for any number   *)
(* of memories, kinds and sessions, in any order of reviewer calls; and what *)
(* memory/context.py selects from any such table.                            *)
(*****************************************************************************)
EXTENDS ContextPolicy, RecursionLemmas

(* The conjuncts of the inductive invariant: a link belongs to a superseded  *)
(* row, so a confirmed replacement has none of its own yet when supersede    *)
(* adds a link to it; without that a new link could close a ring.            *)
IInv == TypeOK /\ LinksAreSound /\ TrustBoundary /\ Acyclic

(* Every stored row stays a well-typed row of the table.                     *)
LEMMA TypeStep == TypeOK /\ [Next]_memories => TypeOK'
<1> SUFFICES ASSUME TypeOK, [Next]_memories PROVE TypeOK'
  OBVIOUS
<1> USE DEF TypeOK, Stored, Memory
<1>1. CASE UNCHANGED memories
  BY <1>1
<1>2. ASSUME NEW m \in Memories, NEW k \in Kinds, NEW sc \in Scopes,
             NEW s \in Sessions \cup {NoSession}, CreateCandidate(m, k, sc, s)
      PROVE  TypeOK'
  BY <1>2 DEF CreateCandidate, Statuses
<1>3. ASSUME NEW m \in Memories, NEW status \in {"confirmed", "rejected"},
             SetStatus(m, status)
      PROVE  TypeOK'
  BY <1>3 DEF SetStatus, Statuses
<1>4. ASSUME NEW m \in Memories, NEW r \in Memories, Supersede(m, r)
      PROVE  TypeOK'
  BY <1>4 DEF Supersede, Statuses
<1> QED
  BY <1>1, <1>2, <1>3, <1>4 DEF Next

(* The rows a migrated database brings have no replacement, so every part    *)
(* of the invariant about replacements holds of them.                        *)
LEMMA InitInvariant == Init => IInv
<1> SUFFICES ASSUME Init PROVE IInv
  OBVIOUS
<1>1. /\ Stored = Migrated
      /\ memories \in [Stored -> Memory]
      /\ \A m \in Stored : memories[m].superseded_by_id = NoMemory
  BY DEF Init, Stored
<1>2. TypeOK
  BY <1>1, MemoryAssumption DEF TypeOK
<1>3. LinksAreSound /\ TrustBoundary
  BY <1>1 DEF LinksAreSound, TrustBoundary
<1>4. Acyclic
  BY <1>1, MemoryAssumption DEF Acyclic
<1> QED
  BY <1>2, <1>3, <1>4 DEF IInv

(* A step removes no row, changes no kind, scope or owner, and touches the   *)
(* status and the link of a row only if that row was not superseded.         *)
LEMMA RowsSurvive ==
  ASSUME TypeOK, Next, NEW m \in Stored
  PROVE  /\ m \in Stored'
         /\ memories'[m].kind = memories[m].kind
         /\ memories'[m].scope = memories[m].scope
         /\ memories'[m].source_session_id = memories[m].source_session_id
         /\ memories[m].status = "superseded" => memories'[m] = memories[m]
         /\ memories[m].status # "candidate" => memories'[m].status # "candidate"
<1> DEFINE Survives ==
         /\ m \in Stored'
         /\ memories'[m].kind = memories[m].kind
         /\ memories'[m].scope = memories[m].scope
         /\ memories'[m].source_session_id = memories[m].source_session_id
         /\ memories[m].status = "superseded" => memories'[m] = memories[m]
         /\ memories[m].status # "candidate" => memories'[m].status # "candidate"
<1>1. ASSUME NEW x \in Memories, NEW k \in Kinds, NEW sc \in Scopes,
             NEW s \in Sessions \cup {NoSession}, CreateCandidate(x, k, sc, s)
      PROVE  Survives
  <2>1. m \in Stored' /\ memories'[m] = memories[m]
    BY <1>1 DEF CreateCandidate, Stored
  <2> QED
    BY <2>1
<1>2. ASSUME NEW x \in Memories, NEW status \in {"confirmed", "rejected"},
             SetStatus(x, status)
      PROVE  Survives
  BY <1>2 DEF SetStatus, TypeOK, Stored, Memory
<1>3. ASSUME NEW x \in Memories, NEW r \in Memories, Supersede(x, r)
      PROVE  Survives
  BY <1>3 DEF Supersede, MaySupersede, TypeOK, Stored, Memory
<1> QED
  BY <1>1, <1>2, <1>3 DEF Next

(* The three parts about replacements, one action at a time.                 *)
LEMMA ReplacementStep == IInv /\ [Next]_memories => LinksAreSound' /\ TrustBoundary' /\ Acyclic'
<1> SUFFICES ASSUME IInv, [Next]_memories
             PROVE  LinksAreSound' /\ TrustBoundary' /\ Acyclic'
  OBVIOUS
<1> DEFINE Link(m) == memories[m].superseded_by_id
<1>0. TypeOK /\ LinksAreSound /\ TrustBoundary /\ Acyclic
  BY DEF IInv
<1>1. CASE UNCHANGED memories
  BY <1>0, <1>1 DEF LinksAreSound, TrustBoundary, Acyclic, Stored
<1>2. ASSUME NEW x \in Memories, NEW k \in Kinds, NEW sc \in Scopes,
             NEW s \in Sessions \cup {NoSession}, CreateCandidate(x, k, sc, s)
      PROVE  LinksAreSound' /\ TrustBoundary' /\ Acyclic'
  <2>1. /\ Stored' = Stored \cup {x}
        /\ x \notin Stored
        /\ memories'[x].superseded_by_id = NoMemory
        /\ \A m \in Stored : memories'[m] = memories[m]
    BY <1>2 DEF CreateCandidate, Stored
  <2>2. LinksAreSound'
    BY <1>0, <2>1 DEF LinksAreSound
  <2>3. TrustBoundary'
    BY <1>0, <2>1 DEF TrustBoundary
  <2>4. ASSUME NEW S \in SUBSET Stored', S # {}
        PROVE  \E m \in S : memories'[m].superseded_by_id \notin S
    <3>1. CASE x \in S
      <4>1. NoMemory \notin S
        BY <2>1, <1>0, MemoryAssumption DEF TypeOK
      <4> QED
        BY <2>1, <3>1, <4>1
    <3>2. CASE x \notin S
      <4>1. PICK m \in S : Link(m) \notin S
        BY <1>0, <2>1, <2>4, <3>2 DEF Acyclic
      <4> QED
        BY <2>1, <3>2, <4>1, <2>4
    <3> QED
      BY <3>1, <3>2
  <2> QED
    BY <2>2, <2>3, <2>4 DEF Acyclic, Stored
<1>3. ASSUME NEW x \in Memories, NEW status \in {"confirmed", "rejected"},
             SetStatus(x, status)
      PROVE  LinksAreSound' /\ TrustBoundary' /\ Acyclic'
  <2>1. /\ Stored' = Stored
        /\ x \in Stored
        /\ memories[x].status # "superseded"
        /\ memories'[x].superseded_by_id = Link(x)
        /\ \A m \in Stored \ {x} : memories'[m] = memories[m]
    BY <1>0, <1>3 DEF SetStatus, Stored, TypeOK, Memory
  <2>2. \A m \in Stored : memories'[m].superseded_by_id = Link(m)
    BY <2>1
  <2>3. LinksAreSound'
    BY <1>0, <2>1, <2>2 DEF LinksAreSound
  <2>4. Next
    BY <1>3 DEF Next
  <2>5. TrustBoundary'
    BY <1>0, <2>1, <2>2, <2>4, RowsSurvive DEF TrustBoundary
  <2>6. Acyclic'
    BY <1>0, <2>1, <2>2 DEF Acyclic, Stored
  <2> QED
    BY <2>3, <2>5, <2>6
<1>4. ASSUME NEW x \in Memories, NEW r \in Memories, Supersede(x, r)
      PROVE  LinksAreSound' /\ TrustBoundary' /\ Acyclic'
  <2>1. /\ Stored' = Stored
        /\ x \in Stored /\ r \in Stored /\ x # r
        /\ MaySupersede(x, r)
        /\ memories'[x].status = "superseded"
        /\ memories'[x].superseded_by_id = r
        /\ \A m \in Stored \ {x} : memories'[m] = memories[m]
    BY <1>0, <1>4 DEF Supersede, Stored, TypeOK, Memory
  <2>2. LinksAreSound'
    BY <1>0, <2>1 DEF LinksAreSound
  <2>3. Next
    BY <1>4 DEF Next
  <2>4. TrustBoundary'
    BY <1>0, <2>1, <2>3, RowsSurvive DEF TrustBoundary, MaySupersede
  <2>5. Link(r) = NoMemory
    \* r is confirmed, and only superseded rows carry a link
    BY <1>0, <2>1 DEF LinksAreSound, MaySupersede
  <2>6. ASSUME NEW S \in SUBSET Stored, S # {}
        PROVE  \E m \in S : memories'[m].superseded_by_id \notin S
    <3>1. CASE r \in S
      <4>1. NoMemory \notin S
        BY <1>0, MemoryAssumption DEF TypeOK
      <4> QED
        BY <2>1, <2>5, <3>1, <4>1
    <3>2. CASE r \notin S /\ x \in S
      BY <2>1, <3>2
    <3>3. CASE x \notin S
      <4>1. PICK m \in S : Link(m) \notin S
        BY <1>0, <2>6 DEF Acyclic
      <4> QED
        BY <2>1, <3>3, <4>1
    <3> QED
      BY <3>1, <3>2, <3>3
  <2>7. Acyclic'
    BY <2>1, <2>6 DEF Acyclic, Stored
  <2> QED
    BY <2>2, <2>4, <2>7
<1> QED
  BY <1>1, <1>2, <1>3, <1>4 DEF Next

(* Every reviewer call preserves the invariant.                              *)
THEOREM InvariantStep == IInv /\ [Next]_memories => IInv'
  BY TypeStep, ReplacementStep DEF IInv

-----------------------------------------------------------------------------
(* Type correctness of the memory table.                                     *)
THEOREM TypeCorrect == Spec => []TypeOK
<1>1. Init => TypeOK
  BY InitInvariant DEF IInv
<1> QED
  BY <1>1, TypeStep, PTL DEF Spec

(* supersede keeps the audit links sound, inside one trust boundary and      *)
(* free of cycles, whatever the reviewer's calls and their order.            *)
THEOREM SupersessionSound == Spec => [](LinksAreSound /\ TrustBoundary /\ Acyclic)
<1>1. IInv => LinksAreSound /\ TrustBoundary /\ Acyclic
  BY DEF IInv
<1> QED
  BY <1>1, InitInvariant, InvariantStep, PTL DEF Spec

(* set_status and supersede never revert a review: no memory returns to      *)
(* candidate, and a superseded row is immutable.                             *)
THEOREM ReviewedOnce == Spec => ReviewIsFinal
<1> DEFINE Final == \A m \in Stored :
                      /\ m \in DOMAIN memories'
                      /\ memories[m].status # "candidate" => memories'[m].status # "candidate"
                      /\ m \in Superseded => memories'[m] = memories[m]
<1>1. TypeOK /\ [Next]_memories => [Final]_memories
  BY RowsSurvive DEF Stored, Superseded
<1> QED
  BY <1>1, TypeCorrect, PTL DEF Spec, ReviewIsFinal, Stored, Superseded

-----------------------------------------------------------------------------
(* The loops of prepare.  A loop over a list goes through one value for each *)
(* beginning of the list.                                                    *)

(* The loop that collects the eligible memories, and what it collects.       *)
LEMMA EligibleMemories ==
  ASSUME NEW session, NEW seq \in Seq(Memories)
  PROVE  Eligible(seq, session) \in Seq(Memories)
<1> DEFINE n == Len(seq)
           T == Seq(Memories)
           Next1(kept, m) == IF Applies(m, session) THEN Append(kept, m) ELSE kept
           F == [x \in T \X (1..n) |-> Next1(x[1], seq[x[2]])]
           Is(g) == g = [S \in SUBSET (1..n) |->
                           IF S = {} THEN <<>> ELSE Next1(g[S \ {Max(S)}], seq[Max(S)])]
<1>1. n \in Nat /\ DOMAIN seq = 1..n /\ \A i \in 1..n : seq[i] \in Memories
  OBVIOUS
<1>2. \A kept \in T, m \in Memories : Next1(kept, m) \in T
  OBVIOUS
<1>3. \A kept \in T, i \in 1..n : F[<<kept, i>>] = Next1(kept, seq[i]) /\ F[<<kept, i>>] \in T
  <2> HIDE DEF Next1
  <2> QED
    BY <1>1, <1>2
<1>4. StepsStay(n, T, F)
  <2> HIDE DEF n, T, F
  <2> QED
    BY <1>3 DEF StepsStay
<1>5. <<>> \in T
  OBVIOUS
<1>6. ASSUME NEW S \in SUBSET (1..n), S # {}, NEW kept \in T
      PROVE  F[<<kept, Max(S)>>] = Next1(kept, seq[Max(S)])
  <2>1. Max(S) \in 1..n
    <3>1. S \in SUBSET (0..n)
      OBVIOUS
    <3> QED
      BY <1>1, <1>6, <3>1, MaxExists
  <2> HIDE DEF F, Next1, T, n
  <2> QED
    BY <1>3, <2>1
<1>7. \E g : Is(g)
  <2> HIDE DEF n, T, Next1, F
  <2>1. PICK g \in [SUBSET (1..n) -> T] : FoldsUp(g, n, T, <<>>, F)
    BY <1>1, <1>4, <1>5, FoldExists
  <2>2. ASSUME NEW S \in SUBSET (1..n)
        PROVE  g[S] = IF S = {} THEN <<>> ELSE Next1(g[S \ {Max(S)}], seq[Max(S)])
    BY <1>6, <2>1 DEF FoldsUp
  <2> QED
    BY <2>1, <2>2
<1> PICK loop : loop = CHOOSE g : Is(g)
  OBVIOUS
<1>8. Eligible(seq, session) = loop[1..n]
  BY <1>1 DEF Eligible, FoldLeft, MapThenFoldSet
<1>9. FoldsUp(loop, n, T, <<>>, F)
  <2>1. Is(loop)
    BY <1>7
  <2> HIDE DEF n, T, Next1, F
  <2> QED
    BY <1>6, <2>1 DEF FoldsUp
<1>10. loop[1..n] \in T
  <2> HIDE DEF n, T, F, Is
  <2>1. OneByOne(loop, n, T, <<>>, F)
    BY <1>1, <1>4, <1>5, <1>9, FoldTrace
  <2> QED
    BY <1>1, <2>1 DEF OneByOne
<1> QED
  BY <1>8, <1>10

(* The beginning of a list.                                                  *)
LEMMA FirstOf ==
  ASSUME NEW S, NEW seq \in Seq(S), NEW k \in Nat
  PROVE  /\ First(seq, k) \in Seq(S)
         /\ Len(First(seq, k)) = IF k <= Len(seq) THEN k ELSE Len(seq)
         /\ \A i \in 1..Len(First(seq, k)) : First(seq, k)[i] = seq[i]
<1> DEFINE ends == {k, Len(seq)}
           least == IF k <= Len(seq) THEN k ELSE Len(seq)
<1>1. Min(ends) = least
  <2>1. ends \in SUBSET Nat /\ ends # {}
    OBVIOUS
  <2> PICK m : m = Min(ends)
    OBVIOUS
  <2>2. m \in ends /\ \A i \in ends : m <= i
    BY <2>1, MinExists
  <2>3. m \in {k, Len(seq)} /\ m <= k /\ m <= Len(seq)
    BY <2>2
  <2> QED
    BY <2>3
<1>2. least \in Nat /\ least <= Len(seq)
  OBVIOUS
<1>3. First(seq, k) = SubSeq(seq, 1, least)
  BY <1>1 DEF First
<1> HIDE DEF least
<1>4. SubSeq(seq, 1, least) = [i \in 1..least |-> seq[i]]
  <2>1. SubSeq(seq, 1, least) = [i \in 1..(1 + least - 1) |-> seq[i + 1 - 1]]
    BY <1>2
  <2> QED
    BY <1>2, <2>1
<1> DEFINE s == [i \in 1..least |-> seq[i]]
<1>5. \A i \in 1..least : seq[i] \in S /\ s[i] = seq[i]
  BY <1>2
<1>6. s \in Seq(S) /\ Len(s) = least
  BY <1>2, <1>5
<1> HIDE DEF s
<1>7. First(seq, k) = s
  BY <1>3, <1>4 DEF s
<1> QED
  BY <1>5, <1>6, <1>7 DEF least

(* The text of the first k blocks and the running total of their lengths,    *)
(* each with the separator that would precede it.                            *)
TotalOf(seq) == FoldLeft(LAMBDA total, m : total + Separator + Block(m), Frame, seq)

Running(t, seq) ==
  /\ t[0] = Frame - Separator
  /\ \A k \in 0..Len(seq) : t[k] \in Int
  /\ \A k \in 1..Len(seq) : t[k] = t[k - 1] + Separator + Block(seq[k])

(* The fold goes through the running total.                                  *)
LEMMA TotalRuns ==
  ASSUME NEW seq \in Seq(Memories)
  PROVE  \E t : Running(t, seq) /\ TotalOf(seq) - Separator = t[Len(seq)]
<1> DEFINE n == Len(seq)
           Plus(total, m) == total + Separator + Block(m)
           F == [x \in Int \X (1..n) |-> Plus(x[1], seq[x[2]])]
           Is(g) == g = [S \in SUBSET (1..n) |->
                           IF S = {} THEN Frame ELSE Plus(g[S \ {Max(S)}], seq[Max(S)])]
<1>1. n \in Nat /\ DOMAIN seq = 1..n /\ \A i \in 1..n : seq[i] \in Memories
  OBVIOUS
<1>2. Frame \in Int /\ \A total \in Int, m \in Memories : Plus(total, m) \in Int
  BY ContextAssumption DEF Separator, Block
<1>3. \A total \in Int, i \in 1..n :
        F[<<total, i>>] = Plus(total, seq[i]) /\ F[<<total, i>>] \in Int
  <2> HIDE DEF Plus
  <2> QED
    BY <1>1, <1>2
<1>4. StepsStay(n, Int, F)
  <2> HIDE DEF n, F
  <2> QED
    BY <1>3 DEF StepsStay
<1>5. ASSUME NEW S \in SUBSET (1..n), S # {}, NEW total \in Int
      PROVE  F[<<total, Max(S)>>] = Plus(total, seq[Max(S)])
  <2>1. Max(S) \in 1..n
    <3>1. S \in SUBSET (0..n)
      OBVIOUS
    <3> QED
      BY <1>1, <1>5, <3>1, MaxExists
  <2> HIDE DEF F, Plus, n
  <2> QED
    BY <1>3, <2>1
<1>6. \E g : Is(g)
  <2> HIDE DEF n, Plus, F
  <2>1. PICK g \in [SUBSET (1..n) -> Int] : FoldsUp(g, n, Int, Frame, F)
    BY <1>1, <1>2, <1>4, FoldExists
  <2>2. ASSUME NEW S \in SUBSET (1..n)
        PROVE  g[S] = IF S = {} THEN Frame ELSE Plus(g[S \ {Max(S)}], seq[Max(S)])
    BY <1>5, <2>1 DEF FoldsUp
  <2> QED
    BY <2>1, <2>2
<1> PICK loop : loop = CHOOSE g : Is(g)
  OBVIOUS
<1>7. TotalOf(seq) = loop[1..n]
  BY <1>1 DEF TotalOf, FoldLeft, MapThenFoldSet
<1>8. FoldsUp(loop, n, Int, Frame, F)
  <2>1. Is(loop)
    BY <1>6
  <2> HIDE DEF n, Plus, F
  <2> QED
    BY <1>5, <2>1 DEF FoldsUp
<1>9. /\ loop[1..0] = Frame
      /\ \A k \in 0..n : loop[1..k] \in Int
      /\ \A k \in 1..n : loop[1..k] = F[<<loop[1..(k - 1)], k>>]
  <2> HIDE DEF n, F, Is
  <2>1. OneByOne(loop, n, Int, Frame, F)
    BY <1>1, <1>2, <1>4, <1>8, FoldTrace
  <2> QED
    BY <2>1 DEF OneByOne
<1> DEFINE t == [k \in 0..n |-> loop[1..k] - Separator]
<1>10. t[0] = Frame - Separator /\ \A k \in 0..n : t[k] \in Int /\ t[k] = loop[1..k] - Separator
  <2> HIDE DEF n, F
  <2>1. 0 \in 0..n /\ \A k \in 0..n : t[k] = loop[1..k] - Separator
    BY <1>1
  <2>2. ASSUME NEW k \in 0..n PROVE loop[1..k] - Separator \in Int
    <3>1. loop[1..k] \in Int
      BY <1>9
    <3> QED
      BY <3>1 DEF Separator
  <2>3. t[0] = loop[1..0] - Separator
    BY <2>1
  <2> QED
    BY <1>9, <2>1, <2>2, <2>3
<1>11. ASSUME NEW k \in 1..n PROVE t[k] = t[k - 1] + Separator + Block(seq[k])
  <2>1. k - 1 \in 0..n /\ k \in 0..n
    OBVIOUS
  <2>2. loop[1..k] = Plus(loop[1..(k - 1)], seq[k])
    <3> HIDE DEF F, Plus, n
    <3> QED
      BY <1>3, <1>9, <2>1
  <2>3. Block(seq[k]) \in Int
    BY <1>1, ContextAssumption DEF Block
  <2> HIDE DEF t, n
  <2>4. /\ t[k] = loop[1..k] - Separator /\ t[k - 1] = loop[1..(k - 1)] - Separator
        /\ loop[1..k] \in Int /\ loop[1..(k - 1)] \in Int
    BY <1>9, <1>10, <2>1
  <2> QED
    BY <2>2, <2>3, <2>4 DEF Separator
<1> HIDE DEF t
<1>12. TotalOf(seq) - Separator = t[n]
  <2>1. n \in 0..n
    BY <1>1
  <2> HIDE DEF n
  <2> QED
    BY <1>7, <1>10, <2>1
<1> QED
  BY <1>10, <1>11, <1>12 DEF Running

(* Two running totals agree as far as both go, so the length of the first k  *)
(* blocks is where the one of the whole list is after k.                     *)
LEMMA TotalOfFirst ==
  ASSUME NEW seq \in Seq(Memories), NEW t, Running(t, seq), NEW k \in 0..Len(seq)
  PROVE  TotalOf(First(seq, k)) - Separator = t[k]
<1>1. /\ First(seq, k) \in Seq(Memories) /\ Len(First(seq, k)) = k
      /\ \A i \in 1..k : First(seq, k)[i] = seq[i]
  BY FirstOf
<1> PICK u : Running(u, First(seq, k)) /\ TotalOf(First(seq, k)) - Separator = u[k]
  BY <1>1, TotalRuns
<1> DEFINE S == {j \in Nat : j <= k => u[j] = t[j]}
<1>2. 0 \in S
  BY DEF Running
<1>3. ASSUME NEW j \in Nat, j \in S PROVE j + 1 \in S
  <2> SUFFICES ASSUME j + 1 <= k PROVE u[j + 1] = t[j + 1]
    OBVIOUS
  <2>1. u[j] = t[j]
    BY <1>3
  <2>2. j + 1 \in 1..k /\ j + 1 \in 1..Len(seq) /\ (j + 1) - 1 = j
    OBVIOUS
  <2>3. u[j + 1] = u[j] + Separator + Block(First(seq, k)[j + 1])
    BY <1>1, <2>2 DEF Running
  <2>4. t[j + 1] = t[j] + Separator + Block(seq[j + 1])
    BY <2>2 DEF Running
  <2> QED
    BY <1>1, <2>1, <2>2, <2>3, <2>4
<1>4. Nat \subseteq S
  <2> HIDE DEF S
  <2> QED
    BY <1>2, <1>3, EveryNatural
<1> QED
  BY <1>4

(* What the loop of prepare knows: the memories selected so far, the length  *)
(* of their text, whether one was cut and whether the loop is left.          *)
Selection == [ids : Seq(Memories), length : Int, truncated : BOOLEAN, stop : BOOLEAN]

(* A memory cut to the budget fits it with its ellipsis.                     *)
LEMMA ClippedFits ==
  ASSUME NEW m \in Memories, NEW limit \in Nat, limit > Frame + PrefixLength[m] + 1
  PROVE  Clipped(m, limit) \in Nat /\ Clipped(m, limit) <= limit
<1> DEFINE start == Frame + PrefixLength[m]
           lengths == {ContentLength[m], limit - start - 1}
<1>1. /\ Frame \in Nat /\ PrefixLength[m] \in Nat /\ ContentLength[m] \in Nat
      /\ start \in Nat /\ limit - start - 1 \in Nat
  BY ContextAssumption
<1>2. lengths \in SUBSET Nat /\ lengths # {}
  BY <1>1
<1> PICK least : least = Min(lengths)
  OBVIOUS
<1>3. least \in Nat /\ least <= limit - start - 1
  <2>1. least \in lengths /\ \A i \in lengths : least <= i
    BY <1>2, MinExists
  <2> QED
    BY <1>2, <2>1
<1>4. Clipped(m, limit) = start + least + 1
  BY DEF Clipped
<1> HIDE DEF start, lengths
<1> QED
  BY <1>1, <1>3, <1>4

(* What one pass of the loop does, in the order of its tests.                *)
PickEffect(before, m, limit, after) ==
  \/ before.stop /\ after = before
  \/ /\ ~before.stop /\ Joined(before, Block(m)) <= limit
     /\ after = [before EXCEPT !.ids = Append(@, m), !.length = Joined(before, Block(m))]
  \/ /\ ~before.stop /\ ~(Joined(before, Block(m)) <= limit) /\ before.ids = <<>>
     /\ limit > Frame + PrefixLength[m] + 1
     /\ after = [ids |-> <<m>>, length |-> Clipped(m, limit), truncated |-> TRUE, stop |-> TRUE]
  \/ /\ ~before.stop /\ ~(Joined(before, Block(m)) <= limit)
     /\ after = [before EXCEPT !.stop = TRUE]

(* It does one of these, and what is selected stays a selection.             *)
LEMMA PickDoes ==
  ASSUME NEW before \in Selection, NEW m \in Memories, NEW limit \in Nat
  PROVE  /\ PickEffect(before, m, limit, Pick(before, m, limit))
         /\ Pick(before, m, limit) \in Selection
<1> DEFINE joined == Joined(before, Block(m))
<1>1. Block(m) \in Nat /\ Frame \in Nat /\ PrefixLength[m] \in Nat
  BY ContextAssumption DEF Block
<1>2. joined \in Int
  BY <1>1 DEF Joined, Selection, Separator
<1> HIDE DEF joined
<1>3. CASE before.stop
  BY <1>3 DEF Pick, PickEffect
<1>4. CASE ~before.stop /\ joined <= limit
  <2>1. Pick(before, m, limit) = [before EXCEPT !.ids = Append(@, m), !.length = joined]
    BY <1>2, <1>4 DEF Pick, joined
  <2>2. Append(before.ids, m) \in Seq(Memories)
    BY DEF Selection
  <2>3. Pick(before, m, limit) \in Selection
    BY <1>2, <2>1, <2>2 DEF Selection
  <2> QED
    BY <1>4, <2>1, <2>3 DEF PickEffect, joined
<1>5. CASE ~before.stop /\ joined > limit /\ before.ids = <<>> /\ limit > Frame + PrefixLength[m] + 1
  <2>1. ~(joined <= limit)
    BY <1>2, <1>5
  <2>2. Pick(before, m, limit) =
          [ids |-> <<m>>, length |-> Clipped(m, limit), truncated |-> TRUE, stop |-> TRUE]
    BY <1>5, <2>1 DEF Pick, joined
  <2>3. Clipped(m, limit) \in Nat /\ <<m>> \in Seq(Memories)
    BY <1>5, ClippedFits
  <2>4. Pick(before, m, limit) \in Selection
    BY <2>2, <2>3 DEF Selection
  <2> QED
    BY <1>5, <2>1, <2>2, <2>4 DEF PickEffect, joined
<1>6. CASE /\ ~before.stop /\ joined > limit
           /\ ~(before.ids = <<>> /\ limit > Frame + PrefixLength[m] + 1)
  <2>1. ~(joined <= limit)
    BY <1>2, <1>6
  <2>2. Pick(before, m, limit) = [before EXCEPT !.stop = TRUE]
    BY <1>6, <2>1 DEF Pick, joined
  <2>3. Pick(before, m, limit) \in Selection
    BY <2>2 DEF Selection
  <2> QED
    BY <1>6, <2>1, <2>2, <2>3 DEF PickEffect, joined
<1> QED
  BY <1>2, <1>3, <1>4, <1>5, <1>6

(* The loop over the memories, and the selections it goes through.           *)
LoopOver(seq, limit) ==
  FoldLeft(LAMBDA selection, m : Pick(selection, m, limit), Nothing, seq)

Selecting(f, seq, limit) ==
  /\ f[0] = Nothing
  /\ \A k \in 0..Len(seq) : f[k] \in Selection
  /\ \A k \in 1..Len(seq) : PickEffect(f[k - 1], seq[k], limit, f[k])

(* It starts from nothing and makes one pass for each memory.                *)
LEMMA LoopSelects ==
  ASSUME NEW seq \in Seq(Memories), NEW limit \in Nat
  PROVE  \E f : Selecting(f, seq, limit) /\ LoopOver(seq, limit) = f[Len(seq)]
<1> DEFINE n == Len(seq)
           F == [x \in Selection \X (1..n) |-> Pick(x[1], seq[x[2]], limit)]
           Is(g) == g = [S \in SUBSET (1..n) |->
                           IF S = {} THEN Nothing ELSE Pick(g[S \ {Max(S)}], seq[Max(S)], limit)]
<1>1. n \in Nat /\ DOMAIN seq = 1..n /\ \A i \in 1..n : seq[i] \in Memories
  OBVIOUS
<1>2. Nothing \in Selection
  BY DEF Nothing, Selection
<1>3. \A s \in Selection, i \in 1..n :
        F[<<s, i>>] = Pick(s, seq[i], limit) /\ F[<<s, i>>] \in Selection
  <2>1. \A s \in Selection, i \in 1..n : Pick(s, seq[i], limit) \in Selection
    BY <1>1, PickDoes
  <2> HIDE DEF n
  <2> QED
    BY <2>1
<1>4. StepsStay(n, Selection, F)
  <2> HIDE DEF n, F
  <2> QED
    BY <1>3 DEF StepsStay
<1>5. ASSUME NEW S \in SUBSET (1..n), S # {}, NEW s \in Selection
      PROVE  F[<<s, Max(S)>>] = Pick(s, seq[Max(S)], limit)
  <2>1. Max(S) \in 1..n
    <3>1. S \in SUBSET (0..n)
      OBVIOUS
    <3> QED
      BY <1>1, <1>5, <3>1, MaxExists
  <2> HIDE DEF F, n
  <2> QED
    BY <1>3, <2>1
<1>6. \E g : Is(g)
  <2> HIDE DEF n, F
  <2>1. PICK g \in [SUBSET (1..n) -> Selection] : FoldsUp(g, n, Selection, Nothing, F)
    BY <1>1, <1>2, <1>4, FoldExists
  <2>2. ASSUME NEW S \in SUBSET (1..n)
        PROVE  g[S] = IF S = {} THEN Nothing ELSE Pick(g[S \ {Max(S)}], seq[Max(S)], limit)
    BY <1>5, <2>1 DEF FoldsUp
  <2> QED
    BY <2>1, <2>2
<1> PICK loop : loop = CHOOSE g : Is(g)
  OBVIOUS
<1>7. LoopOver(seq, limit) = loop[1..n]
  BY <1>1 DEF LoopOver, FoldLeft, MapThenFoldSet
<1>8. FoldsUp(loop, n, Selection, Nothing, F)
  <2>1. Is(loop)
    BY <1>6
  <2> HIDE DEF n, F
  <2> QED
    BY <1>5, <2>1 DEF FoldsUp
<1>9. /\ loop[1..0] = Nothing
      /\ \A k \in 0..n : loop[1..k] \in Selection
      /\ \A k \in 1..n : loop[1..k] = F[<<loop[1..(k - 1)], k>>]
  <2> HIDE DEF n, F, Is
  <2>1. OneByOne(loop, n, Selection, Nothing, F)
    BY <1>1, <1>2, <1>4, <1>8, FoldTrace
  <2> QED
    BY <2>1 DEF OneByOne
<1> DEFINE f == [k \in 0..n |-> loop[1..k]]
<1>10. ASSUME NEW k \in 1..n PROVE PickEffect(f[k - 1], seq[k], limit, f[k])
  <2>1. k - 1 \in 0..n /\ k \in 0..n
    OBVIOUS
  <2>2. loop[1..(k - 1)] \in Selection /\ loop[1..k] = Pick(loop[1..(k - 1)], seq[k], limit)
    <3> HIDE DEF F, n
    <3> QED
      BY <1>3, <1>9, <2>1
  <2>3. PickEffect(loop[1..(k - 1)], seq[k], limit, loop[1..k])
    BY <1>1, <2>2, PickDoes
  <2> HIDE DEF n
  <2> QED
    BY <2>1, <2>3
<1>11. f[0] = Nothing /\ f[n] = loop[1..n] /\ \A k \in 0..n : f[k] \in Selection
  <2>1. 0 \in 0..n /\ n \in 0..n
    BY <1>1
  <2> HIDE DEF n, F
  <2> QED
    BY <1>9, <2>1
<1> HIDE DEF f
<1> QED
  BY <1>7, <1>10, <1>11 DEF Selecting

(* After j passes: all of the first j memories fit, or the first was cut to  *)
(* fit alone, or the loop was left at the first that did not fit.            *)
Fits(t, limit, c) == \A i \in 1..c : t[i] <= limit

AllTaken(s, t, seq, limit, j) ==
  /\ ~s.stop /\ ~s.truncated
  /\ s.ids = First(seq, j)
  /\ s.length = IF j = 0 THEN 0 ELSE t[j]
  /\ Fits(t, limit, j)
FirstCut(s, t, seq, limit) ==
  /\ s.stop /\ s.truncated
  /\ s.ids = First(seq, 1)
  /\ s.length <= limit /\ ~(t[1] <= limit)
LeftAt(s, t, seq, limit, c) ==
  /\ s.stop /\ ~s.truncated
  /\ s.ids = First(seq, c)
  /\ s.length <= limit /\ ~(t[c + 1] <= limit)
  /\ Fits(t, limit, c)
AfterPasses(s, t, seq, limit, j) ==
  \/ AllTaken(s, t, seq, limit, j)
  \/ j > 0 /\ FirstCut(s, t, seq, limit)
  \/ \E c \in 0..(j - 1) : LeftAt(s, t, seq, limit, c)

(* One more pass keeps it.                                                   *)
LEMMA PassKeeps ==
  ASSUME NEW seq \in Seq(Memories), NEW t, Running(t, seq), NEW limit \in Nat,
         NEW j \in Nat, j + 1 <= Len(seq), NEW before \in Selection, NEW after,
         AfterPasses(before, t, seq, limit, j), PickEffect(before, seq[j + 1], limit, after)
  PROVE  AfterPasses(after, t, seq, limit, j + 1)
<1> DEFINE m == seq[j + 1]
<1>1. /\ m \in Memories /\ j + 1 \in 1..Len(seq) /\ (j + 1) - 1 = j /\ Len(seq) \in Nat
      /\ Frame \in Nat /\ Block(m) \in Nat /\ j \in 0..Len(seq)
  BY ContextAssumption DEF Block
<1>2. /\ t[0] = Frame - Separator /\ t[j] \in Int
      /\ t[j + 1] = t[j] + Separator + Block(m) /\ t[j + 1] \in Int
  BY <1>1 DEF Running
<1>3. /\ First(seq, 0) = <<>> /\ First(seq, 1) = <<seq[1]>>
      /\ First(seq, j + 1) = Append(First(seq, j), m)
      /\ j # 0 => First(seq, j) # <<>>
  <2>1. ASSUME NEW k \in Nat, k <= Len(seq)
        PROVE  /\ First(seq, k) \in Seq(Memories) /\ Len(First(seq, k)) = k
               /\ \A i \in 1..k : First(seq, k)[i] = seq[i]
    BY <2>1, FirstOf
  <2>2. /\ First(seq, j) \in Seq(Memories) /\ Len(First(seq, j)) = j
        /\ \A i \in 1..j : First(seq, j)[i] = seq[i]
    BY <1>1, <2>1
  <2>3. /\ First(seq, j + 1) \in Seq(Memories) /\ Len(First(seq, j + 1)) = j + 1
        /\ \A i \in 1..(j + 1) : First(seq, j + 1)[i] = seq[i]
    <3> PICK k \in Nat : k = j + 1
      OBVIOUS
    <3>1. k <= Len(seq)
      OBVIOUS
    <3> QED
      BY <2>1, <3>1
  <2>4. First(seq, 0) \in Seq(Memories) /\ Len(First(seq, 0)) = 0
    BY <1>1, <2>1
  <2>5. First(seq, 1) \in Seq(Memories) /\ Len(First(seq, 1)) = 1 /\ First(seq, 1)[1] = seq[1]
    <3>1. 1 \in Nat /\ 1 <= Len(seq) /\ 1 \in 1..1
      BY <1>1
    <3> QED
      BY <2>1, <3>1
  <2>6. First(seq, j + 1) = Append(First(seq, j), m)
    BY <1>1, <2>2, <2>3
  <2>7. First(seq, 1) = <<seq[1]>>
    BY <2>5
  <2> QED
    BY <2>2, <2>4, <2>6, <2>7
<1>4. ASSUME AllTaken(before, t, seq, limit, j)
      PROVE  Joined(before, Block(m)) = t[j + 1]
  <2>1. CASE j = 0
    BY <1>1, <1>2, <1>3, <1>4, <2>1 DEF AllTaken, Joined, Separator
  <2>2. CASE j # 0
    BY <1>1, <1>2, <1>3, <1>4, <2>2 DEF AllTaken, Joined
  <2> QED
    BY <2>1, <2>2
<1> HIDE DEF m
<1>5. CASE before.stop
  <2>1. after = before
    BY <1>5 DEF PickEffect, m
  <2>2. ~AllTaken(before, t, seq, limit, j)
    BY <1>5 DEF AllTaken
  <2>3. CASE j > 0 /\ FirstCut(before, t, seq, limit)
    BY <2>1, <2>3 DEF AfterPasses
  <2>4. CASE \E c \in 0..(j - 1) : LeftAt(before, t, seq, limit, c)
    <3> PICK c \in 0..(j - 1) : LeftAt(before, t, seq, limit, c)
      BY <2>4
    <3>1. c \in 0..((j + 1) - 1)
      OBVIOUS
    <3> QED
      BY <2>1, <3>1 DEF AfterPasses
  <2> QED
    BY <2>2, <2>3, <2>4 DEF AfterPasses
<1>6. CASE ~before.stop
  <2>1. AllTaken(before, t, seq, limit, j)
    BY <1>6 DEF AfterPasses, FirstCut, LeftAt
  <2>2. Joined(before, Block(m)) = t[j + 1]
    BY <1>4, <2>1
  <2>3. CASE t[j + 1] <= limit
    <3>1. after = [before EXCEPT !.ids = Append(@, m), !.length = t[j + 1]]
      BY <1>6, <2>2, <2>3 DEF PickEffect, m
    <3>2. /\ after.ids = Append(before.ids, m) /\ after.length = t[j + 1]
          /\ after.stop = before.stop /\ after.truncated = before.truncated
      BY <3>1 DEF Selection
    <3>3. Fits(t, limit, j + 1)
      <4>1. \A i \in 1..(j + 1) : i \in 1..j \/ i = j + 1
        OBVIOUS
      <4> QED
        BY <2>1, <2>3, <4>1 DEF AllTaken, Fits
    <3>4. j + 1 # 0
      OBVIOUS
    <3>5. AllTaken(after, t, seq, limit, j + 1)
      BY <1>3, <2>1, <3>2, <3>3, <3>4 DEF AllTaken
    <3> QED
      BY <3>5 DEF AfterPasses
  <2>4. CASE ~(t[j + 1] <= limit)
    <3>1. ASSUME after = [before EXCEPT !.stop = TRUE]
          PROVE  AfterPasses(after, t, seq, limit, j + 1)
      <4>1. /\ after.ids = before.ids /\ after.length = before.length
            /\ after.stop /\ after.truncated = before.truncated
        BY <3>1 DEF Selection
      <4>2. before.length <= limit
        <5>1. CASE j = 0
          BY <2>1, <5>1 DEF AllTaken
        <5>2. CASE j # 0
          <6>1. j \in 1..j /\ before.length = t[j]
            BY <2>1, <5>2 DEF AllTaken
          <6> QED
            BY <2>1, <6>1 DEF AllTaken, Fits
        <5> QED
          BY <5>1, <5>2
      <4>3. LeftAt(after, t, seq, limit, j)
        BY <2>1, <2>4, <4>1, <4>2 DEF AllTaken, LeftAt
      <4>4. j \in 0..((j + 1) - 1)
        OBVIOUS
      <4> QED
        BY <4>3, <4>4 DEF AfterPasses
    <3>2. ASSUME before.ids = <<>>, limit > Frame + PrefixLength[m] + 1,
                 after = [ids |-> <<m>>, length |-> Clipped(m, limit),
                          truncated |-> TRUE, stop |-> TRUE]
          PROVE  AfterPasses(after, t, seq, limit, j + 1)
      <4>1. j = 0
        BY <1>3, <2>1, <3>2 DEF AllTaken
      <4>2. Clipped(m, limit) <= limit
        BY <1>1, <3>2, ClippedFits
      <4>3. after.ids = First(seq, 1)
        BY <1>3, <3>2, <4>1 DEF m
      <4>4. j + 1 = 1 /\ j + 1 > 0
        BY <4>1
      <4>5. FirstCut(after, t, seq, limit)
        BY <2>4, <3>2, <4>2, <4>3, <4>4 DEF FirstCut
      <4> QED
        BY <4>4, <4>5 DEF AfterPasses
    <3> QED
      BY <1>6, <2>2, <2>4, <3>1, <3>2 DEF PickEffect, m
  <2> QED
    BY <2>3, <2>4
<1> QED
  BY <1>5, <1>6 DEF Selection

(* So the loop ends in one of these ways.                                    *)
LEMMA LoopEnds ==
  ASSUME NEW seq \in Seq(Memories), NEW t, Running(t, seq), NEW limit \in Nat,
         NEW f, Selecting(f, seq, limit)
  PROVE  AfterPasses(f[Len(seq)], t, seq, limit, Len(seq))
<1> DEFINE S == {j \in Nat : j <= Len(seq) => AfterPasses(f[j], t, seq, limit, j)}
<1>1. 0 \in S
  <2>1. First(seq, 0) = <<>>
    <3>1. First(seq, 0) \in Seq(Memories) /\ Len(First(seq, 0)) = 0
      BY FirstOf
    <3> QED
      BY <3>1
  <2>2. Fits(t, limit, 0)
    BY DEF Fits
  <2>3. AllTaken(f[0], t, seq, limit, 0)
    BY <2>1, <2>2 DEF Selecting, Nothing, AllTaken
  <2> QED
    BY <2>3 DEF AfterPasses
<1>2. ASSUME NEW j \in Nat, j \in S PROVE j + 1 \in S
  <2> SUFFICES ASSUME j + 1 <= Len(seq) PROVE AfterPasses(f[j + 1], t, seq, limit, j + 1)
    OBVIOUS
  <2>1. AfterPasses(f[j], t, seq, limit, j)
    BY <1>2
  <2>2. j \in 0..Len(seq) /\ j + 1 \in 1..Len(seq) /\ (j + 1) - 1 = j
    OBVIOUS
  <2>3. f[j] \in Selection /\ PickEffect(f[j], seq[j + 1], limit, f[j + 1])
    BY <2>2 DEF Selecting
  <2> QED
    BY <2>1, <2>3, PassKeeps
<1>3. Nat \subseteq S
  <2> HIDE DEF S
  <2> QED
    BY <1>1, <1>2, EveryNatural
<1> QED
  BY <1>3

(* More memories make a text no shorter: those that fit are the first ones.  *)
LEMMA FittingAreFirst ==
  ASSUME NEW seq \in Seq(Memories), NEW t, Running(t, seq), NEW limit \in Nat,
         NEW c \in 0..Len(seq), Fits(t, limit, c),
         c # Len(seq) => ~(t[c + 1] <= limit)
  PROVE  {k \in 1..Len(seq) : t[k] <= limit} = 1..c
<1>1. /\ Len(seq) \in Nat /\ c \in Nat /\ c <= Len(seq)
      /\ \A k \in 0..Len(seq) : t[k] \in Int
  BY DEF Running
<1>2. ASSUME NEW k \in 1..Len(seq) PROVE t[k - 1] <= t[k]
  <2>1. t[k] = t[k - 1] + Separator + Block(seq[k]) /\ k \in 0..Len(seq) /\ k - 1 \in 0..Len(seq)
    BY <1>1 DEF Running
  <2>2. Block(seq[k]) \in Nat /\ Separator \in Nat
    BY ContextAssumption DEF Block, Separator
  <2>3. t[k] \in Int /\ t[k - 1] \in Int
    BY <1>1, <2>1
  <2> QED
    BY <2>1, <2>2, <2>3
<1>3. ASSUME c # Len(seq), NEW k \in 1..Len(seq), c < k PROVE ~(t[k] <= limit)
  <2> DEFINE S == {j \in Nat : c + 1 + j <= Len(seq) => ~(t[c + 1 + j] <= limit)}
  <2>1. 0 \in S
    BY <1>1, <1>3
  <2>2. ASSUME NEW j \in Nat, j \in S PROVE j + 1 \in S
    <3> SUFFICES ASSUME c + 1 + (j + 1) <= Len(seq) PROVE ~(t[c + 1 + (j + 1)] <= limit)
      OBVIOUS
    <3> PICK i \in 1..Len(seq) : i = c + 1 + (j + 1)
      BY <1>1
    <3>1. i - 1 = c + 1 + j /\ i - 1 \in 0..Len(seq) /\ i \in 0..Len(seq)
      BY <1>1
    <3>2. ~(t[i - 1] <= limit)
      BY <1>1, <2>2, <3>1
    <3>3. t[i - 1] <= t[i] /\ t[i] \in Int /\ t[i - 1] \in Int
      BY <1>1, <1>2, <3>1
    <3>4. ~(t[i] <= limit)
      BY <3>2, <3>3
    <3> QED
      BY <3>4
  <2>3. Nat \subseteq S
    <3> HIDE DEF S
    <3> QED
      BY <2>1, <2>2, EveryNatural
  <2> PICK j \in Nat : k = c + 1 + j
    <3>1. k - c - 1 \in Nat /\ k = c + 1 + (k - c - 1)
      BY <1>1, <1>3
    <3> QED
      BY <3>1
  <2>4. j \in S
    BY <2>3
  <2> QED
    BY <2>4
<1>4. ASSUME NEW k \in 1..c PROVE k \in 1..Len(seq) /\ t[k] <= limit
  BY <1>1 DEF Fits
<1>5. ASSUME NEW k \in 1..Len(seq), t[k] <= limit PROVE k \in 1..c
  <2>1. ~(c # Len(seq) /\ c < k)
    BY <1>3, <1>5
  <2> QED
    BY <1>1, <2>1
<1> QED
  BY <1>4, <1>5

(* What prepare selects from any list of eligible memories.                  *)
Fitting(eligible, limit) ==
  {k \in 1..Len(First(eligible, ItemLimit)) : TotalOf(First(eligible, k)) - Separator <= limit}

IsLongest(selection, eligible, limit) ==
  /\ selection.length <= limit
  /\ selection.ids = First(eligible, Len(selection.ids))
  /\ selection.truncated => Fitting(eligible, limit) = {} /\ Len(selection.ids) = 1
  /\ ~selection.truncated => Len(selection.ids) = Cardinality(Fitting(eligible, limit))

(* The loop of prepare selects it.                                           *)
LEMMA SelectionIsTheLongest ==
  ASSUME NEW eligible \in Seq(Memories), NEW limit \in Nat, NEW selection,
         selection = LoopOver(First(eligible, ItemLimit), limit)
  PROVE  IsLongest(selection, eligible, limit)
<1> PICK fitting : fitting = Fitting(eligible, limit)
  OBVIOUS
<1> SUFFICES /\ selection.length <= limit
             /\ selection.ids = First(eligible, Len(selection.ids))
             /\ selection.truncated => fitting = {} /\ Len(selection.ids) = 1
             /\ ~selection.truncated => Len(selection.ids) = Cardinality(fitting)
  BY DEF IsLongest
<1> PICK seq : seq = First(eligible, ItemLimit)
  OBVIOUS
<1>1. /\ seq \in Seq(Memories) /\ Len(seq) \in Nat /\ Len(seq) <= Len(eligible)
      /\ \A i \in 1..Len(seq) : seq[i] = eligible[i]
  <2>1. ItemLimit \in Nat
    BY ContextAssumption
  <2> QED
    BY <2>1, FirstOf
<1>2. ASSUME NEW k \in 0..Len(seq)
      PROVE  First(seq, k) = First(eligible, k) /\ Len(First(seq, k)) = k
  <2>1. /\ First(seq, k) \in Seq(Memories) /\ Len(First(seq, k)) = k
        /\ \A i \in 1..k : First(seq, k)[i] = seq[i]
    BY <1>1, FirstOf
  <2>2. /\ First(eligible, k) \in Seq(Memories) /\ Len(First(eligible, k)) = k
        /\ \A i \in 1..k : First(eligible, k)[i] = eligible[i]
    BY <1>1, FirstOf
  <2>3. \A i \in 1..k : First(seq, k)[i] = First(eligible, k)[i]
    BY <1>1, <2>1, <2>2
  <2> QED
    BY <2>1, <2>2, <2>3
<1> PICK t : Running(t, seq)
  BY <1>1, TotalRuns
<1> PICK f : Selecting(f, seq, limit) /\ LoopOver(seq, limit) = f[Len(seq)]
  BY <1>1, LoopSelects
<1>3. AfterPasses(selection, t, seq, limit, Len(seq))
  BY <1>1, LoopEnds
<1>4. fitting = {k \in 1..Len(seq) : t[k] <= limit}
  <2>1. \A k \in 1..Len(seq) : TotalOf(First(eligible, k)) - Separator = t[k]
    BY <1>1, <1>2, TotalOfFirst
  <2> QED
    BY <2>1 DEF Fitting
<1>5. ASSUME NEW c \in 0..Len(seq), Fits(t, limit, c), c # Len(seq) => ~(t[c + 1] <= limit)
      PROVE  Cardinality(fitting) = c
  <2>1. fitting = 1..c
    BY <1>1, <1>4, <1>5, FittingAreFirst
  <2>2. Cardinality(1..c) = c
    BY FS_Interval
  <2> QED
    BY <2>1, <2>2
<1>6. CASE AllTaken(selection, t, seq, limit, Len(seq))
  <2>1. Cardinality(fitting) = Len(seq)
    BY <1>1, <1>5, <1>6 DEF AllTaken
  <2>2. selection.ids = First(eligible, Len(seq)) /\ Len(selection.ids) = Len(seq)
    BY <1>1, <1>2, <1>6 DEF AllTaken
  <2>3. selection.length <= limit
    <3>1. CASE Len(seq) = 0
      BY <1>6, <3>1 DEF AllTaken
    <3>2. CASE Len(seq) # 0
      BY <1>1, <1>6, <3>2 DEF AllTaken, Fits
    <3> QED
      BY <3>1, <3>2
  <2> QED
    BY <1>6, <2>1, <2>2, <2>3 DEF AllTaken
<1>7. CASE Len(seq) > 0 /\ FirstCut(selection, t, seq, limit)
  <2>1. 0 \in 0..Len(seq) /\ Fits(t, limit, 0) /\ 0 + 1 = 1 /\ 1 \in 0..Len(seq)
    BY <1>1, <1>7 DEF Fits
  <2>2. fitting = 1..0
    BY <1>1, <1>4, <1>7, <2>1, FittingAreFirst DEF FirstCut
  <2>4. fitting = {}
    BY <2>2
  <2>3. selection.ids = First(eligible, 1) /\ Len(selection.ids) = 1
    BY <1>2, <1>7, <2>1 DEF FirstCut
  <2> QED
    BY <1>7, <2>3, <2>4 DEF FirstCut
<1>8. CASE \E c \in 0..(Len(seq) - 1) : LeftAt(selection, t, seq, limit, c)
  <2> PICK c \in 0..(Len(seq) - 1) : LeftAt(selection, t, seq, limit, c)
    BY <1>8
  <2>1. c \in 0..Len(seq)
    BY <1>1
  <2>2. Cardinality(fitting) = c
    BY <1>5, <2>1 DEF LeftAt
  <2>3. selection.ids = First(eligible, c) /\ Len(selection.ids) = c
    BY <1>2, <2>1 DEF LeftAt
  <2> QED
    BY <2>2, <2>3 DEF LeftAt
<1> QED
  BY <1>3, <1>6, <1>7, <1>8 DEF AfterPasses

(* search_confirmed returns memories of the table.                           *)
LEMMA SearchedAreStored ==
  ASSUME TypeOK, IsFiniteSet(Stored), NEW result \in SearchResults
  PROVE  result \in Seq(Memories)
<1> PICK s \in SUBSET Stored : result \in SetToSeqs(s)
  BY DEF SearchResults, SetToAllKPermutations
<1>1. IsFiniteSet(s)
  BY FS_Subset
<1>2. Cardinality(s) \in Nat
  BY <1>1, FS_CardinalityType
<1>3. result \in [1..Cardinality(s) -> s]
  BY DEF SetToSeqs
<1>4. s \subseteq Memories
  BY DEF TypeOK
<1> QED
  BY <1>2, <1>3, <1>4

(* What prepare selects in a state of the table, whatever is asked.          *)
LEMMA SelectionFollowsRelevance == TypeOK /\ IsFiniteSet(Stored) => MostRelevantFirst
<1> SUFFICES ASSUME TypeOK, IsFiniteSet(Stored),
               NEW result \in SearchResults, NEW session \in Sessions, NEW limit \in CharLimits
             PROVE  LET eligible == Eligible(result, session)
                        selection == Prepare(result, session, limit)
                    IN /\ selection.length <= limit
                       /\ selection.ids = First(eligible, Len(selection.ids))
                       /\ IF selection.truncated
                          THEN Fitting(eligible, limit) = {} /\ Len(selection.ids) = 1
                          ELSE Len(selection.ids) = Cardinality(Fitting(eligible, limit))
  BY DEF MostRelevantFirst, ForEachPrompt, TotalOf, Fitting
<1> PICK eligible : eligible = Eligible(result, session)
  OBVIOUS
<1>1. eligible \in Seq(Memories) /\ limit \in Nat
  BY SearchedAreStored, EligibleMemories, ContextAssumption
<1> PICK selection : selection = LoopOver(First(eligible, ItemLimit), limit)
  OBVIOUS
<1>2. Prepare(result, session, limit) = selection
  BY DEF Prepare, LoopOver
<1>3. IsLongest(selection, eligible, limit)
  BY <1>1, SelectionIsTheLongest
<1> QED
  BY <1>2, <1>3 DEF IsLongest

(* The table stays finite: an upgraded database has finitely many rows, and  *)
(* a call adds at most one.                                                  *)
LEMMA StoredStaysFinite ==
  /\ Init => IsFiniteSet(Stored)
  /\ TypeOK /\ IsFiniteSet(Stored) /\ [Next]_memories => IsFiniteSet(Stored)'
<1>1. Init => IsFiniteSet(Stored)
  BY MemoryAssumption DEF Init, Stored
<1>2. ASSUME TypeOK, IsFiniteSet(Stored), [Next]_memories PROVE IsFiniteSet(Stored')
  <2>1. CASE UNCHANGED memories
    BY <1>2, <2>1 DEF Stored
  <2>2. ASSUME NEW m \in Memories, NEW k \in Kinds, NEW sc \in Scopes,
               NEW s \in Sessions \cup {NoSession}, CreateCandidate(m, k, sc, s)
        PROVE  IsFiniteSet(Stored')
    <3>1. Stored' = Stored \cup {m}
      BY <2>2 DEF CreateCandidate, Stored
    <3> QED
      BY <1>2, <3>1, FS_AddElement
  <2>3. ASSUME NEW m \in Memories, NEW status \in {"confirmed", "rejected"},
               SetStatus(m, status)
        PROVE  IsFiniteSet(Stored')
    <3>1. Stored' = Stored
      BY <1>2, <2>3 DEF SetStatus, Stored, TypeOK
    <3> QED
      BY <1>2, <3>1
  <2>4. ASSUME NEW m \in Memories, NEW r \in Memories, Supersede(m, r)
        PROVE  IsFiniteSet(Stored')
    <3>1. Stored' = Stored
      BY <1>2, <2>4 DEF Supersede, Stored, TypeOK
    <3> QED
      BY <1>2, <3>1
  <2> QED
    BY <1>2, <2>1, <2>2, <2>3, <2>4 DEF Next
<1> QED
  BY <1>1, <1>2

(* prepare, for every table, search result, session and budget: the order of *)
(* relevance decides, nothing that fits is left out before something less    *)
(* relevant, only a first memory is cut, and the text keeps to its budget.   *)
THEOREM MostRelevantAreSelected == Spec => []MostRelevantFirst
  BY StoredStaysFinite, TypeCorrect, TypeStep, SelectionFollowsRelevance, PTL DEF Spec
=============================================================================
