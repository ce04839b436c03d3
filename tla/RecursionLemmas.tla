-------------------------- MODULE RecursionLemmas --------------------------
(*****************************************************************************)
(* What the proofs need of definitions by recursion.  A recursive function   *)
(* is what CHOOSE picks, so its equation has to be earned: there must be a   *)
(* function that satisfies it.  The library states this with operators as    *)
(* parameters; here the step of a recursion is a function F, and induction   *)
(* is the search for the first counterexample.                               *)
(*****************************************************************************)
EXTENDS Integers, Sequences, FiniteSetsExt, FiniteSetTheorems, WellFoundedInduction, TLAPS

(* A set of naturals has a first one.                                        *)
LEMMA FirstExists ==
  ASSUME NEW S \in SUBSET Nat, S # {}
  PROVE  \E x \in S : \A y \in S : x <= y
<1> DEFINE R == {ss \in Nat \X Nat : ss[1] < ss[2]}
<1>1. IsWellFoundedOn(R, Nat)
  BY NatLessThanWellFounded DEF OpToRel
<1>2. PICK x \in S : \A y \in S : <<y, x>> \notin R
  <2> HIDE DEF R
  <2> QED
    BY <1>1, WFMin
<1>3. ASSUME NEW y \in S PROVE x <= y
  <2>1. x \in Nat /\ y \in Nat
    OBVIOUS
  <2>2. y < x => <<y, x>> \in R
    BY <2>1
  <2> HIDE DEF R
  <2>3. ~(y < x)
    BY <1>2, <2>2
  <2> QED
    BY <2>1, <2>3
<1> QED
  BY <1>3

(* It is the one Min chooses.                                                *)
LEMMA MinExists ==
  ASSUME NEW S \in SUBSET Nat, S # {}
  PROVE  Min(S) \in S /\ \A y \in S : Min(S) <= y
  BY FirstExists DEF Min

(* A set of positions has a last one.                                        *)
LEMMA MaxExists ==
  ASSUME NEW n \in Nat, NEW S \in SUBSET (0..n), S # {}
  PROVE  Max(S) \in S /\ \A i \in S : i <= Max(S)
<1> DEFINE T == {n - i : i \in S}
<1>1. T \in SUBSET Nat /\ T # {}
  <2>1. \A i \in S : n - i \in Nat
    OBVIOUS
  <2>2. PICK i \in S : TRUE
    OBVIOUS
  <2>3. n - i \in T
    BY <2>2
  <2> QED
    BY <2>1, <2>3
<1>2. PICK x \in T : \A y \in T : x <= y
  <2> HIDE DEF T
  <2> QED
    BY <1>1, FirstExists
<1>3. PICK m \in S : x = n - m
  BY <1>2
<1>4. ASSUME NEW k \in S PROVE m >= k /\ k <= m
  <2>1. n - k \in T
    OBVIOUS
  <2>2. x <= n - k
    BY <1>2, <2>1
  <2> HIDE DEF T
  <2>3. k \in 0..n /\ m \in 0..n
    OBVIOUS
  <2> QED
    BY <1>3, <2>2, <2>3
<1>5. \E y \in S : \A k \in S : y >= k
  BY <1>4
<1>6. Max(S) \in S /\ \A k \in S : Max(S) >= k
  BY <1>5 DEF Max
<1>7. ASSUME NEW k \in S PROVE k <= Max(S)
  <2>1. PICK y : y = Max(S)
    OBVIOUS
  <2>2. y \in S /\ y >= k
    BY <1>6, <2>1
  <2>3. y \in Nat /\ k \in Nat
    BY <2>2
  <2> QED
    BY <2>1, <2>2, <2>3
<1> QED
  BY <1>6, <1>7

(* A set of naturals that has 0 and with a number the next one has them all. *)
LEMMA EveryNatural ==
  ASSUME NEW S, 0 \in S, \A k \in Nat : k \in S => k + 1 \in S
  PROVE  Nat \subseteq S
<1> SUFFICES ASSUME Nat \ S # {} PROVE FALSE
  OBVIOUS
<1>1. PICK k \in Nat \ S : \A j \in Nat \ S : k <= j
  BY FirstExists
<1>2. k - 1 \in Nat /\ k - 1 \in S
  BY <1>1
<1> QED
  BY <1>1, <1>2

(* A set that has a number when it has the smaller ones has them all.        *)
LEMMA EverySmallNatural ==
  ASSUME NEW n \in Nat, NEW S,
         \A k \in 0..n : (\A j \in 0..(k - 1) : j \in S) => k \in S
  PROVE  0..n \subseteq S
<1> DEFINE M == (0..n) \ S
<1> SUFFICES ASSUME M # {} PROVE FALSE
  OBVIOUS
<1>1. PICK k \in M : \A j \in M : k <= j
  <2>1. M \in SUBSET Nat
    OBVIOUS
  <2> HIDE DEF M
  <2> QED
    BY <2>1, FirstExists
<1>2. \A j \in 0..(k - 1) : j \in S
  BY <1>1
<1> QED
  BY <1>1, <1>2

(* The steps of a recursion: whatever is not at the top of D is computed     *)
(* from something of a lower rank.                                           *)
Descends(D, Top, up, rank, n) ==
  /\ rank \in [D -> 0..n]
  /\ \A d \in D \ Top : up[d] \in D /\ rank[up[d]] < rank[d]

Value(g, d, Top, up, b, F) == IF d \in Top THEN b[d] ELSE F[<<g[up[d]], d>>]
Solves(g, D, Top, up, b, F) == g = [d \in D |-> Value(g, d, Top, up, b, F)]

(* The values it starts from are in T, and each step stays there.            *)
Stays(D, Top, b, F, T) ==
  /\ \A d \in D \cap Top : b[d] \in T
  /\ \A d \in D \ Top, v \in T : F[<<v, d>>] \in T

(* There is a function that satisfies the equation of such a recursion.      *)
LEMMA RecursionExists ==
  ASSUME NEW D, NEW Top, NEW up, NEW rank, NEW n \in Nat, NEW b, NEW F,
         Descends(D, Top, up, rank, n)
  PROVE  \E g : Solves(g, D, Top, up, b, F)
<1> DEFINE Low(k) == {d \in D : rank[d] <= k}
           S == {k \in Nat : \E g : Solves(g, Low(k), Top, up, b, F)}
<1>1. \A d \in D : rank[d] \in Nat /\ rank[d] <= n
  BY DEF Descends
<1>2. 0 \in S
  <2> DEFINE g == [d \in Low(0) |-> b[d]]
  <2>1. \A d \in Low(0) : d \in Top
    BY <1>1 DEF Descends
  <2>2. g = [d \in Low(0) |-> Value(g, d, Top, up, b, F)]
    BY <2>1 DEF Value
  <2>3. Solves(g, Low(0), Top, up, b, F)
    BY <2>2 DEF Solves
  <2> HIDE DEF g, Low
  <2> QED
    BY <2>3
<1>3. ASSUME NEW k \in Nat, k \in S PROVE k + 1 \in S
  <2> PICK g : Solves(g, Low(k), Top, up, b, F)
    BY <1>3
  <2> DEFINE h == [d \in Low(k + 1) |-> Value(g, d, Top, up, b, F)]
  <2>1. \A d \in Low(k) : d \in Low(k + 1)
    BY <1>1
  <2>2. \A d \in Low(k) : h[d] = Value(g, d, Top, up, b, F) /\ g[d] = h[d]
    BY <2>1 DEF Solves
  <2>3. \A d \in Low(k + 1) \ Top : up[d] \in Low(k)
    BY <1>1 DEF Descends
  <2> HIDE DEF Low
  <2>4. \A d \in Low(k + 1) : Value(g, d, Top, up, b, F) = Value(h, d, Top, up, b, F)
    <3> HIDE DEF h
    <3> QED
      BY <2>2, <2>3 DEF Value
  <2>5. h = [d \in Low(k + 1) |-> Value(h, d, Top, up, b, F)]
    BY <2>4
  <2>6. Solves(h, Low(k + 1), Top, up, b, F)
    BY <2>5 DEF Solves
  <2> HIDE DEF h, Low
  <2> QED
    BY <2>6
<1>4. n \in S
  <2> HIDE DEF S
  <2> QED
    BY <1>2, <1>3, EveryNatural
<1>5. Low(n) = D
  BY <1>1
<1> QED
  BY <1>4, <1>5

(* And when each step stays in T, so does that function.                     *)
LEMMA RecursionStays ==
  ASSUME NEW D, NEW Top, NEW up, NEW rank, NEW n \in Nat, NEW b, NEW F, NEW T,
         Descends(D, Top, up, rank, n), Stays(D, Top, b, F, T)
  PROVE  \E g \in [D -> T] : Solves(g, D, Top, up, b, F)
<1>1. PICK g : Solves(g, D, Top, up, b, F)
  BY RecursionExists
<1>2. \A d \in D : g[d] = Value(g, d, Top, up, b, F)
  BY <1>1 DEF Solves
<1> DEFINE S == {k \in Nat : \A d \in D : rank[d] <= k => g[d] \in T}
<1>3. \A d \in D : rank[d] \in Nat /\ rank[d] <= n
  BY DEF Descends
<1>4. \A d \in D \cap Top : g[d] \in T
  BY <1>2 DEF Value, Stays
<1>5. \A d \in D \ Top : g[up[d]] \in T => g[d] \in T
  BY <1>2 DEF Value, Stays
<1>6. 0 \in S
  BY <1>3, <1>4 DEF Descends
<1>7. ASSUME NEW k \in Nat, k \in S PROVE k + 1 \in S
  <2>1. \A d \in D \ Top : rank[d] <= k + 1 => rank[up[d]] <= k
    BY <1>3 DEF Descends
  <2>2. \A d \in D \ Top : up[d] \in D
    BY DEF Descends
  <2> QED
    BY <1>4, <1>5, <1>7, <2>1, <2>2
<1>8. n \in S
  <2> HIDE DEF S
  <2> QED
    BY <1>6, <1>7, EveryNatural
<1>9. \A d \in D : g[d] \in T
  BY <1>3, <1>8
<1>10. g \in [D -> T]
  BY <1>1, <1>9 DEF Solves
<1> QED
  BY <1>1, <1>10

-----------------------------------------------------------------------------
(* Folds: FoldLeft recurses on the set of positions, last position first.    *)

(* The sets it visits.                                                       *)
LEMMA Beginnings ==
  ASSUME NEW n \in Nat
  PROVE  /\ 1..0 = {}
         /\ \A k \in 0..n : 1..k \in SUBSET (1..n)
         /\ \A k \in 1..n : /\ 1..k # {}
                            /\ Max(1..k) = k
                            /\ (1..k) \ {Max(1..k)} = 1..(k - 1)
<1>1. ASSUME NEW k \in 1..n PROVE Max(1..k) = k
  <2>1. (1..k) \in SUBSET (0..n) /\ k \in 1..k
    OBVIOUS
  <2>2. (1..k) # {}
    BY <2>1
  <2> PICK m : m = Max(1..k)
    OBVIOUS
  <2>3. m \in 1..k /\ \A i \in 1..k : i <= m
    BY <2>1, <2>2, MaxExists
  <2>4. k <= m
    BY <2>1, <2>3
  <2> QED
    BY <2>3, <2>4
<1>2. ASSUME NEW k \in 1..n PROVE (1..k) \ {k} = 1..(k - 1)
  OBVIOUS
<1> QED
  BY <1>1, <1>2

(* The steps of a fold over n positions, which all stay in T, and what it is *)
(* to be: h has its value for every set of positions.                        *)
StepsStay(n, T, F) == \A v \in T, i \in 1..n : F[<<v, i>>] \in T

FoldsUp(h, n, T, base, F) ==
  \A s \in SUBSET (1..n) :
    IF s = {} THEN h[s] = base
    ELSE h[s \ {Max(s)}] \in T => h[s] = F[<<h[s \ {Max(s)}], Max(s)>>]

(* Such a fold has a solution.                                               *)
LEMMA FoldExists ==
  ASSUME NEW n \in Nat, NEW T, NEW base \in T, NEW F, StepsStay(n, T, F)
  PROVE  \E g \in [SUBSET (1..n) -> T] : FoldsUp(g, n, T, base, F)
<1> DEFINE D == SUBSET (1..n)
           Top == {{}}
           up == [s \in D |-> s \ {Max(s)}]
           rank == [s \in D |-> IF s = {} THEN 0 ELSE Max(s)]
           b == [s \in Top |-> base]
           G == [x \in T \X D |-> F[<<x[1], Max(x[2])>>]]
<1>1. ASSUME NEW s \in D \ Top
      PROVE  /\ Max(s) \in 1..n /\ s \ {Max(s)} \in D
             /\ s \ {Max(s)} # {} => Max(s \ {Max(s)}) < Max(s)
  <2>1. s \in SUBSET (0..n) /\ s # {}
    OBVIOUS
  <2> PICK m : m = Max(s)
    OBVIOUS
  <2>2. m \in s /\ \A i \in s : i <= m
    BY <2>1, MaxExists
  <2>3. ASSUME s \ {m} # {} PROVE Max(s \ {m}) < m
    <3> PICK j : j = Max(s \ {m})
      OBVIOUS
    <3>1. j \in s \ {m}
      BY <2>1, <2>3, MaxExists
    <3> QED
      BY <2>2, <3>1
  <2> QED
    BY <2>2, <2>3
<1>2. Descends(D, Top, up, rank, n)
  <2>1. rank \in [D -> 0..n]
    <3>1. ASSUME NEW s \in D PROVE (IF s = {} THEN 0 ELSE Max(s)) \in 0..n
      <4>1. s # {} => s \in D \ Top
        OBVIOUS
      <4>2. s # {} => Max(s) \in 1..n
        BY <1>1, <4>1
      <4> HIDE DEF D, Top
      <4> QED
        BY <4>2
    <3> HIDE DEF D
    <3> QED
      BY <3>1
  <2>2. ASSUME NEW s \in D \ Top PROVE up[s] \in D /\ rank[up[s]] < rank[s]
    <3>1. /\ up[s] = s \ {Max(s)} /\ up[s] \in D
          /\ rank[s] = Max(s)
          /\ rank[up[s]] = IF up[s] = {} THEN 0 ELSE Max(up[s])
      BY <1>1
    <3> HIDE DEF up, rank
    <3> QED
      BY <1>1, <3>1
  <2> HIDE DEF D, Top, up, rank
  <2> QED
    BY <2>1, <2>2 DEF Descends
<1>3. \A d \in D \cap Top : b[d] \in T
  OBVIOUS
<1>4. \A d \in D \ Top, v \in T : G[<<v, d>>] = F[<<v, Max(d)>>] /\ G[<<v, d>>] \in T
  BY <1>1 DEF StepsStay
<1>5. PICK g \in [D -> T] : Solves(g, D, Top, up, b, G)
  <2>1. Stays(D, Top, b, G, T)
    BY <1>3, <1>4 DEF Stays
  <2> HIDE DEF D, Top, up, rank, b, G
  <2> QED
    BY <1>2, <2>1, RecursionStays
<1>6. ASSUME NEW s \in SUBSET (1..n)
      PROVE  g[s] = IF s = {} THEN base ELSE F[<<g[s \ {Max(s)}], Max(s)>>]
  <2>1. CASE s = {}
    <3>1. s \in Top /\ b[s] = base /\ s \in D
      BY <2>1
    <3> QED
      BY <1>5, <2>1, <3>1 DEF Value, Solves
  <2>2. CASE s # {}
    <3>1. s \in D \ Top /\ up[s] = s \ {Max(s)} /\ up[s] \in D
      BY <1>1, <2>2
    <3>2. g[up[s]] \in T
      BY <3>1
    <3>3. g[s] = G[<<g[up[s]], s>>]
      BY <1>5, <3>1 DEF Value, Solves
    <3> HIDE DEF D, Top, up, b, G
    <3> QED
      BY <1>4, <2>2, <3>1, <3>2, <3>3
  <2> QED
    BY <2>1, <2>2
<1> QED
  BY <1>5, <1>6 DEF FoldsUp

(* Over the first k positions it takes one step after the other.             *)
OneByOne(h, n, T, base, F) ==
  /\ h[1..0] = base
  /\ \A k \in 0..n : h[1..k] \in T
  /\ \A k \in 1..n : h[1..k] = F[<<h[1..(k - 1)], k>>]

LEMMA FoldTrace ==
  ASSUME NEW n \in Nat, NEW T, NEW base \in T, NEW F, StepsStay(n, T, F),
         NEW h, FoldsUp(h, n, T, base, F)
  PROVE  OneByOne(h, n, T, base, F)
<1> DEFINE S == {k \in Nat : k <= n => h[1..k] \in T}
<1>1. h[1..0] = base
  <2>1. 1..0 = {} /\ {} \in SUBSET (1..n)
    BY Beginnings
  <2> QED
    BY <2>1 DEF FoldsUp
<1>2. ASSUME NEW k \in 1..n, h[1..(k - 1)] \in T
      PROVE  h[1..k] = F[<<h[1..(k - 1)], k>>] /\ h[1..k] \in T
  <2>1. 1..k \in SUBSET (1..n) /\ 1..k # {} /\ Max(1..k) = k /\ (1..k) \ {Max(1..k)} = 1..(k - 1)
    BY Beginnings
  <2> PICK s : s = 1..k
    OBVIOUS
  <2>2. s # {} /\ s \in SUBSET (1..n) /\ Max(s) = k /\ s \ {Max(s)} = 1..(k - 1)
    BY <2>1
  <2>3. h[s] = F[<<h[1..(k - 1)], k>>]
    BY <1>2, <2>2 DEF FoldsUp
  <2> QED
    BY <1>2, <2>3 DEF StepsStay
<1>3. ASSUME NEW k \in Nat, k \in S PROVE k + 1 \in S
  <2> SUFFICES ASSUME k + 1 <= n PROVE h[1..(k + 1)] \in T
    OBVIOUS
  <2>1. h[1..k] \in T /\ k + 1 \in 1..n /\ (k + 1) - 1 = k
    BY <1>3
  <2> QED
    BY <1>2, <2>1
<1>4. Nat \subseteq S
  <2>1. 0 \in S
    BY <1>1
  <2> HIDE DEF S
  <2> QED
    BY <1>3, <2>1, EveryNatural
<1>5. ASSUME NEW k \in 0..n PROVE h[1..k] \in T
  BY <1>4
<1>6. ASSUME NEW k \in 1..n PROVE h[1..k] = F[<<h[1..(k - 1)], k>>]
  <2>1. h[1..(k - 1)] \in T
    BY <1>5
  <2> QED
    BY <1>2, <2>1
<1> QED
  BY <1>1, <1>5, <1>6 DEF OneByOne

(* What the fold over n positions gives.                                     *)
FoldsTo(x, n, T, base, F) == \E h : FoldsUp(h, n, T, base, F) /\ x = h[1..n]

SameSteps(n, T, F, G) == \A v \in T, i \in 1..n : F[<<v, i>>] = G[<<v, i>>]

(* A fold over no positions is where it starts.                              *)
LEMMA FoldOfNone ==
  ASSUME NEW T, NEW base \in T, NEW F, NEW x, FoldsTo(x, 0, T, base, F)
  PROVE  x = base
<1> PICK h : FoldsUp(h, 0, T, base, F) /\ x = h[1..0]
  BY DEF FoldsTo
<1>1. 1..0 = {} /\ {} \in SUBSET (1..0)
  OBVIOUS
<1> QED
  BY <1>1 DEF FoldsUp

(* A fold with the result x, and one over a position more with the result y, *)
(* that takes the same steps so far.                                         *)
OneLonger(n, m, T, base, F, x, G, y) ==
  /\ n \in Nat /\ m \in Nat /\ m = n + 1 /\ base \in T
  /\ StepsStay(n, T, F) /\ StepsStay(m, T, G) /\ SameSteps(n, T, F, G)
  /\ FoldsTo(x, n, T, base, F) /\ FoldsTo(y, m, T, base, G)

(* The longer one takes one more step.                                       *)
LEMMA FoldAppends ==
  ASSUME NEW n, NEW m, NEW T, NEW base, NEW F, NEW x, NEW G, NEW y,
         OneLonger(n, m, T, base, F, x, G, y)
  PROVE  x \in T /\ y = G[<<x, m>>]
<1>0. /\ n \in Nat /\ m \in Nat /\ m = n + 1 /\ base \in T
      /\ StepsStay(n, T, F) /\ StepsStay(m, T, G) /\ SameSteps(n, T, F, G)
      /\ FoldsTo(x, n, T, base, F) /\ FoldsTo(y, m, T, base, G)
  BY DEF OneLonger
<1> USE <1>0
<1> PICK h : FoldsUp(h, n, T, base, F) /\ x = h[1..n]
  BY DEF FoldsTo
<1> PICK g : FoldsUp(g, m, T, base, G) /\ y = g[1..m]
  BY DEF FoldsTo
<1>1. OneByOne(h, n, T, base, F)
  BY FoldTrace
<1>2. OneByOne(g, m, T, base, G)
  BY FoldTrace
<1> DEFINE S == {k \in Nat : k <= n => h[1..k] = g[1..k]}
<1>3. 0 \in S
  BY <1>1, <1>2 DEF OneByOne
<1>4. ASSUME NEW k \in Nat, k \in S PROVE k + 1 \in S
  <2> SUFFICES ASSUME k + 1 <= n PROVE h[1..(k + 1)] = g[1..(k + 1)]
    OBVIOUS
  <2>1. k + 1 \in 1..n /\ k + 1 \in 1..m /\ (k + 1) - 1 = k /\ k \in 0..n
    OBVIOUS
  <2>2. h[1..k] \in T /\ h[1..k] = g[1..k]
    BY <1>1, <1>4, <2>1 DEF OneByOne
  <2>3. h[1..(k + 1)] = F[<<h[1..k], k + 1>>]
    BY <1>1, <2>1 DEF OneByOne
  <2>4. g[1..(k + 1)] = G[<<g[1..k], k + 1>>]
    BY <1>2, <2>1 DEF OneByOne
  <2> QED
    BY <2>1, <2>2, <2>3, <2>4 DEF SameSteps
<1>5. Nat \subseteq S
  <2> HIDE DEF S
  <2> QED
    BY <1>3, <1>4, EveryNatural
<1>6. h[1..n] = g[1..n]
  BY <1>5
<1>7. n \in 0..n /\ m \in 1..m /\ m - 1 = n
  OBVIOUS
<1>8. h[1..n] \in T
  BY <1>1, <1>7 DEF OneByOne
<1>9. g[1..m] = G[<<g[1..n], m>>]
  BY <1>2, <1>7 DEF OneByOne
<1> QED
  BY <1>6, <1>8, <1>9

(* A set that has the empty sequence, and with a sequence each that is one   *)
(* element longer, has them all.                                             *)
LEMMA EverySequence ==
  ASSUME NEW E, NEW S, <<>> \in S,
         \A s \in Seq(E), e \in E : s \in S => Append(s, e) \in S
  PROVE  Seq(E) \subseteq S
<1> DEFINE L == {n \in Nat : \A s \in Seq(E) : Len(s) = n => s \in S}
<1>1. 0 \in L
  OBVIOUS
<1>2. ASSUME NEW n \in Nat, n \in L PROVE n + 1 \in L
  <2> SUFFICES ASSUME NEW s \in Seq(E), Len(s) = n + 1 PROVE s \in S
    OBVIOUS
  <2> DEFINE front == [i \in 1..n |-> s[i]]
  <2>1. front \in Seq(E) /\ Len(front) = n /\ s[n + 1] \in E
    OBVIOUS
  <2>2. s = Append(front, s[n + 1])
    OBVIOUS
  <2> HIDE DEF front
  <2> QED
    BY <1>2, <2>1, <2>2
<1>3. Nat \subseteq L
  <2> HIDE DEF L
  <2> QED
    BY <1>1, <1>2, EveryNatural
<1> QED
  BY <1>3
=============================================================================
