---------------------------- MODULE PapersProofs ----------------------------
(*****************************************************************************)
(* The paper library, proved for any papers, PDFs, uploads and tool calls:   *)
(* what is committed is whole papers; what a call shows was stored, once and *)
(* in the order of both rankings; the windows of a page leave out nothing    *)
(* but blanks; and what is short enough can be cited wherever they are cut.  *)
(*****************************************************************************)
EXTENDS Papers, RecursionLemmas

-----------------------------------------------------------------------------
(* Sets of positions, lists and rankings.                                    *)

(* The image of a finite set.                                                *)
LEMMA ImageIsFinite ==
  ASSUME NEW f, IsFiniteSet(DOMAIN f)
  PROVE  IsFiniteSet({f[x] : x \in DOMAIN f})
<1> DEFINE S == DOMAIN f
           T == {f[x] : x \in S}
           g == [x \in S |-> f[x]]
<1>1. g \in Surjection(S, T)
  BY DEF Surjection
<1> QED
  BY <1>1, FS_Surjection

(* A list is a sequence, and stays one when an element is added.             *)
LEMMA ListFacts ==
  ASSUME NEW list, IsList(list)
  PROVE  /\ Len(list) \in Nat /\ DOMAIN list = 1..Len(list)
         /\ \A x : IsList(Append(list, x))
<1>1. list \in Seq(Range(list))
  BY DEF IsList
<1>2. Len(list) \in Nat /\ DOMAIN list = 1..Len(list)
  BY <1>1
<1>3. ASSUME NEW x PROVE IsList(Append(list, x))
  <2> DEFINE longer == Append(list, x)
             S == Range(list) \cup {x}
  <2>1. list \in Seq(S)
    BY <1>1
  <2>2. /\ DOMAIN longer = 1..Len(longer) /\ Len(longer) \in Nat
        /\ longer = [i \in 1..Len(longer) |-> longer[i]]
    <3>1. longer \in Seq(S)
      BY <2>1
    <3> HIDE DEF S, longer
    <3> QED
      BY <3>1
  <2> HIDE DEF longer
  <2>3. \A i \in 1..Len(longer) : longer[i] \in Range(longer)
    BY <2>2 DEF Range
  <2> QED
    BY <2>2, <2>3 DEF IsList, longer
<1> QED
  BY <1>2, <1>3

(* A sequence is a list of what is in it.                                    *)
LEMMA SequenceIsList ==
  ASSUME NEW S, NEW s \in Seq(S)
  PROVE  IsList(s) /\ Range(s) \subseteq S
<1>1. /\ DOMAIN s = 1..Len(s) /\ Len(s) \in Nat /\ s = [i \in 1..Len(s) |-> s[i]]
      /\ \A i \in 1..Len(s) : s[i] \in S
  OBVIOUS
<1>2. Range(s) = {s[i] : i \in 1..Len(s)}
  BY <1>1 DEF Range
<1>3. s \in Seq(Range(s))
  BY <1>1, <1>2
<1> QED
  BY <1>1, <1>2, <1>3 DEF IsList

(* A ranking is a sequence without repetition.                               *)
LEMMA RankingFacts ==
  ASSUME NEW S, IsFiniteSet(S), NEW ranking \in Rankings(S)
  PROVE  /\ ranking \in Seq(S) /\ Len(ranking) \in Nat /\ DOMAIN ranking = 1..Len(ranking)
         /\ \A i, j \in DOMAIN ranking : ranking[i] = ranking[j] => i = j
<1>1. PICK T \in SUBSET S : ranking \in SetToSeqs(T)
  BY DEF Rankings
<1>2. Cardinality(T) \in Nat
  BY FS_Subset, FS_CardinalityType
<1>3. /\ ranking \in [1..Cardinality(T) -> T]
      /\ \A i, j \in 1..Cardinality(T) : i # j => ranking[i] # ranking[j]
  BY <1>1 DEF SetToSeqs
<1>4. ranking \in Seq(S)
  BY <1>2, <1>3
<1> QED
  BY <1>3, <1>4

-----------------------------------------------------------------------------
(* The tables, paper by paper.                                               *)
Fields(x, y) == x = [field \in DOMAIN y |-> x[field]]
Of(S, p) == {x \in S : x.paper = p}

(* What the passages of a paper show of it; its rows in the full-text index, *)
(* and its vectors, are theirs, the vectors of one provider.                 *)
Shown(t, p) == {RowOf(p, t.papers[p], x) : x \in Of(t.passages, p)}
VectorRow(e) == [paper |-> e.paper, title |-> e.title, id |-> e.id, text |-> e.text]
OneProvider(vectors) == \A e, f \in vectors : e.provider = f.provider
Indexed(t, p) ==
  /\ Of(Range(t.fts), p) = Shown(t, p)
  /\ {VectorRow(e) : e \in Of(t.embeddings, p)} = Shown(t, p)
  /\ OneProvider(Of(t.embeddings, p))

(* The keys of the tables, and what each row refers to.                      *)
Keyed(passages) ==
  \A x, y \in passages : x.paper = y.paper /\ x.id = y.id => x = y
NoneTwice(fts) == \A i, j \in DOMAIN fts : fts[i] = fts[j] => i = j
Rowids(fts) == \E n \in Nat : DOMAIN fts \subseteq 1..n
Referring(t) ==
  /\ \A x \in t.passages : x.paper \in DOMAIN t.papers
  /\ \A i \in DOMAIN t.fts : t.fts[i].paper \in DOMAIN t.papers
  /\ \A e \in t.embeddings : e.paper \in DOMAIN t.papers
Sane(t) ==
  /\ Fields(t, NoTables) /\ Referring(t)
  /\ IsFiniteSet(t.passages) /\ Keyed(t.passages)
  /\ \A x \in t.passages : x = [paper |-> x.paper, id |-> x.id, text |-> x.text]
  /\ Rowids(t.fts) /\ NoneTwice(t.fts)
Whole(t) == Sane(t) /\ \A p \in DOMAIN t.papers : Indexed(t, p)

(* The tables of a transaction before its k-th statement: every other paper  *)
(* is whole, and this one what the statements so far have made of it.        *)
NewRows == {RowOf(upload.paper, upload.title, upload.passages[i]) :
              i \in DOMAIN upload.passages}
NewVectors == {[paper |-> p.paper, id |-> p.id, provider |-> provider,
                title |-> upload.title, text |-> p.text] : p \in NewPassages}
NoIdTwice(passages) ==
  \A i, j \in DOMAIN passages : passages[i].id = passages[j].id => i = j
Written(t, k) ==
  /\ k >= 2 => upload.paper \in DOMAIN t.papers /\ t.papers[upload.paper] = upload.title
  /\ k >= 3 => /\ Of(t.passages, upload.paper) = (IF k >= 5 THEN NewPassages ELSE {})
               /\ Of(t.embeddings, upload.paper) = (IF k >= 7 THEN NewVectors ELSE {})
  /\ k >= 4 => Of(Range(t.fts), upload.paper) = (IF k >= 6 THEN NewRows ELSE {})
  /\ k >= 5 => NoIdTwice(upload.passages)
Others(t) == \A p \in DOMAIN t.papers \ {upload.paper} : Indexed(t, p)

Ready(t, k) == Sane(t) /\ Others(t) /\ Written(t, k)

Transaction ==
  upload.pc = "add" =>
    upload.statement \in 1..Committing /\ Ready(tx, upload.statement)
Uploads == Fields(upload, NoUpload) /\ IsList(upload.passages)

(* The inductive invariant of the tables.                                    *)
Store == instance.name \in DOMAIN Instances /\ Whole(db) /\ Uploads /\ Transaction

(* A call has seen all that is there while it goes on, and has found only    *)
(* what it has seen.                                                         *)
Quoted(c, n) == \A i \in 1..n : \E row \in c.seen : Cites(row, c.evidence[i])
CallOK(c) ==
  /\ Fields(c, NoCall) /\ IsList(c.lexical) /\ IsList(c.hits) /\ IsList(c.evidence)
  /\ c.pc \in {"vector", "verify"} => Rows(db) \subseteq c.seen
  /\ c.pc = "vector" => Range(c.lexical) \subseteq c.seen
  /\ \A i \in DOMAIN c.hits : c.hits[i].row \in c.seen
  /\ c.pc \in {"verify", "saved"} =>
       c.verified \in 0..Len(c.evidence) /\ Quoted(c, c.verified)
  /\ c.pc = "saved" => c.verified = Len(c.evidence)

-----------------------------------------------------------------------------
(* What a whole library looks like.                                          *)

(* The rows of the library are what its papers show.                         *)
LEMMA RowsByPaper ==
  ASSUME NEW t, Sane(t)
  PROVE  /\ \A p \in DOMAIN t.papers : Shown(t, p) = Of(Rows(t), p)
         /\ \A row \in Rows(t) : row.paper \in DOMAIN t.papers
<1>1. ASSUME NEW p \in DOMAIN t.papers PROVE Shown(t, p) = Of(Rows(t), p)
  <2>1. ASSUME NEW row \in Shown(t, p) PROVE row \in Of(Rows(t), p)
    <3>1. PICK x \in t.passages : x.paper = p /\ row = RowOf(p, t.papers[p], x)
      BY DEF Shown, Of
    <3>2. row \in Rows(t)
      BY <3>1 DEF Rows
    <3> QED
      BY <3>1, <3>2 DEF Of, RowOf
  <2>2. ASSUME NEW row \in Of(Rows(t), p) PROVE row \in Shown(t, p)
    <3>1. PICK x \in t.passages : row = RowOf(x.paper, t.papers[x.paper], x)
      BY DEF Of, Rows
    <3>2. x.paper = p
      BY <3>1 DEF Of, RowOf
    <3> QED
      BY <3>1, <3>2 DEF Shown, Of
  <2> QED
    BY <2>1, <2>2
<1>2. ASSUME NEW row \in Rows(t) PROVE row.paper \in DOMAIN t.papers
  BY DEF Rows, RowOf
<1> QED
  BY <1>1, <1>2

(* The rows are as many as the passages.                                     *)
LEMMA RowsCounted ==
  ASSUME NEW t, Sane(t)
  PROVE  IsFiniteSet(Rows(t)) /\ Cardinality(Rows(t)) = Cardinality(t.passages)
<1> DEFINE S == t.passages
           g == [x \in S |-> RowOf(x.paper, t.papers[x.paper], x)]
<1>1. \A x \in S : x.paper \in DOMAIN t.papers
  BY DEF Sane, Referring
<1>2. g \in [S -> Rows(t)]
  BY <1>1 DEF Rows
<1>3. \A x, y \in S : g[x] = g[y] => x = y
  <2> SUFFICES ASSUME NEW x \in S, NEW y \in S, g[x] = g[y] PROVE x = y
    OBVIOUS
  <2>1. x.paper = y.paper /\ x.id = y.id
    BY DEF RowOf
  <2> QED
    BY <2>1 DEF Sane, Keyed
<1>4. \A row \in Rows(t) : \E x \in S : row = g[x]
  BY DEF Rows
<1>5. g \in Bijection(S, Rows(t))
  <2> HIDE DEF g, S
  <2> QED
    BY <1>2, <1>3, <1>4 DEF Bijection, Injection, Surjection, IsInjective
<1>6. IsFiniteSet(S)
  BY DEF Sane
<1> HIDE DEF g, S
<1> QED
  BY <1>5, <1>6, FS_Bijection DEF ExistsBijection, S

(* The full-text index has finitely many rowids.                             *)
LEMMA RowidsFinite ==
  ASSUME NEW fts, Rowids(fts)
  PROVE  IsFiniteSet(DOMAIN fts)
<1>1. PICK n \in Nat : DOMAIN fts \subseteq 1..n
  BY DEF Rowids
<1>2. IsFiniteSet(1..n)
  BY FS_Interval
<1> QED
  BY <1>1, <1>2, FS_Subset

(* A library of whole papers is what IndexMatchesPassages asks for.          *)
LEMMA WholeMatches == Whole(db) => IndexMatchesPassages
<1> SUFFICES ASSUME Whole(db) PROVE IndexMatchesPassages
  OBVIOUS
<1>0. Sane(db) /\ \A p \in DOMAIN db.papers : Indexed(db, p)
  BY DEF Whole
<1>1. \A p \in db.passages : p.paper \in DOMAIN db.papers
  BY <1>0 DEF Sane, Referring
<1>2. Range(db.fts) = Rows(db)
  <2>1. ASSUME NEW row \in Range(db.fts) PROVE row \in Rows(db)
    <3>1. PICK p \in DOMAIN db.papers : row \in Of(Range(db.fts), p)
      BY <1>0 DEF Sane, Referring, Of, Range
    <3> QED
      BY <1>0, <3>1, RowsByPaper DEF Indexed, Of
  <2>2. ASSUME NEW row \in Rows(db) PROVE row \in Range(db.fts)
    <3>1. PICK p \in DOMAIN db.papers : row \in Of(Rows(db), p)
      BY <1>0, RowsByPaper DEF Of
    <3>2. row \in Of(Range(db.fts), p)
      BY <1>0, <3>1, RowsByPaper DEF Indexed
    <3> QED
      BY <3>2 DEF Of
  <2> QED
    BY <2>1, <2>2
<1>3. Cardinality(DOMAIN db.fts) = Cardinality(db.passages)
  <2> DEFINE S == DOMAIN db.fts
             f == [i \in S |-> db.fts[i]]
  <2>1. f \in Bijection(S, Rows(db))
    <3>1. /\ \A i \in S : f[i] \in Rows(db)
          /\ \A i, j \in S : f[i] = f[j] => i = j
          /\ \A row \in Rows(db) : \E i \in S : row = f[i]
      BY <1>0, <1>2 DEF Sane, NoneTwice, Range
    <3> QED
      BY <3>1 DEF Bijection, Injection, Surjection, IsInjective
  <2>2. IsFiniteSet(S)
    BY <1>0, RowidsFinite DEF Sane
  <2> HIDE DEF S, f
  <2>3. Cardinality(Rows(db)) = Cardinality(S)
    BY <2>1, <2>2, FS_Bijection DEF ExistsBijection
  <2> QED
    BY <1>0, <2>3, RowsCounted DEF S
<1>4. \A e, f \in db.embeddings : e.paper = f.paper => e.provider = f.provider
  <2> SUFFICES ASSUME NEW e \in db.embeddings, NEW f \in db.embeddings, e.paper = f.paper
               PROVE  e.provider = f.provider
    OBVIOUS
  <2>1. e.paper \in DOMAIN db.papers
    BY <1>0 DEF Sane, Referring
  <2> QED
    BY <1>0, <2>1 DEF Indexed, OneProvider, Of
<1>5. {VectorRow(e) : e \in db.embeddings} = Rows(db)
  <2>1. ASSUME NEW e \in db.embeddings PROVE VectorRow(e) \in Rows(db)
    <3>1. e.paper \in DOMAIN db.papers /\ e \in Of(db.embeddings, e.paper)
      BY <1>0 DEF Sane, Referring, Of
    <3>2. VectorRow(e) \in Shown(db, e.paper)
      BY <1>0, <3>1 DEF Indexed
    <3> QED
      BY <1>0, <3>1, <3>2, RowsByPaper DEF Of
  <2>2. ASSUME NEW row \in Rows(db) PROVE \E e \in db.embeddings : row = VectorRow(e)
    <3>1. PICK p \in DOMAIN db.papers : row \in Of(Rows(db), p)
      BY <1>0, RowsByPaper DEF Of
    <3>2. row \in {VectorRow(e) : e \in Of(db.embeddings, p)}
      BY <1>0, <3>1, RowsByPaper DEF Indexed
    <3> QED
      BY <3>2 DEF Of
  <2> QED
    BY <2>1, <2>2
<1> QED
  BY <1>1, <1>2, <1>3, <1>4, <1>5 DEF IndexMatchesPassages, VectorRow

-----------------------------------------------------------------------------
(* The statements of a transaction.                                          *)
(* A statement that touches nothing of the other papers leaves them whole.   *)
LEMMA OthersKept ==
  ASSUME NEW t, NEW s, Others(t),
         \A p \in DOMAIN s.papers \ {upload.paper} :
           /\ p \in DOMAIN t.papers /\ s.papers[p] = t.papers[p]
           /\ Of(s.passages, p) = Of(t.passages, p)
           /\ Of(Range(s.fts), p) = Of(Range(t.fts), p)
           /\ Of(s.embeddings, p) = Of(t.embeddings, p)
  PROVE  Others(s)
<1> SUFFICES ASSUME NEW p \in DOMAIN s.papers \ {upload.paper} PROVE Indexed(s, p)
  BY DEF Others
<1>1. Indexed(t, p)
  BY DEF Others
<1>2. Shown(s, p) = Shown(t, p)
  BY DEF Shown
<1> QED
  BY <1>1, <1>2 DEF Indexed

(* insert_paper: the paper has its title.                                    *)
LEMMA PaperInserted ==
  ASSUME NEW t, Ready(t, 1)
  PROVE  Ready(InsertPaper(t), 2)
<1> DEFINE s == InsertPaper(t)
<1>1. /\ Fields(s, NoTables)
      /\ DOMAIN s.papers = DOMAIN t.papers \cup {upload.paper}
      /\ s.papers[upload.paper] = upload.title
      /\ \A p \in DOMAIN t.papers \ {upload.paper} : s.papers[p] = t.papers[p]
      /\ s.passages = t.passages /\ s.fts = t.fts /\ s.embeddings = t.embeddings
  BY DEF InsertPaper, Sane, Fields, NoTables, Ready
<1> HIDE DEF s
<1>2. Sane(s)
  BY <1>1 DEF Sane, Ready, Referring
<1>3. Others(s)
  BY <1>1, OthersKept DEF Ready
<1>4. Written(s, 2)
  BY <1>1 DEF Written
<1> QED
  BY <1>2, <1>3, <1>4 DEF Ready, s

(* delete_passages: it has no passage and no vector.                         *)
LEMMA PassagesDeleted ==
  ASSUME NEW t, Ready(t, 2)
  PROVE  Ready(DeletePassages(t), 3)
<1> DEFINE s == DeletePassages(t)
<1>1. /\ Fields(s, NoTables) /\ s.papers = t.papers /\ s.fts = t.fts
      /\ s.passages = {p \in t.passages : p.paper # upload.paper}
      /\ s.embeddings = {e \in t.embeddings : e.paper # upload.paper}
  BY DEF DeletePassages, Sane, Fields, NoTables, Ready
<1> HIDE DEF s
<1>2. Sane(s)
  <2>1. IsFiniteSet(s.passages)
    BY <1>1, FS_Subset DEF Sane, Ready
  <2>2. Referring(s)
    BY <1>1 DEF Sane, Ready, Referring
  <2>3. Keyed(s.passages)
    BY <1>1 DEF Sane, Ready, Keyed
  <2> QED
    BY <1>1, <2>1, <2>2, <2>3 DEF Sane, Ready
<1>3. Others(s)
  <2>1. ASSUME NEW p \in DOMAIN s.papers \ {upload.paper}
        PROVE  Of(s.passages, p) = Of(t.passages, p) /\ Of(s.embeddings, p) = Of(t.embeddings, p)
    BY <1>1 DEF Of
  <2> QED
    BY <1>1, <2>1, OthersKept DEF Ready
<1>4. Written(s, 3)
  <2>1. Of(s.passages, upload.paper) = {} /\ Of(s.embeddings, upload.paper) = {}
    BY <1>1 DEF Of
  <2> QED
    BY <1>1, <2>1 DEF Written, Ready
<1> QED
  BY <1>2, <1>3, <1>4 DEF Ready, s

(* delete_fts: nor a row of the full-text index.                             *)
LEMMA FtsDeleted ==
  ASSUME NEW t, Ready(t, 3)
  PROVE  Ready(DeleteFts(t), 4)
<1> DEFINE s == DeleteFts(t)
<1>1. /\ Fields(s, NoTables) /\ s.papers = t.papers
      /\ s.passages = t.passages /\ s.embeddings = t.embeddings
      /\ DOMAIN s.fts = {i \in DOMAIN t.fts : t.fts[i].paper # upload.paper}
      /\ \A i \in DOMAIN s.fts : s.fts[i] = t.fts[i]
  BY DEF DeleteFts, RestrictValues, Restrict, Sane, Fields, NoTables, Ready
<1> HIDE DEF s
<1>2. Sane(s)
  <2>1. NoneTwice(s.fts) /\ Rowids(s.fts)
    BY <1>1 DEF Sane, Ready, NoneTwice, Rowids
  <2>2. Referring(s)
    BY <1>1 DEF Sane, Ready, Referring
  <2> QED
    BY <1>1, <2>1, <2>2 DEF Sane, Ready
<1>3. Others(s)
  <2>1. ASSUME NEW p \in DOMAIN s.papers \ {upload.paper}
        PROVE  Of(Range(s.fts), p) = Of(Range(t.fts), p)
    BY <1>1 DEF Of, Range
  <2> QED
    BY <1>1, <2>1, OthersKept DEF Ready
<1>4. Written(s, 4)
  <2>1. Of(Range(s.fts), upload.paper) = {}
    BY <1>1 DEF Of, Range
  <2> QED
    BY <1>1, <2>1 DEF Written, Ready
<1> QED
  BY <1>2, <1>3, <1>4 DEF Ready, s

(* The passages of an upload are a finite set, of its paper.                 *)
LEMMA NewPassagesFacts ==
  ASSUME IsList(upload.passages)
  PROVE  /\ IsFiniteSet(NewPassages)
         /\ \A x \in NewPassages :
              x.paper = upload.paper /\ x = [paper |-> x.paper, id |-> x.id, text |-> x.text]
<1> DEFINE S == DOMAIN upload.passages
           f == [i \in S |-> [paper |-> upload.paper, id |-> upload.passages[i].id,
                              text |-> upload.passages[i].text]]
<1>1. IsFiniteSet(S)
  <2>1. Len(upload.passages) \in Nat /\ S = 1..Len(upload.passages)
    BY ListFacts
  <2> QED
    BY <2>1, FS_Interval
<1>2. NewPassages = {f[i] : i \in DOMAIN f}
  BY DEF NewPassages
<1>3. IsFiniteSet({f[i] : i \in DOMAIN f})
  <2>1. IsFiniteSet(DOMAIN f)
    BY <1>1
  <2> HIDE DEF f, S
  <2> QED
    BY <2>1, ImageIsFinite
<1>4. \A x \in NewPassages :
        x.paper = upload.paper /\ x = [paper |-> x.paper, id |-> x.id, text |-> x.text]
  BY DEF NewPassages
<1> QED
  BY <1>2, <1>3, <1>4

(* Where the table refuses none, no id occurs twice.                         *)
LEMMA NotRefused ==
  ASSUME IsList(upload.passages),
         ~(Cardinality(Ids(upload.passages)) < Len(upload.passages))
  PROVE  NoIdTwice(upload.passages)
<1> DEFINE S == DOMAIN upload.passages
           T == Ids(upload.passages)
           f == [i \in S |-> upload.passages[i].id]
<1>1. Len(upload.passages) \in Nat /\ S = 1..Len(upload.passages)
  BY ListFacts
<1>2. IsFiniteSet(S) /\ Cardinality(S) = Len(upload.passages)
  BY <1>1, FS_Interval
<1>3. f \in Surjection(S, T)
  BY DEF Surjection, Ids
<1>4. IsFiniteSet(T) /\ Cardinality(T) \in Nat /\ Cardinality(T) <= Cardinality(S)
      /\ (Cardinality(T) = Cardinality(S) => f \in Injection(S, T))
  <2> HIDE DEF f, S, T
  <2>1. /\ IsFiniteSet(T) /\ Cardinality(T) <= Cardinality(S)
        /\ Cardinality(T) = Cardinality(S) <=> f \in Injection(S, T)
    BY <1>2, <1>3, FS_Surjection
  <2> QED
    BY <2>1, FS_CardinalityType
<1>5. Cardinality(T) = Cardinality(S)
  <2> HIDE DEF f, S, T
  <2>1. ~(Cardinality(T) < Len(upload.passages))
    BY DEF T
  <2> QED
    BY <1>1, <1>2, <1>4, <2>1
<1>6. f \in Injection(S, T)
  BY <1>4, <1>5
<1> QED
  BY <1>6 DEF Injection, IsInjective, NoIdTwice

(* insert_passages: those of the upload, each with a key of its own.         *)
LEMMA PassagesInserted ==
  ASSUME NEW t, Ready(t, 4), IsList(upload.passages), NoIdTwice(upload.passages)
  PROVE  Ready(InsertPassages(t), 5)
<1> DEFINE s == InsertPassages(t)
<1>1. /\ Fields(s, NoTables) /\ s.papers = t.papers
      /\ s.fts = t.fts /\ s.embeddings = t.embeddings
      /\ s.passages = t.passages \cup NewPassages
  BY DEF InsertPassages, Sane, Fields, NoTables, Ready
<1> HIDE DEF s
<1>2. /\ upload.paper \in DOMAIN t.papers /\ t.papers[upload.paper] = upload.title
      /\ Of(t.passages, upload.paper) = {} /\ Of(t.embeddings, upload.paper) = {}
      /\ Of(Range(t.fts), upload.paper) = {}
  BY DEF Ready, Written
<1>3. Of(s.passages, upload.paper) = NewPassages
  BY <1>1, <1>2, NewPassagesFacts DEF Of
<1>4. Keyed(s.passages)
  <2> SUFFICES ASSUME NEW x \in s.passages, NEW y \in s.passages,
                      x.paper = y.paper, x.id = y.id
               PROVE  x = y
    BY DEF Keyed
  <2>1. CASE x \in NewPassages /\ y \in NewPassages
    <3>1. PICK i \in DOMAIN upload.passages :
            x = [paper |-> upload.paper, id |-> upload.passages[i].id,
                 text |-> upload.passages[i].text]
      BY <2>1 DEF NewPassages
    <3>2. PICK j \in DOMAIN upload.passages :
            y = [paper |-> upload.paper, id |-> upload.passages[j].id,
                 text |-> upload.passages[j].text]
      BY <2>1 DEF NewPassages
    <3>3. i = j
      BY <3>1, <3>2 DEF NoIdTwice
    <3> QED
      BY <3>1, <3>2, <3>3
  <2>2. CASE x.paper # upload.paper
    BY <1>1, <2>2, NewPassagesFacts DEF Ready, Sane, Keyed
  <2>3. CASE x.paper = upload.paper
    BY <1>3, <2>1, <2>3 DEF Of
  <2> QED
    BY <2>2, <2>3
<1>5. Sane(s)
  <2>1. IsFiniteSet(s.passages)
    <3>1. IsFiniteSet(t.passages) /\ IsFiniteSet(NewPassages)
      BY NewPassagesFacts DEF Sane, Ready
    <3>2. IsFiniteSet(t.passages \cup NewPassages)
      BY <3>1, FS_Union
    <3> QED
      BY <1>1, <3>2
  <2>2. Referring(s)
    BY <1>1, <1>2, NewPassagesFacts DEF Sane, Ready, Referring
  <2>3. \A x \in s.passages : x = [paper |-> x.paper, id |-> x.id, text |-> x.text]
    BY <1>1, NewPassagesFacts DEF Sane, Ready
  <2> QED
    BY <1>1, <1>4, <2>1, <2>2, <2>3 DEF Sane, Ready
<1>6. Others(s)
  <2>1. ASSUME NEW p \in DOMAIN s.papers \ {upload.paper}
        PROVE  Of(s.passages, p) = Of(t.passages, p)
    BY <1>1, NewPassagesFacts DEF Of
  <2> QED
    BY <1>1, <2>1, OthersKept DEF Ready
<1>7. Written(s, 5)
  BY <1>1, <1>2, <1>3 DEF Written
<1> QED
  BY <1>5, <1>6, <1>7 DEF Ready, s

(* insert_fts: their rows, under rowids that were not in use.                *)
LEMMA FtsInserted ==
  ASSUME NEW t, Ready(t, 5), IsList(upload.passages)
  PROVE  Ready(InsertFts(t), 6)
<1> DEFINE s == InsertFts(t)
           last == Max(DOMAIN t.fts \cup {0})
           count == Len(upload.passages)
<1>0. count \in Nat /\ DOMAIN upload.passages = 1..count
  BY ListFacts
<1>1. /\ last \in Nat /\ DOMAIN t.fts \subseteq 1..last
  <2>1. PICK n \in Nat : DOMAIN t.fts \subseteq 1..n
    BY DEF Ready, Sane, Rowids
  <2>2. DOMAIN t.fts \cup {0} \in SUBSET (0..n) /\ DOMAIN t.fts \cup {0} # {}
    BY <2>1
  <2> HIDE DEF last
  <2>3. last \in DOMAIN t.fts \cup {0} /\ \A i \in DOMAIN t.fts \cup {0} : i <= last
    BY <2>2, MaxExists DEF last
  <2> QED
    BY <2>1, <2>3
<1>2. /\ Fields(s, NoTables) /\ s.papers = t.papers
      /\ s.passages = t.passages /\ s.embeddings = t.embeddings
      /\ s.fts = [rowid \in DOMAIN t.fts \cup (last + 1)..(last + count) |->
                    IF rowid <= last THEN t.fts[rowid]
                    ELSE RowOf(upload.paper, upload.title, upload.passages[rowid - last])]
  BY DEF InsertFts, Sane, Fields, NoTables, Ready
<1> HIDE DEF s, last, count
<1>3. /\ DOMAIN s.fts = DOMAIN t.fts \cup (last + 1)..(last + count)
      /\ \A i \in DOMAIN t.fts : s.fts[i] = t.fts[i]
      /\ \A i \in DOMAIN upload.passages :
           /\ last + i \in DOMAIN s.fts
           /\ s.fts[last + i] = RowOf(upload.paper, upload.title, upload.passages[i])
      /\ \A i \in DOMAIN s.fts : i \in DOMAIN t.fts
           \/ \E j \in DOMAIN upload.passages : i = last + j
  <2>1. DOMAIN s.fts = DOMAIN t.fts \cup (last + 1)..(last + count)
    BY <1>2
  <2>2. ASSUME NEW i \in DOMAIN t.fts PROVE s.fts[i] = t.fts[i]
    <3>1. i \in 1..last /\ i <= last
      BY <1>1
    <3> QED
      BY <1>2, <3>1
  <2>3. ASSUME NEW i \in DOMAIN upload.passages
        PROVE  /\ last + i \in DOMAIN s.fts
               /\ s.fts[last + i] = RowOf(upload.paper, upload.title, upload.passages[i])
    <3>1. i \in 1..count /\ last + i \in (last + 1)..(last + count)
          /\ ~(last + i <= last) /\ (last + i) - last = i
      BY <1>0, <1>1
    <3> QED
      BY <1>2, <3>1
  <2>4. ASSUME NEW i \in (last + 1)..(last + count)
        PROVE  \E j \in DOMAIN upload.passages : i = last + j
    <3>1. i - last \in 1..count /\ i = last + (i - last)
      BY <1>0, <1>1
    <3> QED
      BY <1>0, <3>1
  <2> QED
    BY <2>1, <2>2, <2>3, <2>4
<1>4. /\ upload.paper \in DOMAIN t.papers /\ t.papers[upload.paper] = upload.title
      /\ Of(t.passages, upload.paper) = NewPassages /\ Of(t.embeddings, upload.paper) = {}
      /\ Of(Range(t.fts), upload.paper) = {} /\ NoIdTwice(upload.passages)
  BY DEF Ready, Written
<1>5. Range(s.fts) = Range(t.fts) \cup NewRows
  BY <1>3 DEF Range, NewRows
<1>6. \A row \in NewRows : row.paper = upload.paper
  BY DEF NewRows, RowOf
<1>7. NoneTwice(s.fts)
  <2> SUFFICES ASSUME NEW i \in DOMAIN s.fts, NEW j \in DOMAIN s.fts, s.fts[i] = s.fts[j]
               PROVE  i = j
    BY DEF NoneTwice
  <2>1. ASSUME NEW n \in DOMAIN t.fts, NEW m \in DOMAIN upload.passages
        PROVE  s.fts[n] # s.fts[last + m]
    <3>1. t.fts[n].paper # upload.paper
      <4>1. t.fts[n] \in Range(t.fts)
        BY DEF Range
      <4> QED
        BY <1>4, <4>1 DEF Of
    <3>2. s.fts[last + m].paper = upload.paper
      <4>1. s.fts[last + m] = RowOf(upload.paper, upload.title, upload.passages[m])
        BY <1>3
      <4> QED
        BY <4>1 DEF RowOf
    <3> QED
      BY <1>3, <3>1, <3>2
  <2>2. CASE i \in DOMAIN t.fts /\ j \in DOMAIN t.fts
    BY <1>3, <2>2 DEF Ready, Sane, NoneTwice
  <2>3. ASSUME NEW n \in DOMAIN upload.passages, NEW m \in DOMAIN upload.passages,
               i = last + n, j = last + m
        PROVE  i = j
    <3>1. upload.passages[n].id = upload.passages[m].id
      <4>1. RowOf(upload.paper, upload.title, upload.passages[n])
            = RowOf(upload.paper, upload.title, upload.passages[m])
        BY <1>3, <2>3
      <4> QED
        BY <4>1 DEF RowOf
    <3> QED
      BY <1>4, <2>3, <3>1 DEF NoIdTwice
  <2> QED
    BY <1>3, <2>1, <2>2, <2>3
<1>8. Rowids(s.fts)
  <2>1. last + count \in Nat /\ DOMAIN s.fts \subseteq 1..(last + count)
    BY <1>0, <1>1, <1>3
  <2> QED
    BY <2>1 DEF Rowids
<1>9. Sane(s)
  <2>1. Referring(s)
    <3>1. \A i \in DOMAIN s.fts : s.fts[i].paper \in DOMAIN t.papers
      <4>1. ASSUME NEW i \in DOMAIN t.fts PROVE s.fts[i].paper \in DOMAIN t.papers
        BY <1>3 DEF Ready, Sane, Referring
      <4>2. ASSUME NEW j \in DOMAIN upload.passages
            PROVE  s.fts[last + j].paper \in DOMAIN t.papers
        <5>1. s.fts[last + j] = RowOf(upload.paper, upload.title, upload.passages[j])
          BY <1>3
        <5> QED
          BY <1>4, <5>1 DEF RowOf
      <4> QED
        BY <1>3, <4>1, <4>2
    <3> QED
      BY <1>2, <3>1 DEF Ready, Sane, Referring
  <2> QED
    BY <1>2, <1>7, <1>8, <2>1 DEF Sane, Ready
<1>10. Others(s)
  <2>1. ASSUME NEW p \in DOMAIN s.papers \ {upload.paper}
        PROVE  Of(Range(s.fts), p) = Of(Range(t.fts), p)
    BY <1>5, <1>6 DEF Of
  <2> QED
    BY <1>2, <2>1, OthersKept DEF Ready
<1>11. Written(s, 6)
  <2>1. Of(Range(s.fts), upload.paper) = NewRows
    BY <1>4, <1>5, <1>6 DEF Of
  <2> QED
    BY <1>2, <1>4, <2>1 DEF Written
<1> QED
  BY <1>9, <1>10, <1>11 DEF Ready, s

(* insert_embeddings: their vectors, of the provider in use.                 *)
LEMMA EmbeddingsInserted ==
  ASSUME NEW t, Ready(t, 6)
  PROVE  Ready(InsertEmbeddings(t), 7)
<1> DEFINE s == InsertEmbeddings(t)
<1>1. /\ Fields(s, NoTables) /\ s.papers = t.papers
      /\ s.passages = t.passages /\ s.fts = t.fts
      /\ s.embeddings = t.embeddings \cup NewVectors
  BY DEF InsertEmbeddings, NewVectors, Sane, Fields, NoTables, Ready
<1> HIDE DEF s
<1>2. /\ upload.paper \in DOMAIN t.papers /\ t.papers[upload.paper] = upload.title
      /\ Of(t.passages, upload.paper) = NewPassages /\ Of(t.embeddings, upload.paper) = {}
      /\ Of(Range(t.fts), upload.paper) = NewRows /\ NoIdTwice(upload.passages)
  BY DEF Ready, Written
<1>3. \A e \in NewVectors : e.paper = upload.paper
  BY DEF NewVectors, NewPassages
<1>4. Sane(s)
  BY <1>1, <1>2, <1>3 DEF Sane, Ready, Referring
<1>5. Others(s)
  <2>1. ASSUME NEW p \in DOMAIN s.papers \ {upload.paper}
        PROVE  Of(s.embeddings, p) = Of(t.embeddings, p)
    BY <1>1, <1>3 DEF Of
  <2> QED
    BY <1>1, <2>1, OthersKept DEF Ready
<1>6. Written(s, 7)
  <2>1. Of(s.embeddings, upload.paper) = NewVectors
    BY <1>1, <1>2, <1>3 DEF Of
  <2> QED
    BY <1>1, <1>2, <2>1 DEF Written
<1> QED
  BY <1>4, <1>5, <1>6 DEF Ready, s

(* After the last of them the upload's paper is whole, too.                  *)
LEMMA WrittenIsWhole ==
  ASSUME NEW t, Ready(t, 7)
  PROVE  Whole(t)
<1>1. /\ upload.paper \in DOMAIN t.papers /\ t.papers[upload.paper] = upload.title
      /\ Of(t.passages, upload.paper) = NewPassages
      /\ Of(t.embeddings, upload.paper) = NewVectors
      /\ Of(Range(t.fts), upload.paper) = NewRows
  BY DEF Ready, Written
<1> DEFINE Made(i) == [paper |-> upload.paper, id |-> upload.passages[i].id,
                       text |-> upload.passages[i].text]
           Vector(x) == [paper |-> x.paper, id |-> x.id, provider |-> provider,
                         title |-> upload.title, text |-> x.text]
           Row(i) == RowOf(upload.paper, upload.title, upload.passages[i])
<1>2. /\ NewPassages = {Made(i) : i \in DOMAIN upload.passages}
      /\ NewRows = {Row(i) : i \in DOMAIN upload.passages}
      /\ NewVectors = {Vector(x) : x \in NewPassages}
      /\ Shown(t, upload.paper) = {RowOf(upload.paper, upload.title, x) : x \in NewPassages}
  <2>1. NewPassages = {Made(i) : i \in DOMAIN upload.passages}
    BY DEF NewPassages
  <2>2. NewRows = {Row(i) : i \in DOMAIN upload.passages}
    BY DEF NewRows
  <2>3. NewVectors = {Vector(x) : x \in NewPassages}
    BY DEF NewVectors
  <2>4. Shown(t, upload.paper) = {RowOf(upload.paper, upload.title, x) : x \in NewPassages}
    BY <1>1 DEF Shown
  <2> QED
    BY <2>1, <2>2, <2>3, <2>4
<1>3. \A i : /\ RowOf(upload.paper, upload.title, Made(i)) = Row(i)
            /\ VectorRow(Vector(Made(i))) = Row(i)
  BY DEF RowOf, VectorRow
<1> HIDE DEF Made, Vector, Row
<1>4. Shown(t, upload.paper) = NewRows /\ {VectorRow(e) : e \in NewVectors} = NewRows
  BY <1>2, <1>3
<1>5. OneProvider(NewVectors)
  BY DEF OneProvider, NewVectors
<1>6. Indexed(t, upload.paper)
  BY <1>1, <1>4, <1>5 DEF Indexed
<1> QED
  BY <1>6 DEF Whole, Ready, Others

-----------------------------------------------------------------------------
(* Every step keeps the tables so.                                           *)

(* An upload that takes its next page is not in its transaction.             *)
LEMMA NextPageFacts ==
  ASSUME NEW u, Fields(u, NoUpload), IsList(u.passages), u.pc # "add"
  PROVE  /\ Fields(NextPage(u), NoUpload) /\ IsList(NextPage(u).passages)
         /\ NextPage(u).pc # "add"
<1>1. CASE NextPage(u) = [u EXCEPT !.page = @ + 1, !.start = 0]
  BY <1>1 DEF Fields, NoUpload
<1>2. CASE NextPage(u) = NoUpload
  <2>1. IsList(<<>>)
    BY DEF IsList
  <2> QED
    BY <1>2, <2>1 DEF Fields, NoUpload
<1>3. CASE NextPage(u) = [u EXCEPT !.pc = "embed"]
  BY <1>3 DEF Fields, NoUpload
<1> QED
  BY <1>1, <1>2, <1>3 DEF NextPage

(* What is ready is so for the next statement, of the same upload.           *)
LEMMA ReadyNext ==
  ASSUME NEW t, NEW k, Ready(t, k),
         upload'.paper = upload.paper, upload'.title = upload.title,
         upload'.passages = upload.passages, provider' = provider
  PROVE  Ready(t, k)'
<1>1. NewPassages' = NewPassages
  BY DEF NewPassages
<1>2. NewRows' = NewRows
  BY DEF NewRows
<1>3. NewVectors' = NewVectors
  BY <1>1 DEF NewVectors
<1>4. Sane(t)' /\ Others(t)'
  BY DEF Ready, Others, Sane, Referring, Fields, NoTables, Keyed, NoneTwice, Rowids,
         Indexed, Shown, OneProvider, Of, VectorRow, RowOf
<1>5. Written(t, k)'
  BY <1>1, <1>2, <1>3 DEF Ready, Written
<1> QED
  BY <1>4, <1>5 DEF Ready

(* The statement of a transaction makes it ready for the next.               *)
LEMMA EffectIsReady ==
  ASSUME Transaction, Uploads, upload.pc = "add", upload.statement < Committing,
         ~Refused(Statements[upload.statement])
  PROVE  /\ upload.statement + 1 \in 1..Committing
         /\ Ready(Effect(Statements[upload.statement], tx), upload.statement + 1)
<1> DEFINE k == upload.statement
<1>0. Committing = 7
  BY DEF Committing, Statements
<1>1. /\ k \in 1..6 /\ Ready(tx, k) /\ IsList(upload.passages)
  BY <1>0 DEF Transaction, Uploads
<1>2. CASE k = 1
  <2>1. Effect(Statements[k], tx) = InsertPaper(tx)
    BY <1>2 DEF Effect, Statements
  <2> QED
    BY <1>0, <1>1, <1>2, <2>1, PaperInserted
<1>3. CASE k = 2
  <2>1. Effect(Statements[k], tx) = DeletePassages(tx)
    BY <1>3 DEF Effect, Statements
  <2> QED
    BY <1>0, <1>1, <1>3, <2>1, PassagesDeleted
<1>4. CASE k = 3
  <2>1. Effect(Statements[k], tx) = DeleteFts(tx)
    BY <1>4 DEF Effect, Statements
  <2> QED
    BY <1>0, <1>1, <1>4, <2>1, FtsDeleted
<1>5. CASE k = 4
  <2>1. Effect(Statements[k], tx) = InsertPassages(tx)
    BY <1>5 DEF Effect, Statements
  <2>2. ~(Cardinality(Ids(upload.passages)) < Len(upload.passages))
    BY <1>5 DEF Refused, Statements
  <2>3. NoIdTwice(upload.passages)
    BY <1>1, <2>2, NotRefused
  <2> QED
    BY <1>0, <1>1, <1>5, <2>1, <2>3, PassagesInserted
<1>6. CASE k = 5
  <2>1. Effect(Statements[k], tx) = InsertFts(tx)
    BY <1>6 DEF Effect, Statements
  <2> QED
    BY <1>0, <1>1, <1>6, <2>1, FtsInserted
<1>7. CASE k = 6
  <2>1. Effect(Statements[k], tx) = InsertEmbeddings(tx)
    BY <1>7 DEF Effect, Statements
  <2> QED
    BY <1>0, <1>1, <1>7, <2>1, EmbeddingsInserted
<1>8. k = 1 \/ k = 2 \/ k = 3 \/ k = 4 \/ k = 5 \/ k = 6
  BY <1>1
<1> QED
  BY <1>2, <1>3, <1>4, <1>5, <1>6, <1>7, <1>8

(* The committed tables are whole in the next state, too.                    *)
LEMMA WholeNext ==
  ASSUME NEW t, Whole(t)
  PROVE  Whole(t)'
  BY DEF Whole, Sane, Referring, Fields, NoTables, Keyed, NoneTwice, Rowids,
         Indexed, Shown, OneProvider, Of, VectorRow, RowOf

(* At first there is nothing.                                                *)
LEMMA NoTablesIsWhole == Whole(NoTables)
<1>1. Fields(NoTables, NoTables) /\ Referring(NoTables)
  BY DEF Fields, NoTables, Referring
<1>2. IsFiniteSet(NoTables.passages) /\ Keyed(NoTables.passages)
  BY FS_EmptySet DEF Keyed, NoTables
<1>3. Rowids(NoTables.fts) /\ NoneTwice(NoTables.fts)
  <2>1. DOMAIN NoTables.fts = {}
    BY DEF NoTables
  <2>2. 0 \in Nat /\ DOMAIN NoTables.fts \subseteq 1..0
    BY <2>1
  <2> QED
    BY <2>1, <2>2 DEF Rowids, NoneTwice
<1>4. DOMAIN NoTables.papers = {} /\ NoTables.passages = {}
  BY DEF NoTables
<1> QED
  BY <1>1, <1>2, <1>3, <1>4 DEF Whole, Sane

(* The tables are so at first.                                               *)
LEMMA StoreInit == Init => Store
<1> SUFFICES ASSUME Init PROVE Store
  OBVIOUS
<1>1. instance.name \in DOMAIN Instances
  BY DEF Init
<1>2. IsList(<<>>)
  BY DEF IsList
<1>3. Uploads /\ upload.pc # "add"
  BY <1>2 DEF Init, Uploads, Fields, NoUpload
<1> QED
  BY <1>1, <1>3, NoTablesIsWhole DEF Init, Store, Transaction

(* No step of an upload, of a reader or of a restart changes that.           *)
LEMMA StoreNext == Store /\ [Next]_vars => Store'
<1> SUFFICES ASSUME Store, [Next]_vars PROVE Store'
  OBVIOUS
<1> USE PapersAssumption
<1>0. /\ instance.name \in DOMAIN Instances /\ Whole(db) /\ Uploads /\ Transaction
      /\ Fields(upload, NoUpload) /\ IsList(upload.passages)
  BY DEF Store, Uploads
<1>1. ASSUME UNCHANGED <<instance, provider, db, tx, upload>> PROVE Store'
  <2>1. Transaction'
    <3> SUFFICES ASSUME upload.pc = "add" PROVE Ready(tx, upload.statement)'
      BY <1>0, <1>1 DEF Transaction, Committing
    <3>1. PICK t, k : t = tx /\ k = upload.statement
      OBVIOUS
    <3>2. Ready(t, k)'
      BY <1>0, <1>1, <3>1, ReadyNext DEF Transaction
    <3> QED
      BY <1>1, <3>1, <3>2
  <2>2. Whole(db)' /\ Uploads'
    <3>1. PICK t : t = db
      OBVIOUS
    <3>2. Whole(t)'
      BY <1>0, <3>1, WholeNext
    <3>3. Whole(db)'
      BY <1>1, <3>1, <3>2
    <3> QED
      BY <1>0, <1>1, <3>3 DEF Uploads, Fields, NoUpload
  <2> QED
    BY <1>0, <1>1, <2>1, <2>2 DEF Store
<1>2. ASSUME UNCHANGED <<instance, db>>, Fields(upload, NoUpload)',
             IsList(upload.passages)', upload'.pc # "add"
      PROVE  Store'
  <2>1. Whole(db)'
    <3>1. PICK t : t = db
      OBVIOUS
    <3>2. Whole(t)'
      BY <1>0, <3>1, WholeNext
    <3> QED
      BY <1>2, <3>1, <3>2
  <2> QED
    BY <1>0, <1>2, <2>1 DEF Store, Uploads, Transaction
<1>e. IsList(<<>>) /\ Fields(NoUpload, NoUpload) /\ NoUpload.passages = <<>>
      /\ NoUpload.pc = "idle"
  BY DEF IsList, Fields, NoUpload
<1>3. CASE AddPaper
  <2>1. PICK paper \in Settings.papers :
          upload' = [NoUpload EXCEPT !.pc = "embed", !.paper = paper.id,
                                     !.title = paper.title, !.passages = paper.passages]
    BY <1>3 DEF AddPaper
  <2>2. IsList(paper.passages)
    BY <1>0, <2>1 DEF Settings
  <2>3. Fields(upload, NoUpload)' /\ upload'.passages = paper.passages /\ upload'.pc # "add"
    BY <2>1 DEF Fields, NoUpload
  <2> QED
    BY <1>2, <1>3, <2>2, <2>3 DEF AddPaper, Uploading
<1>4. CASE ImportPdf
  <2>1. PICK pdf \in Pdfs[instance.name] :
          upload' = [NoUpload EXCEPT !.pc = "chunk", !.paper = pdf.id, !.title = pdf.title,
                                     !.pages = pdf.pages, !.page = 1]
    BY <1>4 DEF ImportPdf
  <2>2. Fields(upload, NoUpload)' /\ upload'.passages = <<>> /\ upload'.pc # "add"
    BY <2>1 DEF Fields, NoUpload
  <2> QED
    BY <1>2, <1>4, <1>e, <2>2 DEF ImportPdf, Uploading
<1>5. CASE SkipPage
  <2>1. upload' = NextPage(upload) /\ upload.pc # "add" /\ UNCHANGED <<instance, db>>
    BY <1>5 DEF SkipPage
  <2> QED
    BY <1>0, <1>2, <2>1, NextPageFacts DEF Fields, NoUpload
<1>6. CASE Window
  <2> DEFINE text == upload.pages[upload.page]
             end == WindowEnd(text, upload.start, Size)
             chunk == Strip(Slice(text, upload.start, end))
             id == <<upload.page, PassagesOfPage(upload.page) + 1>>
             next == NextStart(text, upload.start, end, Overlap)
             cut == [upload EXCEPT
                       !.windows = Append(@, [page |-> upload.page, start |-> upload.start,
                                              end |-> end]),
                       !.passages = IF chunk = <<>> THEN @
                                    ELSE Append(@, [id |-> id, text |-> chunk])]
  <2>1. /\ upload.pc = "chunk" /\ UNCHANGED <<instance, db>>
        /\ upload' = NextPage(cut) \/ upload' = [cut EXCEPT !.start = next]
    BY <1>6 DEF Window
  <2> HIDE DEF text, end, id, next, chunk
  <2>2. /\ Fields(cut, NoUpload) /\ cut.pc = "chunk"
        /\ cut.passages = (IF chunk = <<>> THEN upload.passages
                           ELSE Append(upload.passages, [id |-> id, text |-> chunk]))
    BY <1>0, <2>1 DEF Fields, NoUpload
  <2>3. \A x : IsList(Append(upload.passages, x))
    BY <1>0, ListFacts
  <2> HIDE DEF cut
  <2>4. IsList(cut.passages)
    BY <1>0, <2>2, <2>3
  <2>5. CASE upload' = NextPage(cut)
    BY <1>2, <2>1, <2>2, <2>4, <2>5, NextPageFacts DEF Fields, NoUpload
  <2>6. CASE upload' = [cut EXCEPT !.start = next]
    <3>1. Fields(upload, NoUpload)' /\ upload'.passages = cut.passages /\ upload'.pc = "chunk"
      BY <2>2, <2>6 DEF Fields, NoUpload
    <3> QED
      BY <1>2, <2>1, <2>4, <3>1
  <2> QED
    BY <2>1, <2>5, <2>6
<1>7. CASE Embed
  <2>1. CASE upload' = NoUpload
    BY <1>2, <1>7, <1>e, <2>1 DEF Embed, Fields, NoUpload
  <2>2. CASE upload' = [upload EXCEPT !.pc = "add", !.statement = 1] /\ tx' = db
    <3>1. UNCHANGED <<instance, db, provider>>
      BY <1>7 DEF Embed
    <3>2. /\ Fields(upload, NoUpload)' /\ upload'.passages = upload.passages
          /\ upload'.paper = upload.paper /\ upload'.title = upload.title
          /\ upload'.statement = 1
      BY <1>0, <2>2 DEF Fields, NoUpload
    <3>3. Ready(db, 1)
      BY <1>0 DEF Ready, Whole, Others, Written
    <3>4. PICK t, k : t = db /\ k = 1
      OBVIOUS
    <3>5. Ready(t, k)' /\ Whole(t)'
      BY <1>0, <3>1, <3>2, <3>3, <3>4, ReadyNext, WholeNext
    <3>6. Whole(db)' /\ Ready(tx, upload.statement)'
      BY <2>2, <3>1, <3>2, <3>4, <3>5
    <3>7. 1 \in 1..Committing
      BY DEF Committing, Statements
    <3> QED
      BY <1>0, <3>1, <3>2, <3>6, <3>7 DEF Store, Uploads, Transaction, Committing
  <2> QED
    BY <1>7, <2>1, <2>2 DEF Embed
<1>8. CASE Execute
  <2>1. /\ upload.pc = "add" /\ upload.statement < Committing
        /\ ~Refused(Statements[upload.statement])
        /\ tx' = Effect(Statements[upload.statement], tx)
        /\ upload' = [upload EXCEPT !.statement = @ + 1]
        /\ UNCHANGED <<instance, provider, db>>
    BY <1>8 DEF Execute
  <2>2. /\ Fields(upload, NoUpload)' /\ upload'.passages = upload.passages
        /\ upload'.paper = upload.paper /\ upload'.title = upload.title
        /\ upload'.statement = upload.statement + 1
    BY <1>0, <2>1 DEF Fields, NoUpload
  <2>3. /\ upload.statement + 1 \in 1..Committing
        /\ Ready(Effect(Statements[upload.statement], tx), upload.statement + 1)
    BY <1>0, <2>1, EffectIsReady
  <2>4. PICK t, k : /\ t = Effect(Statements[upload.statement], tx)
                    /\ k = upload.statement + 1
    OBVIOUS
  <2>5. Ready(t, k)'
    BY <2>1, <2>2, <2>3, <2>4, ReadyNext
  <2>6. Ready(tx, upload.statement)'
    BY <2>1, <2>2, <2>4, <2>5
  <2>7. PICK d : d = db
    OBVIOUS
  <2>8. Whole(d)'
    BY <1>0, <2>7, WholeNext
  <2>9. Whole(db)'
    BY <2>1, <2>7, <2>8
  <2>10. (upload.statement \in 1..Committing)'
    BY <2>2, <2>3 DEF Committing
  <2> QED
    BY <1>0, <2>1, <2>2, <2>6, <2>9, <2>10 DEF Store, Uploads, Transaction
<1>9. CASE Rollback
  BY <1>2, <1>9, <1>e DEF Rollback, Fields, NoUpload
<1>10. CASE Commit
  <2>1. /\ upload.pc = "add" /\ upload.statement = Committing /\ db' = tx
        /\ upload' = NoUpload /\ instance' = instance
    BY <1>10 DEF Commit
  <2>2. Whole(tx)
    <3>1. Committing = 7
      BY DEF Committing, Statements
    <3> QED
      BY <1>0, <2>1, <3>1, WrittenIsWhole DEF Transaction
  <2>3. PICK t : t = tx
    OBVIOUS
  <2>4. Whole(t)'
    BY <2>2, <2>3, WholeNext
  <2>5. Whole(db)'
    BY <2>1, <2>3, <2>4
  <2> QED
    BY <1>0, <1>e, <2>1, <2>5 DEF Store, Uploads, Transaction, Fields, NoUpload
<1>11. CASE Restart
  BY <1>2, <1>11, <1>e DEF Restart, Fields, NoUpload
<1>12. ASSUME NEW mode, SearchLexical(mode) PROVE Store'
  BY <1>1, <1>12 DEF SearchLexical, Called
<1>13. ASSUME NEW own, SearchVector(own) PROVE Store'
  BY <1>1, <1>13 DEF SearchVector
<1>14. ASSUME NEW evidence, Save(evidence) PROVE Store'
  BY <1>1, <1>14 DEF Save, Called
<1>15. CASE Verify \/ CreateCandidate
  BY <1>1, <1>15 DEF Verify, CreateCandidate
<1>16. CASE UNCHANGED vars
  BY <1>1, <1>16 DEF vars
<1> QED
  BY <1>3, <1>4, <1>5, <1>6, <1>7, <1>8, <1>9, <1>10, <1>11, <1>12, <1>13, <1>14,
     <1>15, <1>16 DEF Next

(* So the tables are always so.                                              *)
LEMMA StoreHolds == Spec => []Store
  BY StoreInit, StoreNext, PTL DEF Spec

(* No state that a reader can see has half of a paper in it: the passages,   *)
(* the full-text index and the vectors say the same of each paper there is.  *)
THEOREM IndexMatches == Spec => []IndexMatchesPassages
<1>1. Store => IndexMatchesPassages
  BY WholeMatches DEF Store
<1> QED
  BY <1>1, StoreHolds, PTL

-----------------------------------------------------------------------------
(* Rankings of hits.                                                         *)
RankedHits(hits) ==
  \A i, j \in DOMAIN hits :
    i < j => /\ <<hits[i].row.paper, hits[i].row.id>>
                   # <<hits[j].row.paper, hits[j].row.id>>
             /\ ~Dominates(hits[j], hits[i])

(* The hits shown are the first of those found.                              *)
LEMMA TopFacts ==
  ASSUME NEW S, NEW hits \in Seq(S)
  PROVE  /\ IsList(Top(hits)) /\ DOMAIN Top(hits) \subseteq DOMAIN hits
         /\ \A i \in DOMAIN Top(hits) : Top(hits)[i] = hits[i]
<1> DEFINE n == Min({Limit, Len(hits)})
<1>1. n \in Nat /\ n <= Len(hits)
  <2>1. Limit \in Nat /\ Len(hits) \in Nat
    BY PapersAssumption
  <2>2. {Limit, Len(hits)} \in SUBSET Nat /\ {Limit, Len(hits)} # {}
    BY <2>1
  <2>3. PICK x \in {Limit, Len(hits)} : \A y \in {Limit, Len(hits)} : x <= y
    BY <2>2, FirstExists
  <2>4. n \in {Limit, Len(hits)} /\ \A y \in {Limit, Len(hits)} : n <= y
    BY <2>3 DEF Min
  <2> HIDE DEF n
  <2> QED
    BY <2>1, <2>4
<1> HIDE DEF n
<1>2. Top(hits) = SubSeq(hits, 1, n)
  BY DEF Top, n
<1>3. SubSeq(hits, 1, n) \in Seq(S) /\ Len(SubSeq(hits, 1, n)) = n
      /\ \A i \in 1..n : SubSeq(hits, 1, n)[i] = hits[i]
  BY <1>1
<1>4. IsList(SubSeq(hits, 1, n))
  BY <1>3, SequenceIsList
<1>5. DOMAIN SubSeq(hits, 1, n) = 1..n /\ DOMAIN hits = 1..Len(hits) /\ Len(hits) \in Nat
  BY <1>1, <1>3
<1> QED
  BY <1>1, <1>2, <1>3, <1>4, <1>5

(* They are ranked as those found are.                                       *)
LEMMA TopIsRanked ==
  ASSUME NEW S, NEW hits \in Seq(S), RankedHits(hits)
  PROVE  RankedHits(Top(hits))
<1>1. /\ DOMAIN Top(hits) \subseteq DOMAIN hits
      /\ \A i \in DOMAIN Top(hits) : Top(hits)[i] = hits[i]
  BY TopFacts
<1> QED
  BY <1>1 DEF RankedHits

(* The places of a key in a ranking.                                         *)
LEMMA PlaceFacts ==
  ASSUME NEW S, NEW ranking \in Seq(S), NEW key
  PROVE  /\ Places(ranking, key) \subseteq DOMAIN ranking
         /\ Places(ranking, key) \in SUBSET Nat
         /\ \A i \in Places(ranking, key) : Key(ranking[i]) = key
         /\ Place(ranking, key) \in Nat
<1> DEFINE P == Places(ranking, key)
<1>1. Len(ranking) \in Nat /\ DOMAIN ranking = 1..Len(ranking)
  OBVIOUS
<1>2. P \subseteq DOMAIN ranking /\ \A i \in P : Key(ranking[i]) = key
  BY DEF Places
<1>3. P \in SUBSET Nat
  BY <1>1, <1>2
<1>4. Place(ranking, key) \in Nat
  <2>1. P \cup {0} \in SUBSET (0..Len(ranking)) /\ P \cup {0} # {}
    BY <1>1, <1>2
  <2>2. Max(P \cup {0}) \in P \cup {0}
    <3> HIDE DEF P
    <3> QED
      BY <1>1, <2>1, MaxExists
  <2> QED
    BY <1>3, <2>2 DEF Place
<1> QED
  BY <1>2, <1>3, <1>4

(* The hits of a fusion: one of each key, finitely many.                     *)
LEMMA FusedFacts ==
  ASSUME NEW S, NEW lexical \in Seq(S), NEW vector \in Seq(S)
  PROVE  /\ IsFiniteSet(Fused(lexical, vector))
         /\ \A h \in Fused(lexical, vector) :
              h.row \in S /\ h.lexical \in Nat /\ h.vector \in Nat
         /\ \A h, g \in Fused(lexical, vector) :
              Key(h.row) = Key(g.row) => h = g
<1> DEFINE both == lexical \o vector
           keys == {Key(both[i]) : i \in DOMAIN both}
           Of2(key) == Hit(both[Min(Places(both, key))], Place(lexical, key), Place(vector, key))
<1>1. both \in Seq(S) /\ Len(both) \in Nat /\ DOMAIN both = 1..Len(both)
  OBVIOUS
<1>2. Fused(lexical, vector) = {Of2(key) : key \in keys}
  BY DEF Fused
<1>3. IsFiniteSet(keys)
  <2> DEFINE f == [i \in DOMAIN both |-> Key(both[i])]
  <2>1. keys = {f[i] : i \in DOMAIN f} /\ DOMAIN f = DOMAIN both
    OBVIOUS
  <2>2. IsFiniteSet(DOMAIN both)
    <3> HIDE DEF both
    <3> QED
      BY <1>1, FS_Interval
  <2> HIDE DEF f, keys, both
  <2> QED
    BY <2>1, <2>2, ImageIsFinite
<1>4. IsFiniteSet(Fused(lexical, vector))
  <2> DEFINE f == [key \in keys |-> Of2(key)]
  <2>1. {Of2(key) : key \in keys} = {f[key] : key \in DOMAIN f} /\ DOMAIN f = keys
    OBVIOUS
  <2> HIDE DEF f, keys, both, Of2
  <2> QED
    BY <1>2, <1>3, <2>1, ImageIsFinite
<1>5. ASSUME NEW key \in keys
      PROVE  /\ Of2(key).row \in S /\ Of2(key).lexical \in Nat /\ Of2(key).vector \in Nat
             /\ Key(Of2(key).row) = key
  <2>1. Places(both, key) # {}
    BY DEF Places
  <2>2. /\ Places(both, key) \subseteq DOMAIN both /\ Places(both, key) \in SUBSET Nat
        /\ \A i \in Places(both, key) : Key(both[i]) = key
    <3> HIDE DEF both
    <3> QED
      BY <1>1, PlaceFacts
  <2>3. Min(Places(both, key)) \in Places(both, key)
    BY <2>1, <2>2, MinExists
  <2>4. Place(lexical, key) \in Nat /\ Place(vector, key) \in Nat
    BY PlaceFacts
  <2>5. PICK i : i = Min(Places(both, key))
    OBVIOUS
  <2>6. i \in DOMAIN both /\ Key(both[i]) = key
    BY <2>2, <2>3, <2>5
  <2>7. both[i] \in S
    <3> HIDE DEF both
    <3> QED
      BY <1>1, <2>6
  <2> HIDE DEF both, keys
  <2> QED
    BY <2>4, <2>5, <2>6, <2>7 DEF Hit
<1> HIDE DEF both, keys, Of2
<1> QED
  BY <1>2, <1>4, <1>5

(* Of two sums of fractions over positive numbers.                           *)
LEMMA SumOfFractions ==
  ASSUME NEW a1 \in Nat, NEW a2 \in Nat, NEW b1 \in Nat, NEW b2 \in Nat,
         NEW c1 \in Nat, NEW c2 \in Nat, NEW d1 \in Nat, NEW d2 \in Nat,
         a2 > 0, b2 > 0, c2 > 0, d2 > 0,
         a1 * c2 >= c1 * a2, b1 * d2 >= d1 * b2,
         a1 * c2 > c1 * a2 \/ b1 * d2 > d1 * b2
  PROVE  (a1 * b2 + b1 * a2) * (c2 * d2) > (c1 * d2 + d1 * c2) * (a2 * b2)
<1> DEFINE x == a1 * c2  y == c1 * a2  z == b1 * d2  w == d1 * b2
           m == b2 * d2  l == a2 * c2
<1>1. x \in Nat /\ y \in Nat /\ z \in Nat /\ w \in Nat /\ m \in Nat /\ l \in Nat
      /\ m > 0 /\ l > 0
  OBVIOUS
<1>2. (a1 * b2 + b1 * a2) * (c2 * d2) = x * m + z * l
  OBVIOUS
<1>3. (c1 * d2 + d1 * c2) * (a2 * b2) = y * m + w * l
  OBVIOUS
<1>4. x >= y /\ z >= w /\ (x > y \/ z > w)
  OBVIOUS
<1> HIDE DEF x, y, z, w, m, l
<1>5. x * m >= y * m /\ z * l >= w * l /\ (x > y => x * m > y * m) /\ (z > w => z * l > w * l)
  BY <1>1, <1>4
<1>6. x * m \in Nat /\ y * m \in Nat /\ z * l \in Nat /\ w * l \in Nat
  BY <1>1
<1>7. x * m + z * l > y * m + w * l
  BY <1>4, <1>5, <1>6
<1> QED
  BY <1>2, <1>3, <1>7

(* What is better in one ranking and not worse in the other scores more.     *)
LEMMA DominatesScores ==
  ASSUME NEW h, NEW g, h.lexical \in Nat, h.vector \in Nat,
         g.lexical \in Nat, g.vector \in Nat, Dominates(h, g)
  PROVE  Higher(Score(h), Score(g))
<1> DEFINE a == Reciprocal(h.lexical)  b == Reciprocal(h.vector)
           c == Reciprocal(g.lexical)  d == Reciprocal(g.vector)
<1>1. ASSUME NEW p \in Nat
      PROVE  /\ Reciprocal(p)[1] \in Nat /\ Reciprocal(p)[2] \in Nat
             /\ Reciprocal(p)[2] > 0
  BY DEF Reciprocal
<1>2. ASSUME NEW p \in Nat, NEW q \in Nat, NotWorse(p, q) \/ p = q
      PROVE  /\ Reciprocal(p)[1] * Reciprocal(q)[2] >= Reciprocal(q)[1] * Reciprocal(p)[2]
             /\ p # q => Reciprocal(p)[1] * Reciprocal(q)[2]
                           > Reciprocal(q)[1] * Reciprocal(p)[2]
  <2>1. CASE p = q
    BY <1>1, <2>1
  <2>2. CASE p > 0 /\ q = 0
    BY <2>2 DEF Reciprocal
  <2>3. CASE p > 0 /\ q > 0 /\ p <= q
    BY <2>3 DEF Reciprocal
  <2> QED
    BY <1>2, <2>1, <2>2, <2>3 DEF NotWorse
<1>3. /\ a[1] * c[2] >= c[1] * a[2] /\ b[1] * d[2] >= d[1] * b[2]
      /\ a[1] * c[2] > c[1] * a[2] \/ b[1] * d[2] > d[1] * b[2]
  BY <1>2 DEF Dominates
<1>4. /\ a[1] \in Nat /\ a[2] \in Nat /\ a[2] > 0
      /\ b[1] \in Nat /\ b[2] \in Nat /\ b[2] > 0
      /\ c[1] \in Nat /\ c[2] \in Nat /\ c[2] > 0
      /\ d[1] \in Nat /\ d[2] \in Nat /\ d[2] > 0
  BY <1>1
<1> HIDE DEF a, b, c, d
<1>5. (a[1] * b[2] + b[1] * a[2]) * (c[2] * d[2]) > (c[1] * d[2] + d[1] * c[2]) * (a[2] * b[2])
  BY <1>3, <1>4, SumOfFractions
<1>6. Score(h) = Plus(a, b) /\ Score(g) = Plus(c, d)
  BY DEF Score, a, b, c, d
<1> QED
  BY <1>5, <1>6 DEF Plus, Higher

(* A sorted fusion is a ranking of what was found.                           *)
LEMMA SortedFacts ==
  ASSUME NEW S, NEW lexical \in Seq(S), NEW vector \in Seq(S),
         NEW ranking \in Sorted(Fused(lexical, vector))
  PROVE  /\ ranking \in Seq(Fused(lexical, vector)) /\ RankedHits(ranking)
         /\ \A i \in DOMAIN ranking : ranking[i].row \in S
<1> DEFINE F == Fused(lexical, vector)
<1>0. /\ IsFiniteSet(F)
      /\ \A h \in F : h.row \in S /\ h.lexical \in Nat /\ h.vector \in Nat
      /\ \A h, g \in F : Key(h.row) = Key(g.row) => h = g
  BY FusedFacts
<1>1. /\ ranking \in SetToSeqs(F)
      /\ \A i, j \in DOMAIN ranking : i < j => ~Before(ranking[j], ranking[i])
  BY DEF Sorted
<1> HIDE DEF F
<1>2. ranking \in Rankings(F)
  BY <1>1 DEF Rankings
<1>3. /\ ranking \in Seq(F) /\ DOMAIN ranking = 1..Len(ranking) /\ Len(ranking) \in Nat
      /\ \A i, j \in DOMAIN ranking : ranking[i] = ranking[j] => i = j
  BY <1>0, <1>2, RankingFacts
<1>4. \A i \in DOMAIN ranking : ranking[i] \in F
  BY <1>3
<1>5. RankedHits(ranking)
  <2> SUFFICES ASSUME NEW i \in DOMAIN ranking, NEW j \in DOMAIN ranking, i < j
               PROVE  /\ <<ranking[i].row.paper, ranking[i].row.id>>
                           # <<ranking[j].row.paper, ranking[j].row.id>>
                      /\ ~Dominates(ranking[j], ranking[i])
    BY DEF RankedHits
  <2>1. i # j
    BY <1>3
  <2>2. Key(ranking[i].row) # Key(ranking[j].row)
    BY <1>0, <1>3, <1>4, <2>1
  <2>3. ~Dominates(ranking[j], ranking[i])
    <3>1. ~Higher(Score(ranking[j]), Score(ranking[i]))
      BY <1>1 DEF Before
    <3> QED
      BY <1>0, <1>4, <3>1, DominatesScores
  <2> QED
    BY <2>2, <2>3 DEF Key
<1> QED
  BY <1>0, <1>3, <1>4, <1>5 DEF F

-----------------------------------------------------------------------------
(* Every step keeps the calls so.                                            *)
Answers == CallOK(call) /\ RankedHits(call.hits)

(* A call that is not looked at, while nothing is committed.                 *)
LEMMA AnswersKept ==
  ASSUME Answers, UNCHANGED <<db, call>>
  PROVE  Answers'
  BY DEF Answers, CallOK, Fields, NoCall, IsList, Rows, RowOf, Quoted, Cites, Occurs,
         RankedHits, Dominates, NotWorse

(* A call that has found nothing.                                            *)
LEMMA EmptyCall ==
  /\ Fields(NoCall, NoCall) /\ NoCall.pc = "idle" /\ NoCall.lexical = <<>>
  /\ NoCall.hits = <<>> /\ NoCall.evidence = <<>> /\ NoCall.verified = 0
  /\ NoCall.seen = {} /\ IsList(<<>>) /\ RankedHits(<<>>)
  BY DEF Fields, NoCall, IsList, RankedHits

(* There is no call at first.                                                *)
LEMMA AnswersInit == Init => Answers
<1> SUFFICES ASSUME Init PROVE Answers
  OBVIOUS
<1>1. call = NoCall
  BY DEF Init
<1> QED
  BY <1>1, EmptyCall DEF Answers, CallOK

(* What the full-text index finds is stored, and each passage once.          *)
LEMMA FoundFacts ==
  ASSUME Whole(db), NEW ranking \in Rankings(DOMAIN db.fts)
  PROVE  LET found == [i \in DOMAIN ranking |-> db.fts[ranking[i]]]
         IN /\ found \in Seq(Rows(db))
            /\ \A i, j \in DOMAIN found : Key(found[i]) = Key(found[j]) => i = j
<1> DEFINE found == [i \in DOMAIN ranking |-> db.fts[ranking[i]]]
<1>1. Sane(db) /\ IndexMatchesPassages
  BY WholeMatches DEF Whole
<1>2. IsFiniteSet(DOMAIN db.fts)
  BY <1>1, RowidsFinite DEF Sane
<1>3. /\ ranking \in Seq(DOMAIN db.fts) /\ Len(ranking) \in Nat
      /\ DOMAIN ranking = 1..Len(ranking)
      /\ \A i, j \in DOMAIN ranking : ranking[i] = ranking[j] => i = j
  BY <1>2, RankingFacts
<1>4. \A i \in DOMAIN ranking : ranking[i] \in DOMAIN db.fts
  BY <1>3
<1>5. \A i \in DOMAIN ranking : db.fts[ranking[i]] \in Rows(db)
  BY <1>1, <1>4 DEF IndexMatchesPassages, Range
<1>6. found \in Seq(Rows(db))
  BY <1>3, <1>5
<1>7. \A row1, row2 \in Rows(db) : Key(row1) = Key(row2) => row1 = row2
  <2> SUFFICES ASSUME NEW row1 \in Rows(db), NEW row2 \in Rows(db), Key(row1) = Key(row2)
               PROVE  row1 = row2
    OBVIOUS
  <2>1. PICK x \in db.passages : row1 = RowOf(x.paper, db.papers[x.paper], x)
    BY DEF Rows
  <2>2. PICK y \in db.passages : row2 = RowOf(y.paper, db.papers[y.paper], y)
    BY DEF Rows
  <2>3. x.paper = y.paper /\ x.id = y.id
    BY <2>1, <2>2 DEF Key, RowOf
  <2>4. x = y
    BY <1>1, <2>3 DEF Sane, Keyed
  <2> QED
    BY <2>1, <2>2, <2>4
<1>8. ASSUME NEW i \in DOMAIN ranking, NEW j \in DOMAIN ranking,
             Key(found[i]) = Key(found[j])
      PROVE  i = j
  <2>1. found[i] = found[j]
    BY <1>5, <1>7, <1>8
  <2>2. ranking[i] = ranking[j]
    BY <1>1, <1>4, <2>1 DEF Sane, NoneTwice
  <2> QED
    BY <1>3, <2>2
<1> QED
  BY <1>6, <1>8

(* A search of the full-text index alone shows them as it found them.        *)
LEMMA LexicalHits ==
  ASSUME NEW S, NEW found \in Seq(S),
         \A i, j \in DOMAIN found : Key(found[i]) = Key(found[j]) => i = j
  PROVE  LET hits == [i \in DOMAIN found |-> Hit(found[i], i, 0)]
         IN /\ IsList(Top(hits)) /\ RankedHits(Top(hits))
            /\ \A i \in DOMAIN Top(hits) : Top(hits)[i].row \in S
<1> DEFINE hits == [i \in DOMAIN found |-> Hit(found[i], i, 0)]
           T == {hits[i] : i \in DOMAIN hits}
<1>1. DOMAIN found = 1..Len(found) /\ Len(found) \in Nat /\ \A i \in DOMAIN found : found[i] \in S
  OBVIOUS
<1>2. /\ DOMAIN hits = DOMAIN found
      /\ \A i \in DOMAIN found : /\ hits[i].row = found[i] /\ hits[i].lexical = i
                                 /\ hits[i].vector = 0
  BY DEF Hit
<1>3. hits \in Seq(T)
  <2>1. hits \in [1..Len(found) -> T]
    BY <1>1
  <2> QED
    BY <1>1, <2>1
<1> HIDE DEF hits, T
<1>4. RankedHits(hits)
  <2> SUFFICES ASSUME NEW i \in DOMAIN hits, NEW j \in DOMAIN hits, i < j
               PROVE  /\ <<hits[i].row.paper, hits[i].row.id>>
                           # <<hits[j].row.paper, hits[j].row.id>>
                      /\ ~Dominates(hits[j], hits[i])
    BY DEF RankedHits
  <2>1. i \in Nat /\ j \in Nat /\ i # j /\ i > 0
    BY <1>1, <1>2
  <2>2. Key(found[i]) # Key(found[j])
    BY <1>2, <2>1
  <2>3. ~Dominates(hits[j], hits[i])
    BY <1>2, <2>1 DEF Dominates, NotWorse
  <2> QED
    BY <1>2, <2>2, <2>3 DEF Key
<1>5. /\ IsList(Top(hits)) /\ DOMAIN Top(hits) \subseteq DOMAIN hits
      /\ \A i \in DOMAIN Top(hits) : Top(hits)[i] = hits[i]
  BY <1>3, TopFacts
<1>6. RankedHits(Top(hits))
  BY <1>3, <1>4, TopIsRanked
<1> QED
  BY <1>1, <1>2, <1>5, <1>6 DEF hits

(* No step makes a call show or quote what it has not seen.                  *)
LEMMA AnswersNext == Store /\ Answers /\ [Next]_vars => Answers'
<1> SUFFICES ASSUME Store, Answers, [Next]_vars PROVE Answers'
  OBVIOUS
<1> USE PapersAssumption
<1>0. /\ instance.name \in DOMAIN Instances /\ Whole(db) /\ Sane(db)
      /\ Fields(call, NoCall) /\ IsList(call.lexical) /\ IsList(call.hits)
      /\ IsList(call.evidence) /\ RankedHits(call.hits)
      /\ call.pc \in {"vector", "verify"} => Rows(db) \subseteq call.seen
      /\ call.pc = "vector" => Range(call.lexical) \subseteq call.seen
      /\ \A i \in DOMAIN call.hits : call.hits[i].row \in call.seen
      /\ call.pc \in {"verify", "saved"} =>
           call.verified \in 0..Len(call.evidence) /\ Quoted(call, call.verified)
      /\ call.pc = "saved" => call.verified = Len(call.evidence)
  BY DEF Store, Whole, Answers, CallOK
<1>1. CASE UNCHANGED <<db, call>>
  BY <1>1, AnswersKept
<1>2. CASE Commit
  <2>1. call' = IF Calling THEN [call EXCEPT !.seen = @ \cup Rows(db')] ELSE call
    BY <1>2 DEF Commit
  <2>2. CASE Calling
    <3>1. /\ Fields(call, NoCall)' /\ call'.pc = call.pc
          /\ call'.lexical = call.lexical /\ call'.hits = call.hits
          /\ call'.evidence = call.evidence /\ call'.verified = call.verified
          /\ call'.seen = call.seen \cup Rows(db')
      BY <1>0, <2>1, <2>2 DEF Fields, NoCall
    <3>2. Rows(db)' \subseteq call'.seen /\ call.seen \subseteq call'.seen
      BY <3>1 DEF Rows, RowOf
    <3>3. \A n : Quoted(call, n) => Quoted(call', n)
      BY <3>1, <3>2 DEF Quoted
    <3>4. CallOK(call)'
      <4>1. Quoted(call, call.verified)' <=> Quoted(call', call.verified)
        BY <3>1 DEF Quoted, Cites, Occurs
      <4> QED
        BY <1>0, <3>1, <3>2, <3>3, <4>1 DEF CallOK, IsList
    <3> QED
      BY <1>0, <3>1, <3>4 DEF Answers, RankedHits, Dominates, NotWorse
  <2>3. CASE ~Calling
    <3>1. call' = call /\ ~(call.pc \in {"vector", "verify"}) 
      BY <2>1, <2>3 DEF Calling
    <3>2. (call.pc \in {"verify", "saved"} =>
            call.verified \in 0..Len(call.evidence) /\ Quoted(call, call.verified))'
      BY <1>0, <3>1 DEF Quoted, Cites, Occurs
    <3> QED
      BY <1>0, <3>1, <3>2 DEF Answers, CallOK, Fields, NoCall, IsList, RankedHits,
                              Dominates, NotWorse
  <2> QED
    BY <2>2, <2>3
<1>3. ASSUME NEW mode, SearchLexical(mode) PROVE Answers'
  <2>1. PICK ranking \in Rankings(DOMAIN db.fts) :
          LET found == [i \in DOMAIN ranking |-> db.fts[ranking[i]]]
          IN Called(IF mode = "hybrid"
              THEN [NoCall EXCEPT !.pc = "vector", !.lexical = found]
              ELSE [NoCall EXCEPT !.pc = "answered",
                      !.hits = Top([i \in DOMAIN found |-> Hit(found[i], i, 0)])])
    BY <1>3 DEF SearchLexical
  <2> DEFINE found == [i \in DOMAIN ranking |-> db.fts[ranking[i]]]
             hits == [i \in DOMAIN found |-> Hit(found[i], i, 0)]
  <2>2. /\ found \in Seq(Rows(db))
        /\ \A i, j \in DOMAIN found : Key(found[i]) = Key(found[j]) => i = j
    BY <1>0, FoundFacts
  <2>3. Called(IF mode = "hybrid" THEN [NoCall EXCEPT !.pc = "vector", !.lexical = found]
               ELSE [NoCall EXCEPT !.pc = "answered", !.hits = Top(hits)])
    BY <2>1
  <2> HIDE DEF found
  <2>4. /\ IsList(Top(hits)) /\ RankedHits(Top(hits))
        /\ \A i \in DOMAIN Top(hits) : Top(hits)[i].row \in Rows(db)
    BY <2>2, LexicalHits
  <2>5. IsList(found) /\ Range(found) \subseteq Rows(db)
    BY <2>2, SequenceIsList
  <2> HIDE DEF hits
  <2>6. db' = db /\ Rows(db)' = Rows(db)
    BY <2>3 DEF Called, Rows, RowOf
  <2>7. CASE mode = "hybrid"
    <3>1. /\ Fields(call, NoCall)' /\ call'.pc = "vector" /\ call'.lexical = found
          /\ call'.hits = <<>> /\ call'.evidence = <<>> /\ call'.seen = Rows(db)
      BY <2>3, <2>7 DEF Called, Fields, NoCall
    <3> QED
      BY <2>5, <2>6, <3>1, EmptyCall DEF Answers, CallOK, IsList, RankedHits
  <2>8. CASE mode # "hybrid"
    <3>1. /\ Fields(call, NoCall)' /\ call'.pc = "answered" /\ call'.lexical = <<>>
          /\ call'.hits = Top(hits) /\ call'.evidence = <<>> /\ call'.seen = Rows(db)
      BY <2>3, <2>8 DEF Called, Fields, NoCall
    <3>2. RankedHits(call.hits)'
      BY <2>4, <3>1 DEF RankedHits, Dominates, NotWorse
    <3> QED
      BY <2>4, <2>6, <3>1, <3>2, EmptyCall DEF Answers, CallOK, IsList
  <2> QED
    BY <2>7, <2>8
<1>4. ASSUME NEW own, SearchVector(own) PROVE Answers'
  <2>0. PICK vector \in Rankings(VectorRows(own)) :
          \E ranking \in Sorted(Fused(call.lexical, vector)) :
            call' = [call EXCEPT !.pc = "answered", !.lexical = <<>>, !.hits = Top(ranking)]
    BY <1>4 DEF SearchVector
  <2>1. PICK ranking \in Sorted(Fused(call.lexical, vector)) :
          call' = [call EXCEPT !.pc = "answered", !.lexical = <<>>, !.hits = Top(ranking)]
    BY <2>0
  <2>2. call.pc = "vector"
    BY <1>4 DEF SearchVector
  <2>3. vector \in Seq(call.seen)
    <3>1. VectorRows(own) \subseteq Rows(db) /\ IsFiniteSet(Rows(db))
      BY <1>0, RowsCounted DEF VectorRows
    <3>2. IsFiniteSet(VectorRows(own))
      BY <3>1, FS_Subset
    <3>3. vector \in Seq(VectorRows(own))
      BY <3>2, RankingFacts
    <3>4. VectorRows(own) \subseteq call.seen
      BY <1>0, <2>2, <3>1
    <3> QED
      BY <3>3, <3>4
  <2>4. call.lexical \in Seq(call.seen)
    <3>1. call.lexical \in Seq(Range(call.lexical))
      BY <1>0 DEF IsList
    <3>2. Range(call.lexical) \subseteq call.seen
      BY <1>0, <2>2
    <3> QED
      BY <3>1, <3>2
  <2>5. /\ ranking \in Seq(Fused(call.lexical, vector)) /\ RankedHits(ranking)
        /\ \A i \in DOMAIN ranking : ranking[i].row \in call.seen
    BY <2>3, <2>4, SortedFacts
  <2>6. /\ IsList(Top(ranking)) /\ DOMAIN Top(ranking) \subseteq DOMAIN ranking
        /\ \A i \in DOMAIN Top(ranking) : Top(ranking)[i] = ranking[i]
        /\ RankedHits(Top(ranking))
    BY <2>5, TopFacts, TopIsRanked
  <2>7. /\ Fields(call, NoCall)' /\ call'.pc = "answered" /\ call'.lexical = <<>>
        /\ call'.hits = Top(ranking) /\ call'.evidence = call.evidence
        /\ call'.seen = call.seen
    BY <1>0, <2>1 DEF Fields, NoCall
  <2>8. RankedHits(call.hits)'
    BY <2>6, <2>7 DEF RankedHits, Dominates, NotWorse
  <2> QED
    BY <1>0, <2>5, <2>6, <2>7, <2>8, EmptyCall DEF Answers, CallOK, IsList
<1>5. ASSUME NEW evidence \in Settings.evidence, Save(evidence) PROVE Answers'
  <2>1. IsList(evidence)
    BY <1>0 DEF Settings
  <2>2. /\ Fields(call, NoCall)' /\ call'.pc = "verify" /\ call'.lexical = <<>>
        /\ call'.hits = <<>> /\ call'.evidence = evidence /\ call'.seen = Rows(db)
        /\ call'.verified = 0
    BY <1>5 DEF Save, Called, Fields, NoCall
  <2>3. Rows(db)' = Rows(db)
    BY <1>5 DEF Save, Called, Rows, RowOf
  <2>4. Len(evidence) \in Nat
    BY <2>1, ListFacts
  <2>5. (call.verified \in 0..Len(call.evidence))' /\ Quoted(call, call.verified)'
    BY <2>2, <2>4 DEF Quoted
  <2> QED
    BY <2>1, <2>2, <2>3, <2>5, EmptyCall DEF Answers, CallOK, IsList, RankedHits
<1>6. CASE Verify
  <2> DEFINE cited == call.evidence[call.verified + 1]
  <2>1. /\ call.pc = "verify" /\ call.verified < Len(call.evidence) /\ db' = db
        /\ call' = IF \E row \in Rows(db) : Cites(row, cited)
                   THEN [call EXCEPT !.verified = @ + 1] ELSE NoCall
    BY <1>6 DEF Verify
  <2>2. CASE call' = NoCall
    BY <2>2, EmptyCall DEF Answers, CallOK, Fields, NoCall, IsList, RankedHits
  <2>3. CASE /\ \E row \in Rows(db) : Cites(row, cited)
             /\ call' = [call EXCEPT !.verified = @ + 1]
    <3>1. /\ Fields(call, NoCall)' /\ call'.pc = "verify"
          /\ call'.lexical = call.lexical /\ call'.hits = call.hits
          /\ call'.evidence = call.evidence /\ call'.verified = call.verified + 1
          /\ call'.seen = call.seen /\ Rows(db)' = Rows(db)
      BY <1>0, <2>1, <2>3 DEF Fields, NoCall, Rows, RowOf
    <3>2. Len(call.evidence) \in Nat
      BY <1>0, ListFacts
    <3>3. call.verified + 1 \in 0..Len(call.evidence)
      BY <1>0, <2>1, <3>2
    <3>4. PICK row \in call.seen : Cites(row, cited)
      BY <1>0, <2>1, <2>3
    <3>5. Quoted(call, call.verified + 1)
      <4> SUFFICES ASSUME NEW i \in 1..(call.verified + 1)
                   PROVE  \E r \in call.seen : Cites(r, call.evidence[i])
        BY DEF Quoted
      <4>1. CASE i = call.verified + 1
        BY <3>4, <4>1
      <4>2. CASE i \in 1..call.verified
        BY <1>0, <2>1, <4>2 DEF Quoted
      <4>3. call.verified \in Nat
        BY <1>0, <2>1, <3>2
      <4> QED
        BY <4>1, <4>2, <4>3
    <3>6. Quoted(call, call.verified)'
      BY <3>1, <3>5 DEF Quoted, Cites, Occurs
    <3>7. RankedHits(call.hits)'
      BY <1>0, <3>1 DEF RankedHits, Dominates, NotWorse
    <3>8. IsList(call.lexical)' /\ IsList(call.hits)' /\ IsList(call.evidence)'
      BY <1>0, <3>1 DEF IsList
    <3>9. /\ Rows(db)' \subseteq call'.seen
          /\ \A i \in DOMAIN call'.hits : call'.hits[i].row \in call'.seen
          /\ (call.verified \in 0..Len(call.evidence))'
      BY <1>0, <2>1, <3>1, <3>3
    <3> QED
      BY <3>1, <3>6, <3>7, <3>8, <3>9 DEF Answers, CallOK
  <2> QED
    BY <2>1, <2>2, <2>3
<1>7. CASE CreateCandidate
  <2>1. /\ call.pc = "verify" /\ call.verified = Len(call.evidence)
        /\ call' = [call EXCEPT !.pc = "saved"] /\ db' = db
    BY <1>7 DEF CreateCandidate
  <2>2. /\ Fields(call, NoCall)' /\ call'.pc = "saved"
        /\ call'.lexical = call.lexical /\ call'.hits = call.hits
        /\ call'.evidence = call.evidence /\ call'.verified = call.verified
        /\ call'.seen = call.seen
    BY <1>0, <2>1 DEF Fields, NoCall
  <2>3. Quoted(call, call.verified)'
    BY <1>0, <2>1, <2>2 DEF Quoted, Cites, Occurs
  <2>4. RankedHits(call.hits)'
    BY <1>0, <2>2 DEF RankedHits, Dominates, NotWorse
  <2>5. IsList(call.lexical)' /\ IsList(call.hits)' /\ IsList(call.evidence)'
    BY <1>0, <2>2 DEF IsList
  <2>6. /\ \A i \in DOMAIN call'.hits : call'.hits[i].row \in call'.seen
        /\ (call.verified \in 0..Len(call.evidence))' /\ call'.verified = Len(call'.evidence)
    BY <1>0, <2>1, <2>2
  <2> QED
    BY <2>2, <2>3, <2>4, <2>5, <2>6 DEF Answers, CallOK
<1>8. CASE AddPaper \/ ImportPdf \/ SkipPage \/ Window
  BY <1>1, <1>8 DEF AddPaper, ImportPdf, Uploading, SkipPage, Window
<1>9. CASE Embed \/ Execute \/ Rollback \/ Restart
  BY <1>1, <1>9 DEF Embed, Execute, Rollback, Restart
<1>10. CASE UNCHANGED vars
  BY <1>1, <1>10 DEF vars
<1> QED
  BY <1>2, <1>3, <1>4, <1>5, <1>6, <1>7, <1>8, <1>9, <1>10 DEF Next

(* So no call ever does.                                                     *)
LEMMA AnswersHold == Spec => []Answers
<1>1. Store /\ Store' /\ Answers /\ [Next]_vars => Answers'
  BY AnswersNext
<1> QED
  BY <1>1, AnswersInit, StoreHolds, PTL DEF Spec

(* Whatever is stored while it goes on, a call shows, and cites as evidence, *)
(* only what the library has held since it began.                            *)
THEOREM WhatIsShownWasStored == Spec => []AnswersWereStored
<1>1. Answers => AnswersWereStored
  <2> SUFFICES ASSUME Answers PROVE AnswersWereStored
    OBVIOUS
  <2>1. DOMAIN call.evidence = 1..Len(call.evidence)
    BY ListFacts DEF Answers, CallOK
  <2> QED
    BY <2>1 DEF Answers, CallOK, Quoted, AnswersWereStored
<1> QED
  BY <1>1, AnswersHold, PTL

(* A call shows a passage once, and none after one that both rankings place  *)
(* no better and one of them worse.                                          *)
THEOREM HitsRanked == Spec => []HitsAreRanked
<1>1. Answers => HitsAreRanked
  BY DEF Answers, RankedHits, HitsAreRanked
<1> QED
  BY <1>1, AnswersHold, PTL

-----------------------------------------------------------------------------
(* The windows of a page.                                                    *)

(* A list with one element more.                                             *)
LEMMA AppendFacts ==
  ASSUME NEW list, IsList(list), NEW x
  PROVE  /\ IsList(Append(list, x)) /\ Len(Append(list, x)) = Len(list) + 1
         /\ DOMAIN Append(list, x) = 1..(Len(list) + 1)
         /\ \A i \in DOMAIN list : Append(list, x)[i] = list[i]
         /\ Append(list, x)[Len(list) + 1] = x
<1>1. list \in Seq(Range(list)) /\ IsList(Append(list, x))
  BY ListFacts DEF IsList
<1> DEFINE S == Range(list) \cup {x}
<1>2. list \in Seq(S) /\ x \in S
  BY <1>1
<1> HIDE DEF S
<1> QED
  BY <1>1, <1>2

(* The larger of two integers.                                               *)
LEMMA MaxOfTwo ==
  ASSUME NEW a \in Int, NEW b \in Int
  PROVE  Max({a, b}) = IF a >= b THEN a ELSE b
<1> DEFINE m == IF a >= b THEN a ELSE b
<1>1. m \in {a, b} /\ \A y \in {a, b} : m >= y
  OBVIOUS
<1>2. \A x \in {a, b} : (\A y \in {a, b} : x >= y) => x = m
  OBVIOUS
<1> HIDE DEF m
<1>3. Max({a, b}) = m
  BY <1>1, <1>2 DEF Max
<1> QED
  BY <1>3 DEF m

(* The smaller of two.                                                       *)
LEMMA MinOfTwo ==
  ASSUME NEW a \in Nat, NEW b \in Nat
  PROVE  Min({a, b}) = IF a <= b THEN a ELSE b
<1> DEFINE m == IF a <= b THEN a ELSE b
<1>1. m \in {a, b} /\ \A y \in {a, b} : m <= y
  OBVIOUS
<1>2. \A x \in {a, b} : (\A y \in {a, b} : x <= y) => x = m
  OBVIOUS
<1> HIDE DEF m
<1>3. Min({a, b}) = m
  BY <1>1, <1>2 DEF Min
<1> QED
  BY <1>3 DEF m

(* Blanks are skipped, and nothing else.                                     *)
LEMMA SkipFacts ==
  ASSUME NEW text, IsList(text), NEW start \in 0..Len(text)
  PROVE  /\ SkipBlank(text, start) \in start..Len(text)
         /\ \A i \in (start + 1)..SkipBlank(text, start) : text[i] \in Blank
<1> DEFINE S == {i \in start..Len(text) : i = Len(text) \/ text[i + 1] \notin Blank}
           e == SkipBlank(text, start)
<1>1. Len(text) \in Nat
  BY ListFacts
<1>2. S \in SUBSET Nat /\ Len(text) \in S
  BY <1>1
<1>3. e \in S /\ \A y \in S : e <= y
  <2>1. Min(S) \in S /\ \A y \in S : Min(S) <= y
    <3> HIDE DEF S
    <3> QED
      BY <1>2, MinExists
  <2> QED
    BY <2>1 DEF SkipBlank
<1> HIDE DEF e
<1>4. e \in start..Len(text)
  BY <1>3
<1>5. ASSUME NEW i \in (start + 1)..e PROVE text[i] \in Blank
  <2>1. i - 1 \in start..Len(text) /\ i - 1 # Len(text) /\ (i - 1) + 1 = i /\ ~(e <= i - 1)
    BY <1>1, <1>4
  <2>2. i - 1 \notin S
    BY <1>3, <2>1
  <2> QED
    BY <2>1, <2>2
<1> QED
  BY <1>4, <1>5 DEF e

(* A marker is of one or two characters.                                     *)
LEMMA MarkerFacts ==
  DOMAIN Markers = 1..3 /\ \A m \in DOMAIN Markers : Len(Markers[m]) \in 1..2
<1>1. DOMAIN Markers = 1..3
  BY DEF Markers
<1>2. Len(Markers[1]) = 2
  BY DEF Markers
<1>3. Len(Markers[2]) = 2
  BY DEF Markers
<1>4. Len(Markers[3]) = 1
  BY DEF Markers
<1> QED
  BY <1>1, <1>2, <1>3, <1>4

(* The boundary is in the last two fifths of the window, or its end.         *)
LEMMA BoundaryFacts ==
  ASSUME NEW text, IsList(text), NEW start \in Nat, NEW hardEnd \in Nat,
         start < hardEnd, hardEnd <= Len(text)
  PROVE  /\ FindBoundary(text, start, hardEnd) \in Nat
         /\ start + (3 * (hardEnd - start)) \div 5 < FindBoundary(text, start, hardEnd)
         /\ FindBoundary(text, start, hardEnd) <= hardEnd
         /\ hardEnd >= Len(text) => FindBoundary(text, start, hardEnd) = Len(text)
<1> DEFINE minimum == start + (3 * (hardEnd - start)) \div 5
           found == {m \in DOMAIN Markers : Found(Markers[m], text, minimum, hardEnd) # {}}
           best == Markers[Min(found)]
           e == FindBoundary(text, start, hardEnd)
<1>1. Len(text) \in Nat
  BY ListFacts
<1>2. minimum \in Nat /\ start <= minimum /\ minimum < hardEnd
  OBVIOUS
<1>3. /\ hardEnd >= Len(text) => e = Len(text)
      /\ hardEnd < Len(text) /\ found = {} => e = hardEnd
      /\ hardEnd < Len(text) /\ found # {} =>
           e = Max(Found(best, text, minimum, hardEnd)) + Len(best)
  <2>1. e = IF hardEnd >= Len(text) THEN Len(text)
            ELSE IF found = {} THEN hardEnd
            ELSE Max(Found(best, text, minimum, hardEnd)) + Len(best)
    BY DEF FindBoundary
  <2> HIDE DEF found, best, minimum, e
  <2> QED
    BY <1>1, <2>1
<1>m. /\ DOMAIN Markers = 1..3
      /\ \A m \in DOMAIN Markers : Len(Markers[m]) \in 1..2
  BY MarkerFacts
<1>4. ASSUME found # {}
      PROVE  /\ Max(Found(best, text, minimum, hardEnd)) + Len(best) \in Nat
             /\ Max(Found(best, text, minimum, hardEnd)) + Len(best) > minimum
             /\ Max(Found(best, text, minimum, hardEnd)) + Len(best) <= hardEnd
  <2>1. Min(found) \in found
    <3>1. found \in SUBSET Nat
      BY <1>m
    <3> HIDE DEF found
    <3> QED
      BY <1>4, <3>1, MinExists
  <2>2. Len(best) \in 1..2
    BY <1>m, <2>1
  <2>3. Found(best, text, minimum, hardEnd) # {}
    BY <2>1
  <2> HIDE DEF best, found, minimum
  <2>4. \A i \in Found(best, text, minimum, hardEnd) :
          i \in Nat /\ minimum <= i /\ i + Len(best) <= hardEnd
    BY <1>2, <2>2 DEF Found
  <2>5. Found(best, text, minimum, hardEnd) \in SUBSET (0..hardEnd)
    BY <2>2, <2>4
  <2>6. Max(Found(best, text, minimum, hardEnd)) \in Found(best, text, minimum, hardEnd)
    BY <2>3, <2>5, MaxExists
  <2>7. PICK i : i = Max(Found(best, text, minimum, hardEnd))
    OBVIOUS
  <2>8. i \in Nat /\ minimum <= i /\ i + Len(best) <= hardEnd
    BY <2>4, <2>6, <2>7
  <2>9. i + Len(best) \in Nat /\ i + Len(best) > minimum /\ i + Len(best) <= hardEnd
    <3>1. PICK l : l = Len(best)
      OBVIOUS
    <3>2. l \in Nat /\ l > 0 /\ i + l <= hardEnd
      BY <2>2, <2>8, <3>1
    <3> QED
      BY <1>2, <2>8, <3>1, <3>2
  <2> QED
    BY <2>7, <2>9
<1> HIDE DEF found, best, minimum, e
<1>5. e \in Nat /\ minimum < e /\ e <= hardEnd
  BY <1>1, <1>2, <1>3, <1>4
<1> QED
  BY <1>3, <1>5 DEF minimum, e

(* A window is not empty, not larger than its size, and more than three      *)
(* fifths of it unless it ends the page.                                     *)
LEMMA WindowFacts ==
  ASSUME NEW text, IsList(text), NEW start \in Nat, start < Len(text),
         NEW size \in Nat \ {0}
  PROVE  /\ WindowEnd(text, start, size) \in Nat
         /\ start < WindowEnd(text, start, size)
         /\ WindowEnd(text, start, size) <= Len(text)
         /\ WindowEnd(text, start, size) - start <= size
         /\ \/ WindowEnd(text, start, size) = Len(text)
            \/ start + (3 * size) \div 5 < WindowEnd(text, start, size)
<1> DEFINE hardEnd == Min({start + size, Len(text)})
<1>1. Len(text) \in Nat
  BY ListFacts
<1>2. hardEnd = IF start + size <= Len(text) THEN start + size ELSE Len(text)
  BY <1>1, MinOfTwo
<1> HIDE DEF hardEnd
<1>3. hardEnd \in Nat /\ start < hardEnd /\ hardEnd <= Len(text) /\ hardEnd - start <= size
  BY <1>1, <1>2
<1>4. WindowEnd(text, start, size) = FindBoundary(text, start, hardEnd)
  BY DEF WindowEnd, hardEnd
<1>5. PICK e : e = WindowEnd(text, start, size)
  OBVIOUS
<1>6. /\ e \in Nat /\ start + (3 * (hardEnd - start)) \div 5 < e /\ e <= hardEnd
      /\ hardEnd >= Len(text) => e = Len(text)
  BY <1>3, <1>4, <1>5, BoundaryFacts
<1>7. hardEnd < Len(text) => hardEnd - start = size
  BY <1>1, <1>2
<1>8. e = Len(text) \/ start + (3 * size) \div 5 < e
  BY <1>1, <1>3, <1>6, <1>7
<1>9. (3 * (hardEnd - start)) \div 5 \in Nat
  BY <1>3
<1>10. start < e /\ e <= Len(text) /\ e - start <= size
  BY <1>1, <1>3, <1>6, <1>9
<1> QED
  BY <1>5, <1>6, <1>8, <1>10

(* The next window starts after the start of the last, on the page, and what *)
(* is between the two is blank.                                              *)
LEMMA NextFacts ==
  ASSUME NEW text, IsText(text), NEW start \in Nat, NEW end \in Nat, NEW overlap \in Nat,
         start < end, end < Len(text)
  PROVE  /\ NextStart(text, start, end, overlap) \in Nat
         /\ start < NextStart(text, start, end, overlap)
         /\ end - overlap <= NextStart(text, start, end, overlap)
         /\ NextStart(text, start, end, overlap) < Len(text)
         /\ Strip(Slice(text, end, NextStart(text, start, end, overlap))) = <<>>
<1> DEFINE x == Max({end - overlap, start + 1})
<1>1. IsList(text) /\ Len(text) \in Nat /\ DOMAIN text = 1..Len(text)
  BY ListFacts DEF IsText
<1>2. x = IF end - overlap >= start + 1 THEN end - overlap ELSE start + 1
  BY MaxOfTwo
<1> HIDE DEF x
<1>3. x \in 0..Len(text) /\ start + 1 <= x /\ end - overlap <= x /\ x <= end
  BY <1>1, <1>2
<1>4. PICK n : n = NextStart(text, start, end, overlap)
  OBVIOUS
<1>5. n \in x..Len(text) /\ \A i \in (x + 1)..n : text[i] \in Blank
  <2>1. n = SkipBlank(text, x)
    BY <1>4 DEF NextStart, x
  <2> QED
    BY <1>1, <1>3, <2>1, SkipFacts
<1>n. n \in Nat /\ n <= Len(text)
  BY <1>1, <1>3, <1>5
<1>6. n < Len(text)
  <2> DEFINE l == Len(text)
  <2>0. l \in Nat /\ n \in Nat /\ n <= l
    BY <1>1, <1>n
  <2> HIDE DEF l
  <2> SUFFICES ASSUME n = l PROVE FALSE
    BY <2>0 DEF l
  <2>1. l \in (x + 1)..n
    BY <1>3, <2>0 DEF l
  <2>2. text[l] \in Blank
    BY <1>5, <2>1
  <2>3. text # <<>>
    BY <1>1
  <2> QED
    BY <2>2, <2>3 DEF IsText, l
<1>7. Strip(Slice(text, end, n)) = <<>>
  <2> DEFINE between == Slice(text, end, n)
  <2>1. between = [i \in 1..(n - end) |-> text[i + end]]
    BY <1>1, <1>3, <1>5 DEF Slice
  <2>2. ASSUME NEW i \in DOMAIN between PROVE between[i] \in Blank
    <3>1. i \in 1..(n - end) /\ i + end \in (x + 1)..n
      BY <1>3, <1>5, <2>1
    <3> QED
      BY <1>5, <2>1, <3>1
  <2> HIDE DEF between
  <2>3. {i \in DOMAIN between : between[i] \notin Blank} = {}
    BY <2>2
  <2> QED
    BY <2>3 DEF Strip, between
<1>8. n \in Nat /\ start < n /\ end - overlap <= n
  BY <1>1, <1>3, <1>5
<1> QED
  BY <1>4, <1>6, <1>7, <1>8

(* An instance has a size of its windows and an overlap below it.            *)
Settled ==
  /\ instance.name \in DOMAIN Instances
  /\ Size \in Nat \ {0} /\ Overlap \in Nat

(* A window has its place on its page; the next follows it; and the last     *)
(* one ends the page, or says where the next of the page starts.             *)
Placed(w, texts) ==
  /\ w.page \in DOMAIN texts /\ w.start \in Nat /\ w.end \in Nat
  /\ w.start < w.end /\ w.end - w.start <= Size /\ w.end <= Len(texts[w.page])
Follows(w, v, texts) ==
  LET text == texts[w.page]
  IN IF v.page = w.page
     THEN /\ w.start < v.start /\ Strip(Slice(text, w.end, v.start)) = <<>>
          /\ Overlap <= (3 * Size) \div 5 => w.end < v.end
     ELSE w.end = Len(text)
Ends(w, u) == w.end = Len(u.pages[w.page])
GoesOn(w, u) ==
  LET text == u.pages[w.page]
  IN w.end < Len(text) /\ u.start = NextStart(text, w.start, w.end, Overlap)

Chain(u) ==
  /\ IsList(u.windows)
  /\ \A i \in DOMAIN u.windows : Placed(u.windows[i], u.pages)
  /\ \A i \in DOMAIN u.windows :
       i # Len(u.windows) => Follows(u.windows[i], u.windows[i + 1], u.pages)
LastEnds(u) == u.windows # <<>> => Ends(u.windows[Len(u.windows)], u)
Cutting(u) ==
  /\ IsList(u.pages) /\ \A n \in DOMAIN u.pages : IsText(u.pages[n])
  /\ u.page \in DOMAIN u.pages /\ u.start \in Nat
  /\ u.pages[u.page] # <<>> => u.start < Len(u.pages[u.page])
  /\ \A i \in DOMAIN u.windows : u.windows[i].page <= u.page
  /\ u.windows # <<>> =>
       LET w == u.windows[Len(u.windows)]
       IN IF w.page = u.page THEN GoesOn(w, u) ELSE Ends(w, u)
Windows(u) ==
  /\ Fields(u, NoUpload) /\ Chain(u)
  /\ IF u.pc = "chunk" THEN Cutting(u) ELSE LastEnds(u)

(* That is what WindowsAdvance says.                                         *)
LEMMA ChainAdvances == Windows(upload) => WindowsAdvance
<1> SUFFICES ASSUME Windows(upload), NEW i \in DOMAIN upload.windows
             PROVE  LET w == upload.windows[i]
                        text == upload.pages[w.page]
                        last == \/ i = Len(upload.windows)
                                \/ upload.windows[i + 1].page # w.page
                    IN /\ w.start < w.end /\ w.end - w.start <= Size
                       /\ last => \/ w.end = Len(text)
                                  \/ upload.pc = "chunk" /\ w.page = upload.page
                       /\ ~last => LET v == upload.windows[i + 1]
                                   IN /\ w.start < v.start
                                      /\ Strip(Slice(text, w.end, v.start)) = <<>>
                                      /\ Overlap <= (3 * Size) \div 5 => w.end < v.end
  BY DEF WindowsAdvance
<1> DEFINE w == upload.windows[i]
           v == upload.windows[i + 1]
           text == upload.pages[w.page]
<1>1. w.start < w.end /\ w.end - w.start <= Size
  BY DEF Windows, Chain, Placed
<1>2. CASE i = Len(upload.windows)
  <2>1. upload.windows # <<>>
    OBVIOUS
  <2>2. w.end = Len(text) \/ (upload.pc = "chunk" /\ w.page = upload.page)
    BY <1>2, <2>1 DEF Windows, Cutting, LastEnds, Ends
  <2> QED
    BY <1>1, <1>2, <2>2
<1>3. CASE i # Len(upload.windows)
  <2>1. Follows(w, v, upload.pages)
    BY <1>3 DEF Windows, Chain
  <2> QED
    BY <1>1, <1>3, <2>1 DEF Follows
<1> QED
  BY <1>2, <1>3

(* At first there are no windows.                                            *)
LEMMA NoWindows ==
  ASSUME NEW u, Fields(u, NoUpload), u.windows = <<>>, u.pc # "chunk"
  PROVE  Windows(u)
<1>1. IsList(<<>>) /\ DOMAIN <<>> = {}
  BY DEF IsList
<1> QED
  BY <1>1 DEF Windows, Chain, LastEnds

(* When a page has no more windows, the next begins, or the upload goes on.  *)
LEMMA NextPageWindows ==
  ASSUME NEW u, Fields(u, NoUpload), Chain(u), LastEnds(u), u.pc = "chunk",
         IsList(u.pages), \A n \in DOMAIN u.pages : IsText(u.pages[n]),
         u.page \in DOMAIN u.pages,
         \A i \in DOMAIN u.windows : u.windows[i].page <= u.page
  PROVE  Windows(NextPage(u))
<1>1. Len(u.pages) \in Nat /\ DOMAIN u.pages = 1..Len(u.pages) /\ u.page \in Nat
  BY ListFacts
<1>2. CASE u.page < Len(u.pages)
  <2> DEFINE x == [u EXCEPT !.page = @ + 1, !.start = 0]
  <2>1. NextPage(u) = x
    BY <1>2 DEF NextPage
  <2>2. /\ Fields(x, NoUpload) /\ x.windows = u.windows /\ x.pages = u.pages
        /\ x.page = u.page + 1 /\ x.start = 0 /\ x.pc = "chunk"
    BY DEF Fields, NoUpload
  <2> HIDE DEF x
  <2>3. Chain(x)
    BY <2>2 DEF Chain
  <2>4. x.page \in DOMAIN x.pages /\ x.start \in Nat
    BY <1>1, <1>2, <2>2
  <2>5. x.pages[x.page] # <<>> => x.start < Len(x.pages[x.page])
    <3> SUFFICES ASSUME x.pages[x.page] # <<>> PROVE 0 < Len(x.pages[x.page])
      BY <2>2
    <3> DEFINE text == x.pages[x.page]
    <3>1. IsList(text) /\ text # <<>>
      BY <2>2, <2>4 DEF IsText
    <3> HIDE DEF text
    <3>2. text \in Seq(Range(text))
      BY <3>1 DEF IsList
    <3>3. 0 < Len(text)
      BY <3>1, <3>2
    <3> QED
      BY <3>3 DEF text
  <2>6. \A i \in DOMAIN u.windows : u.windows[i].page \in Nat
    <3>1. \A i \in DOMAIN u.windows : u.windows[i].page \in DOMAIN u.pages
      BY DEF Chain, Placed
    <3> QED
      BY <1>1, <3>1
  <2>7. \A i \in DOMAIN x.windows : x.windows[i].page <= x.page /\ x.windows[i].page # x.page
    BY <1>1, <2>2, <2>6
  <2>8. x.windows # <<>> => /\ Len(x.windows) \in DOMAIN x.windows
                            /\ Ends(x.windows[Len(x.windows)], x)
    <3> SUFFICES ASSUME u.windows # <<>>
                 PROVE  /\ Len(u.windows) \in DOMAIN u.windows
                        /\ Ends(u.windows[Len(u.windows)], x)
      BY <2>2
    <3>1. u.windows \in Seq(Range(u.windows))
      BY DEF Chain, IsList
    <3>2. Len(u.windows) \in DOMAIN u.windows
      BY <3>1
    <3> QED
      BY <2>2, <3>2 DEF LastEnds, Ends
  <2>9. Cutting(x)
    BY <2>2, <2>4, <2>5, <2>7, <2>8 DEF Cutting
  <2> QED
    BY <2>1, <2>2, <2>3, <2>9 DEF Windows
<1>3. CASE ~(u.page < Len(u.pages)) /\ u.passages = <<>>
  <2>1. NextPage(u) = NoUpload
    BY <1>3 DEF NextPage
  <2>2. Fields(NoUpload, NoUpload) /\ NoUpload.windows = <<>> /\ NoUpload.pc # "chunk"
    BY DEF Fields, NoUpload
  <2> QED
    BY <2>1, <2>2, NoWindows
<1>4. CASE ~(u.page < Len(u.pages)) /\ u.passages # <<>>
  <2> DEFINE x == [u EXCEPT !.pc = "embed"]
  <2>1. NextPage(u) = x
    BY <1>4 DEF NextPage
  <2>2. /\ Fields(x, NoUpload) /\ x.windows = u.windows /\ x.pages = u.pages
        /\ x.pc = "embed"
    BY DEF Fields, NoUpload
  <2> HIDE DEF x
  <2>3. Chain(x) /\ LastEnds(x)
    BY <2>2 DEF Chain, LastEnds, Ends
  <2> QED
    BY <2>1, <2>2, <2>3 DEF Windows
<1> QED
  BY <1>2, <1>3, <1>4

(* A window that may be put after the others, and an upload that ends with   *)
(* it.                                                                       *)
Grows(u, v) ==
  /\ Chain(u) /\ Placed(v, u.pages)
  /\ u.windows # <<>> => Follows(u.windows[Len(u.windows)], v, u.pages)
EndsWith(x, u, v) ==
  /\ Chain(x) /\ x.windows # <<>> /\ x.windows[Len(x.windows)] = v
  /\ \A i \in DOMAIN x.windows : x.windows[i] = v
       \/ (i \in DOMAIN u.windows /\ x.windows[i] = u.windows[i])

(* The windows are a chain with it, too.                                     *)
LEMMA ChainGrows ==
  ASSUME NEW u, NEW x, NEW v, Grows(u, v),
         x.windows = Append(u.windows, v), x.pages = u.pages
  PROVE  EndsWith(x, u, v)
<1>0. /\ Chain(u) /\ Placed(v, u.pages)
      /\ u.windows # <<>> => Follows(u.windows[Len(u.windows)], v, u.pages)
  BY DEF Grows
<1> DEFINE n == Len(u.windows)
<1>1. n \in Nat /\ DOMAIN u.windows = 1..n
  BY <1>0, ListFacts DEF Chain
<1>2. /\ IsList(x.windows) /\ Len(x.windows) = n + 1 /\ DOMAIN x.windows = 1..(n + 1)
      /\ \A i \in DOMAIN u.windows : x.windows[i] = u.windows[i]
      /\ x.windows[n + 1] = v
  BY <1>0, AppendFacts DEF Chain
<1>3. n # 0 => u.windows # <<>>
  OBVIOUS
<1> HIDE DEF n
<1>4. ASSUME NEW i \in DOMAIN x.windows PROVE i = n + 1 \/ i \in DOMAIN u.windows
  BY <1>1, <1>2
<1>5. \A i \in DOMAIN x.windows : Placed(x.windows[i], x.pages)
  BY <1>0, <1>2, <1>4 DEF Chain
<1>6. ASSUME NEW i \in DOMAIN x.windows, i # Len(x.windows)
      PROVE  Follows(x.windows[i], x.windows[i + 1], x.pages)
  <2>1. i \in 1..n
    BY <1>1, <1>2, <1>6
  <2>2. CASE i = n
    <3>1. Follows(u.windows[n], v, u.pages)
      BY <1>0, <1>1, <1>3, <2>1, <2>2 DEF n
    <3>2. x.windows[i] = u.windows[n] /\ x.windows[i + 1] = v
      BY <1>1, <1>2, <2>1, <2>2
    <3> QED
      BY <3>1, <3>2
  <2>3. CASE i # n
    <3>1. i + 1 \in 1..n
      BY <1>1, <2>1, <2>3
    <3>2. x.windows[i] = u.windows[i] /\ x.windows[i + 1] = u.windows[i + 1]
      BY <1>1, <1>2, <2>1, <3>1
    <3>3. Follows(u.windows[i], u.windows[i + 1], u.pages)
      BY <1>0, <1>1, <2>1, <2>3 DEF Chain, n
    <3> QED
      BY <3>2, <3>3
  <2> QED
    BY <2>2, <2>3
<1>7. Chain(x)
  <2>1. \A i \in DOMAIN x.windows :
          i # Len(x.windows) => Follows(x.windows[i], x.windows[i + 1], x.pages)
    BY <1>6
  <2>2. IsList(x.windows)
    BY <1>2
  <2> QED
    BY <1>5, <2>1, <2>2 DEF Chain
<1>8. x.windows # <<>>
  <2>1. Len(<<>>) = 0 /\ n + 1 # 0
    BY <1>1
  <2> QED
    BY <1>2, <2>1
<1>9. x.windows[Len(x.windows)] = v
  BY <1>2
<1>10. \A i \in DOMAIN x.windows : x.windows[i] = v
         \/ (i \in DOMAIN u.windows /\ x.windows[i] = u.windows[i])
  <2> SUFFICES ASSUME NEW i \in DOMAIN x.windows
               PROVE  \/ x.windows[i] = v
                      \/ (i \in DOMAIN u.windows /\ x.windows[i] = u.windows[i])
    OBVIOUS
  <2>1. CASE i = n + 1
    BY <1>2, <2>1
  <2>2. CASE i \in DOMAIN u.windows
    BY <1>2, <2>2
  <2> QED
    BY <1>4, <2>1, <2>2
<1> QED
  BY <1>7, <1>8, <1>9, <1>10 DEF EndsWith

(* Whatever else happens, the windows are as before.                         *)
LEMMA WindowsKept ==
  ASSUME Windows(upload), UNCHANGED instance, upload' = upload
  PROVE  Windows(upload)'
<1>1. PICK u : u = upload
  OBVIOUS
<1>2. Windows(u)'
  BY <1>1 DEF Windows, Chain, LastEnds, Cutting, GoesOn, Ends, Placed, Follows,
              Size, Overlap, Fields, NoUpload, IsList, IsText
<1> QED
  BY <1>1, <1>2

(* What is true of an upload is so in the next state.                        *)
LEMMA WindowsNext ==
  ASSUME NEW u, Windows(u), UNCHANGED instance
  PROVE  Windows(u)'
  BY DEF Windows, Chain, LastEnds, Cutting, GoesOn, Ends, Placed, Follows,
         Size, Overlap, Fields, NoUpload, IsList, IsText

(* There are none at first.                                                  *)
LEMMA WindowsInit == Init => Settled /\ Windows(upload)
<1> SUFFICES ASSUME Init PROVE Settled /\ Windows(upload)
  OBVIOUS
<1>1. PICK name \in DOMAIN Instances :
        \E c \in Instances[name].chunking :
          instance = [name |-> name, size |-> c.size, overlap |-> c.overlap]
  BY DEF Init
<1>2. PICK c \in Instances[name].chunking :
        instance = [name |-> name, size |-> c.size, overlap |-> c.overlap]
  BY <1>1
<1>3. c.size \in Nat \ {0} /\ c.overlap \in Nat
  <2>1. c.size \in Nat \ {0} /\ c.overlap \in 0..(c.size - 1)
    BY PapersAssumption
  <2> QED
    BY <2>1
<1>4. Settled
  BY <1>2, <1>3 DEF Settled, Size, Overlap
<1>5. upload = NoUpload
  BY DEF Init
<1>6. Fields(NoUpload, NoUpload) /\ NoUpload.windows = <<>> /\ NoUpload.pc # "chunk"
  BY DEF Fields, NoUpload
<1> QED
  BY <1>4, <1>5, <1>6, NoWindows

(* A pass of chunk_text's loop puts a window after the others.               *)
LEMMA WindowAdvances ==
  ASSUME Settled, Windows(upload), Window
  PROVE  Windows(upload)'
<1> DEFINE text == upload.pages[upload.page]
           end == WindowEnd(text, upload.start, Size)
           chunk == Strip(Slice(text, upload.start, end))
           id == <<upload.page, PassagesOfPage(upload.page) + 1>>
           next == NextStart(text, upload.start, end, Overlap)
           new == [page |-> upload.page, start |-> upload.start, end |-> end]
           cut == [upload EXCEPT
                     !.windows = Append(@, [page |-> upload.page, start |-> upload.start,
                                            end |-> end]),
                     !.passages = IF chunk = <<>> THEN @
                                  ELSE Append(@, [id |-> id, text |-> chunk])]
<1>1. /\ upload.pc = "chunk" /\ text # <<>> /\ UNCHANGED instance
      /\ upload' = IF end >= Len(text) \/ next >= Len(text) THEN NextPage(cut)
                   ELSE [cut EXCEPT !.start = next]
  BY DEF Window
<1>2. /\ Fields(upload, NoUpload) /\ Chain(upload) /\ Cutting(upload)
  BY <1>1 DEF Windows
<1>3. /\ IsText(text) /\ IsList(text) /\ upload.start \in Nat /\ upload.start < Len(text)
      /\ Len(text) \in Nat
  BY <1>1, <1>2, ListFacts DEF Cutting, IsText
<1>4. Size \in Nat \ {0} /\ Overlap \in Nat
  BY DEF Settled
<1> HIDE DEF text, chunk, id
<1>5. /\ end \in Nat /\ upload.start < end /\ end <= Len(text) /\ end - upload.start <= Size
      /\ end = Len(text) \/ upload.start + (3 * Size) \div 5 < end
  BY <1>3, <1>4, WindowFacts
<1>6. /\ Fields(cut, NoUpload) /\ cut.windows = Append(upload.windows, new)
      /\ cut.pages = upload.pages /\ cut.page = upload.page /\ cut.start = upload.start
      /\ cut.pc = "chunk"
  BY <1>1, <1>2 DEF Fields, NoUpload
<1> HIDE DEF cut, end, next
<1>7. /\ new.page = upload.page /\ new.start = upload.start /\ new.end = end
  OBVIOUS
<1> HIDE DEF new
<1>8. Placed(new, upload.pages)
  BY <1>2, <1>3, <1>5, <1>7 DEF Placed, Cutting, text
<1>9. upload.windows # <<>> => Follows(upload.windows[Len(upload.windows)], new, upload.pages)
  <2> SUFFICES ASSUME upload.windows # <<>>
               PROVE  Follows(upload.windows[Len(upload.windows)], new, upload.pages)
    OBVIOUS
  <2> DEFINE w == upload.windows[Len(upload.windows)]
  <2>1. IF w.page = upload.page THEN GoesOn(w, upload) ELSE Ends(w, upload)
    BY <1>2 DEF Cutting
  <2>2. Placed(w, upload.pages)
    <3>1. upload.windows \in Seq(Range(upload.windows))
      BY <1>2 DEF Chain, IsList
    <3>2. Len(upload.windows) \in DOMAIN upload.windows
      BY <3>1
    <3> QED
      BY <1>2, <3>2 DEF Chain
  <2> HIDE DEF w
  <2>3. CASE w.page # upload.page
    BY <1>7, <2>1, <2>3 DEF Follows, Ends, w
  <2>4. CASE w.page = upload.page
    <3>1. /\ w.start \in Nat /\ w.end \in Nat /\ w.start < w.end /\ w.end < Len(text)
          /\ upload.start = NextStart(text, w.start, w.end, Overlap)
      BY <2>1, <2>2, <2>4 DEF Placed, GoesOn, text
    <3>2. /\ w.start < upload.start /\ w.end - Overlap <= upload.start
          /\ Strip(Slice(text, w.end, upload.start)) = <<>>
      <4>1. PICK n : n = NextStart(text, w.start, w.end, Overlap)
        OBVIOUS
      <4>2. w.start < n /\ w.end - Overlap <= n /\ Strip(Slice(text, w.end, n)) = <<>>
        <5>1. /\ IsText(text) /\ Overlap \in Nat /\ w.start \in Nat /\ w.end \in Nat
              /\ w.start < w.end /\ w.end < Len(text)
          BY <1>3, <1>4, <3>1
        <5> QED
          BY <4>1, <5>1, NextFacts
      <4> QED
        BY <3>1, <4>1, <4>2
    <3>3. Overlap <= (3 * Size) \div 5 => w.end < end
      <4>1. (3 * Size) \div 5 \in Nat
        BY <1>4
      <4>2. CASE end = Len(text)
        BY <3>1, <4>2
      <4>3. CASE upload.start + (3 * Size) \div 5 < end
        <5> DEFINE most == (3 * Size) \div 5
        <5>1. most \in Nat /\ upload.start + most < end
          BY <4>1, <4>3
        <5> HIDE DEF most
        <5>2. Overlap <= most => w.end < end
          BY <1>3, <1>4, <1>5, <3>1, <3>2, <5>1
        <5> QED
          BY <5>2 DEF most
      <4> QED
        BY <1>5, <4>2, <4>3
    <3>4. upload.pages[w.page] = text
      BY <2>4 DEF text
    <3> QED
      BY <1>7, <2>4, <3>2, <3>3, <3>4 DEF Follows, w
  <2> QED
    BY <2>3, <2>4
<1>10. /\ Chain(cut) /\ cut.windows # <<>> /\ cut.windows[Len(cut.windows)] = new
       /\ \A i \in DOMAIN cut.windows : cut.windows[i] = new
            \/ (i \in DOMAIN upload.windows /\ cut.windows[i] = upload.windows[i])
  <2>1. PICK u, x, v : u = upload /\ x = cut /\ v = new
    OBVIOUS
  <2>2. Grows(u, v)
    BY <1>2, <1>8, <1>9, <2>1 DEF Grows
  <2>3. x.windows = Append(u.windows, v) /\ x.pages = u.pages
    BY <1>6, <2>1
  <2>4. EndsWith(x, u, v)
    BY <2>2, <2>3, ChainGrows
  <2> QED
    BY <2>1, <2>4 DEF EndsWith
<1>11. \A i \in DOMAIN cut.windows : cut.windows[i].page <= cut.page
  <2>1. upload.page \in Nat
    BY <1>2, ListFacts DEF Cutting
  <2> QED
    BY <1>2, <1>6, <1>7, <1>10, <2>1 DEF Cutting
<1>12. /\ IsList(cut.pages) /\ \A n \in DOMAIN cut.pages : IsText(cut.pages[n])
       /\ cut.page \in DOMAIN cut.pages
  BY <1>2, <1>6 DEF Cutting
<1>13. CASE end >= Len(text)
  <2>1. upload' = NextPage(cut)
    BY <1>1, <1>13
  <2>2. LastEnds(cut)
    BY <1>3, <1>5, <1>6, <1>7, <1>10, <1>13 DEF LastEnds, Ends, text
  <2>3. Windows(NextPage(cut))
    BY <1>6, <1>10, <1>11, <1>12, <2>2, NextPageWindows
  <2>4. PICK u : u = NextPage(cut)
    OBVIOUS
  <2>5. Windows(u)'
    BY <1>1, <2>3, <2>4, WindowsNext
  <2> QED
    BY <2>1, <2>4, <2>5
<1>14. CASE ~(end >= Len(text))
  <2>1. end < Len(text)
    BY <1>3, <1>5, <1>14
  <2>2. next \in Nat /\ next < Len(text)
    BY <1>3, <1>4, <1>5, <2>1, NextFacts DEF next
  <2>3. upload' = [cut EXCEPT !.start = next]
    BY <1>1, <1>3, <1>14, <2>2
  <2> DEFINE x == [cut EXCEPT !.start = next]
  <2>4. /\ Fields(x, NoUpload) /\ x.windows = cut.windows /\ x.pages = cut.pages
        /\ x.page = cut.page /\ x.pc = "chunk" /\ x.start = next
    BY <1>6 DEF Fields, NoUpload
  <2>5. upload' = x
    BY <2>3
  <2> HIDE DEF x
  <2>6. Chain(x)
    BY <1>10, <2>4 DEF Chain
  <2>7. GoesOn(new, x) /\ new.page = x.page
    BY <1>6, <1>7, <2>1, <2>4 DEF GoesOn, next, text
  <2>8. Cutting(x)
    BY <1>6, <1>10, <1>11, <1>12, <2>2, <2>4, <2>7 DEF Cutting, text
  <2>9. Windows(x)
    BY <2>4, <2>6, <2>8 DEF Windows
  <2>10. PICK u : u = x
    OBVIOUS
  <2>11. Windows(u)'
    BY <1>1, <2>9, <2>10, WindowsNext
  <2> QED
    BY <2>5, <2>10, <2>11
<1> QED
  BY <1>13, <1>14

(* No step changes that.                                                     *)
LEMMA WindowsStep ==
  Settled /\ Windows(upload) /\ [Next]_vars => Settled' /\ Windows(upload)'
<1> SUFFICES ASSUME Settled, Windows(upload), [Next]_vars
             PROVE  Settled' /\ Windows(upload)'
  OBVIOUS
<1>1. UNCHANGED instance
  BY DEF Next, vars, AddPaper, ImportPdf, Uploading, SkipPage, Window, Embed, Execute,
         Rollback, Commit, Restart, SearchLexical, SearchVector, Save, Called, Verify,
         CreateCandidate
<1>2. Settled'
  BY <1>1 DEF Settled, Size, Overlap
<1> SUFFICES Windows(upload)'
  BY <1>2
<1>3. Fields(upload, NoUpload) /\ Chain(upload)
  BY DEF Windows
<1>4. ASSUME Fields(upload', NoUpload), upload'.windows = <<>>, upload'.pc # "chunk"
      PROVE  Windows(upload)'
  <2>1. PICK u : u = upload'
    OBVIOUS
  <2>2. Windows(u)
    BY <1>4, <2>1, NoWindows
  <2>3. Windows(u)'
    BY <1>1, <2>2, WindowsNext
  <2> QED
    BY <2>1, <2>3
<1>e. Fields(NoUpload, NoUpload) /\ NoUpload.windows = <<>> /\ NoUpload.pc # "chunk"
  BY DEF Fields, NoUpload
<1>5. ASSUME upload.pc # "chunk", Fields(upload', NoUpload), upload'.pc # "chunk",
             upload'.windows = upload.windows, upload'.pages = upload.pages
      PROVE  Windows(upload)'
  <2>1. PICK u : u = upload'
    OBVIOUS
  <2>2. LastEnds(upload)
    BY <1>5 DEF Windows
  <2>3. Windows(u)
    BY <1>3, <1>5, <2>1, <2>2 DEF Windows, Chain, LastEnds, Ends
  <2>4. Windows(u)'
    BY <1>1, <2>3, WindowsNext
  <2> QED
    BY <2>1, <2>4
<1>6. CASE upload' = upload
  BY <1>1, <1>6, WindowsKept
<1>7. CASE upload' = NoUpload
  BY <1>4, <1>7, <1>e
<1>8. CASE AddPaper
  <2>1. PICK paper \in Settings.papers :
          upload' = [NoUpload EXCEPT !.pc = "embed", !.paper = paper.id,
                                     !.title = paper.title, !.passages = paper.passages]
    BY <1>8 DEF AddPaper
  <2>2. Fields(upload', NoUpload) /\ upload'.windows = <<>> /\ upload'.pc # "chunk"
    BY <2>1 DEF Fields, NoUpload
  <2> QED
    BY <1>4, <2>2
<1>9. CASE ImportPdf
  <2>1. PICK pdf \in Pdfs[instance.name] :
          upload' = [NoUpload EXCEPT !.pc = "chunk", !.paper = pdf.id, !.title = pdf.title,
                                     !.pages = pdf.pages, !.page = 1]
    BY <1>9 DEF ImportPdf
  <2>2. PICK u : u = upload'
    OBVIOUS
  <2>3. /\ Fields(u, NoUpload) /\ u.windows = <<>> /\ u.pc = "chunk"
        /\ u.pages = pdf.pages /\ u.page = 1 /\ u.start = 0
    BY <2>1, <2>2 DEF Fields, NoUpload
  <2>4. /\ IsList(pdf.pages) /\ pdf.pages # <<>>
        /\ \A n \in DOMAIN pdf.pages : IsText(pdf.pages[n])
    BY PapersAssumption DEF Settled
  <2>5. 1 \in DOMAIN pdf.pages
    <3>1. pdf.pages \in Seq(Range(pdf.pages))
      BY <2>4 DEF IsList
    <3> QED
      BY <2>4, <3>1
  <2>6. pdf.pages[1] # <<>> => 0 < Len(pdf.pages[1])
    <3> DEFINE text == pdf.pages[1]
    <3> SUFFICES ASSUME text # <<>> PROVE 0 < Len(text)
      OBVIOUS
    <3>1. IsList(text)
      BY <2>4, <2>5 DEF IsText
    <3> HIDE DEF text
    <3>2. text \in Seq(Range(text))
      BY <3>1 DEF IsList
    <3> QED
      BY <3>2
  <2>7. Chain(u) /\ DOMAIN u.windows = {}
    BY <2>3 DEF Chain, IsList
  <2>8. Cutting(u)
    BY <2>3, <2>4, <2>5, <2>6, <2>7 DEF Cutting
  <2>9. Windows(u)
    BY <2>3, <2>7, <2>8 DEF Windows
  <2>10. Windows(u)'
    BY <1>1, <2>9, WindowsNext
  <2> QED
    BY <2>2, <2>10
<1>10. CASE SkipPage
  <2>1. upload.pc = "chunk" /\ upload.pages[upload.page] = <<>> /\ upload' = NextPage(upload)
    BY <1>10 DEF SkipPage
  <2>2. Cutting(upload)
    BY <2>1 DEF Windows
  <2>3. LastEnds(upload)
    <3> SUFFICES ASSUME upload.windows # <<>>
                 PROVE  Ends(upload.windows[Len(upload.windows)], upload)
      BY DEF LastEnds
    <3> DEFINE w == upload.windows[Len(upload.windows)]
    <3>1. upload.windows \in Seq(Range(upload.windows))
      BY <1>3 DEF Chain, IsList
    <3>2. Len(upload.windows) \in DOMAIN upload.windows
      BY <3>1
    <3>3. Placed(w, upload.pages)
      BY <1>3, <3>2 DEF Chain
    <3>4. IF w.page = upload.page THEN GoesOn(w, upload) ELSE Ends(w, upload)
      BY <2>2 DEF Cutting
    <3> HIDE DEF w
    <3>5. w.page # upload.page
      <4> SUFFICES ASSUME w.page = upload.page PROVE FALSE
        OBVIOUS
      <4>1. Len(upload.pages[w.page]) = 0
        BY <2>1
      <4> QED
        BY <3>3, <4>1 DEF Placed
    <3> QED
      BY <3>4, <3>5 DEF w
  <2>4. Windows(NextPage(upload))
    BY <1>3, <2>1, <2>2, <2>3, NextPageWindows DEF Cutting
  <2>5. PICK u : u = NextPage(upload)
    OBVIOUS
  <2>6. Windows(u)'
    BY <1>1, <2>4, <2>5, WindowsNext
  <2> QED
    BY <2>1, <2>5, <2>6
<1>11. CASE Window
  BY <1>11, WindowAdvances
<1>12. CASE Embed
  <2>1. CASE upload' = [upload EXCEPT !.pc = "add", !.statement = 1]
    <3>1. /\ Fields(upload', NoUpload) /\ upload'.pc # "chunk" /\ upload.pc # "chunk"
          /\ upload'.windows = upload.windows /\ upload'.pages = upload.pages
      BY <1>3, <1>12, <2>1 DEF Embed, Fields, NoUpload
    <3> QED
      BY <1>5, <3>1
  <2> QED
    BY <1>7, <1>12, <2>1 DEF Embed
<1>13. CASE Execute
  <2>1. /\ Fields(upload', NoUpload) /\ upload'.pc # "chunk" /\ upload.pc # "chunk"
        /\ upload'.windows = upload.windows /\ upload'.pages = upload.pages
    BY <1>3, <1>13 DEF Execute, Fields, NoUpload
  <2> QED
    BY <1>5, <2>1
<1>14. CASE Rollback \/ Commit \/ Restart
  BY <1>7, <1>14 DEF Rollback, Commit, Restart
<1>15. ASSUME NEW mode, SearchLexical(mode) PROVE upload' = upload
  BY <1>15 DEF SearchLexical, Called
<1>16. ASSUME NEW own, SearchVector(own) PROVE upload' = upload
  BY <1>16 DEF SearchVector
<1>17. ASSUME NEW evidence, Save(evidence) PROVE upload' = upload
  BY <1>17 DEF Save, Called
<1>18. CASE Verify \/ CreateCandidate \/ UNCHANGED vars
  BY <1>6, <1>18 DEF Verify, CreateCandidate, vars
<1> QED
  BY <1>6, <1>8, <1>9, <1>10, <1>11, <1>12, <1>13, <1>14, <1>15, <1>16, <1>17,
     <1>18 DEF Next

(* The windows of each page go from its first character to its last, leave   *)
(* out nothing but blanks, and end further on each time.                     *)
THEOREM WindowsGoOn == Spec => []WindowsAdvance
<1>1. Spec => [](Settled /\ Windows(upload))
  BY WindowsInit, WindowsStep, PTL DEF Spec
<1> QED
  BY <1>1, ChainAdvances, PTL

-----------------------------------------------------------------------------
(* Citing: what is found in a text when runs of blanks are one space.        *)

(* Flattening a text takes one step for each character.                      *)
FlatStep(flat, c) ==
  IF c \notin Blank THEN Append(flat, c)
  ELSE IF flat # <<>> /\ Last(flat) = Space THEN flat ELSE Append(flat, Space)
FlatSteps(E, text) ==
  [x \in Seq(E) \X (1..Len(text)) |-> FlatStep(x[1], text[x[2]])]

(* It is the fold of these steps.                                            *)
LEMMA FlatFolds ==
  ASSUME NEW E, Space \in E, NEW text \in Seq(E)
  PROVE  /\ StepsStay(Len(text), Seq(E), FlatSteps(E, text))
         /\ FoldsTo(Flat(text), Len(text), Seq(E), <<>>, FlatSteps(E, text))
<1> DEFINE n == Len(text)
           T == Seq(E)
           F == FlatSteps(E, text)
           Is(g) == g = [S \in SUBSET (1..n) |->
                           IF S = {} THEN <<>> ELSE FlatStep(g[S \ {Max(S)}], text[Max(S)])]
<1>1. n \in Nat /\ DOMAIN text = 1..n /\ \A i \in 1..n : text[i] \in E
  OBVIOUS
<1>2. \A v \in T, c \in E : FlatStep(v, c) \in T
  BY DEF FlatStep
<1>3. \A v \in T, i \in 1..n : F[<<v, i>>] = FlatStep(v, text[i]) /\ F[<<v, i>>] \in T
  <2>1. \A v \in T, i \in 1..n : FlatStep(v, text[i]) \in T
    BY <1>1, <1>2
  <2>2. \A v \in T, i \in 1..n : F[<<v, i>>] = FlatStep(v, text[i])
    BY DEF FlatSteps
  <2> HIDE DEF n, T, F
  <2> QED
    BY <2>1, <2>2
<1>4. StepsStay(n, T, F)
  <2> HIDE DEF n, T, F
  <2> QED
    BY <1>3 DEF StepsStay
<1>5. <<>> \in T
  OBVIOUS
<1>6. ASSUME NEW S \in SUBSET (1..n), S # {}, NEW v \in T
      PROVE  F[<<v, Max(S)>>] = FlatStep(v, text[Max(S)])
  <2>1. Max(S) \in 1..n
    <3>1. S \in SUBSET (0..n)
      OBVIOUS
    <3> QED
      BY <1>1, <1>6, <3>1, MaxExists
  <2> HIDE DEF F, T, n
  <2> QED
    BY <1>3, <2>1
<1>7. \E g : Is(g)
  <2> HIDE DEF n, T, F
  <2>1. PICK g \in [SUBSET (1..n) -> T] : FoldsUp(g, n, T, <<>>, F)
    BY <1>1, <1>4, <1>5, FoldExists
  <2>2. ASSUME NEW S \in SUBSET (1..n)
        PROVE  g[S] = IF S = {} THEN <<>> ELSE FlatStep(g[S \ {Max(S)}], text[Max(S)])
    BY <1>6, <2>1 DEF FoldsUp
  <2> QED
    BY <2>1, <2>2
<1> PICK loop : loop = CHOOSE g : Is(g)
  OBVIOUS
<1>8. Flat(text) = loop[1..n]
  BY <1>1 DEF Flat, FlatStep, FoldLeft, MapThenFoldSet
<1>9. FoldsUp(loop, n, T, <<>>, F)
  <2>1. Is(loop)
    BY <1>7
  <2> HIDE DEF n, T, F
  <2> QED
    BY <1>6, <2>1 DEF FoldsUp
<1> QED
  BY <1>4, <1>8, <1>9 DEF FoldsTo

(* It starts from nothing, and takes one step for the last character.        *)
LEMMA OneCharacterMore ==
  ASSUME NEW E, Space \in E
  PROVE  /\ Flat(<<>>) = <<>>
         /\ \A text \in Seq(E), c \in E :
              /\ Flat(text) \in Seq(E)
              /\ Flat(Append(text, c)) = FlatStep(Flat(text), c)
<1>1. Flat(<<>>) = <<>>
  <2>1. PICK none : none = <<>>
    OBVIOUS
  <2>2. none \in Seq(E) /\ Len(none) = 0 /\ <<>> \in Seq(E)
    BY <2>1
  <2>3. FoldsTo(Flat(none), 0, Seq(E), <<>>, FlatSteps(E, none))
    BY <2>2, FlatFolds
  <2> QED
    BY <2>1, <2>2, <2>3, FoldOfNone
<1>2. ASSUME NEW text \in Seq(E), NEW c \in E
      PROVE  Flat(text) \in Seq(E) /\ Flat(Append(text, c)) = FlatStep(Flat(text), c)
  <2>1. PICK F, G, x, y, T, n, m, longer :
          /\ longer = Append(text, c) /\ n = Len(text) /\ m = n + 1 /\ T = Seq(E)
          /\ F = FlatSteps(E, text) /\ G = FlatSteps(E, longer)
          /\ x = Flat(text) /\ y = Flat(longer)
    OBVIOUS
  <2>2. /\ longer \in Seq(E) /\ Len(longer) = m /\ longer[m] = c /\ m \in 1..m
        /\ n \in Nat /\ \A i \in 1..n : longer[i] = text[i] /\ i \in 1..m
        /\ <<>> \in T
    BY <2>1
  <2>3. StepsStay(n, T, F) /\ FoldsTo(x, n, T, <<>>, F)
    BY <2>1, FlatFolds
  <2>4. StepsStay(m, T, G) /\ FoldsTo(y, m, T, <<>>, G)
    BY <2>1, <2>2, FlatFolds
  <2>5. SameSteps(n, T, F, G)
    BY <2>1, <2>2 DEF SameSteps, FlatSteps
  <2>6. OneLonger(n, m, T, <<>>, F, x, G, y)
    BY <2>1, <2>2, <2>3, <2>4, <2>5 DEF OneLonger
  <2>7. x \in T /\ y = G[<<x, m>>]
    BY <2>6, FoldAppends
  <2> QED
    BY <2>1, <2>2, <2>7 DEF FlatSteps
<1> QED
  BY <1>1, <1>2

(* A step that follows a character leaves what was before it.                *)
Splits(p, q, c) == FlatStep(p \o q, c) = p \o FlatStep(q, c) /\ FlatStep(q, c) # <<>>

LEMMA StepAfter ==
  ASSUME NEW E, Space \in E, NEW p \in Seq(E), NEW q \in Seq(E), q # <<>>, NEW c \in E
  PROVE  Splits(p, q, c)
<1>1. /\ p \o q \in Seq(E) /\ p \o q # <<>> /\ Last(p \o q) = Last(q)
  BY DEF Last
<1>2. \A x \in E : Append(p \o q, x) = p \o Append(q, x) /\ Append(q, x) # <<>>
  OBVIOUS
<1> QED
  BY <1>1, <1>2 DEF FlatStep, Splits

(* Any step leaves what is there.                                            *)
Extended(E, p, c) == \E r \in Seq(E) : FlatStep(p, c) = p \o r

LEMMA StepExtends ==
  ASSUME NEW E, Space \in E, NEW p \in Seq(E), NEW c \in E
  PROVE  Extended(E, p, c)
<1>1. FlatStep(p, c) \in {p, Append(p, c), Append(p, Space)}
  BY DEF FlatStep
<1>2. \A x \in E : Append(p, x) = p \o <<x>> /\ <<x>> \in Seq(E)
  OBVIOUS
<1>3. p = p \o <<>> /\ <<>> \in Seq(E)
  OBVIOUS
<1> QED
  BY <1>1, <1>2, <1>3 DEF Extended

(* A stretch of a text is one character longer than the one before it.       *)
LEMMA SliceGrows ==
  ASSUME NEW E, NEW text \in Seq(E), NEW x \in 1..Len(text), NEW k \in x..Len(text)
  PROVE  /\ SubSeq(text, x, k - 1) \in Seq(E) /\ text[k] \in E
         /\ SubSeq(text, x, k) = Append(SubSeq(text, x, k - 1), text[k])
<1>1. x - 1 <= k - 1 /\ k - 1 \in Nat /\ k - 1 <= Len(text)
  OBVIOUS
<1>2. /\ SubSeq(text, x, k - 1) = [i \in 1..(k - x) |-> text[x + i - 1]]
      /\ SubSeq(text, x, k) = [i \in 1..(k - x + 1) |-> text[x + i - 1]]
  BY <1>1
<1> QED
  BY <1>1, <1>2

(* Where a stretch starts with a character, flattening keeps it apart from   *)
(* what is before it; what comes after it changes nothing of it.             *)
Apart(E, text, x, a, k) ==
  \E p, q \in Seq(E) :
    /\ p = Flat(SubSeq(text, x, a - 1)) /\ q = Flat(SubSeq(text, a, k)) /\ q # <<>>
    /\ Flat(SubSeq(text, x, k)) = p \o q

LEMMA StretchIsApart ==
  ASSUME NEW E, Space \in E, NEW text \in Seq(E), NEW x \in 1..Len(text),
         NEW a \in x..Len(text), text[a] \notin Blank, NEW k \in a..Len(text)
  PROVE  Apart(E, text, x, a, k)
<1> DEFINE S == {j \in Nat : a + j <= Len(text) => Apart(E, text, x, a, a + j)}
<1>0. Len(text) \in Nat /\ x \in Nat /\ a \in Nat /\ a - 1 \in Nat /\ a \in 1..Len(text)
  OBVIOUS
<1>1. Apart(E, text, x, a, a)
  <2>1. /\ SubSeq(text, x, a - 1) \in Seq(E) /\ text[a] \in E
        /\ SubSeq(text, x, a) = Append(SubSeq(text, x, a - 1), text[a])
    BY SliceGrows
  <2>2. PICK before, none, c :
          before = SubSeq(text, x, a - 1) /\ none = <<>> /\ c = text[a]
    OBVIOUS
  <2>3. SubSeq(text, a, a) = Append(none, c)
    <3>1. a \in 1..Len(text) /\ a \in a..Len(text)
      BY <1>0
    <3>2. SubSeq(text, a, a) = Append(SubSeq(text, a, a - 1), text[a])
      BY <3>1, SliceGrows
    <3>3. SubSeq(text, a, a - 1) = <<>>
      BY <1>0
    <3> QED
      BY <2>2, <3>2, <3>3
  <2>4. /\ Flat(before) \in Seq(E) /\ Flat(Append(before, c)) = FlatStep(Flat(before), c)
        /\ none \in Seq(E) /\ Flat(none) = <<>>
        /\ Flat(Append(none, c)) = FlatStep(<<>>, c)
    <3>1. before \in Seq(E) /\ none \in Seq(E) /\ c \in E
      BY <2>1, <2>2
    <3>2. none = <<>> /\ Flat(<<>>) = <<>>
      BY <2>2, OneCharacterMore
    <3>3. /\ Flat(before) \in Seq(E) /\ Flat(Append(before, c)) = FlatStep(Flat(before), c)
          /\ Flat(Append(none, c)) = FlatStep(Flat(none), c)
      BY <3>1, OneCharacterMore
    <3> QED
      BY <3>1, <3>2, <3>3
  <2>5. /\ FlatStep(Flat(before), c) = Flat(before) \o <<c>>
        /\ FlatStep(<<>>, c) = <<c>>
    BY <2>1, <2>2, <2>4 DEF FlatStep
  <2>6. <<c>> \in Seq(E) /\ <<c>> # <<>>
    BY <2>1, <2>2
  <2> QED
    BY <2>1, <2>2, <2>3, <2>4, <2>5, <2>6 DEF Apart
<1>2. ASSUME NEW j \in Nat, j \in S PROVE j + 1 \in S
  <2> SUFFICES ASSUME a + (j + 1) <= Len(text) PROVE Apart(E, text, x, a, a + (j + 1))
    OBVIOUS
  <2>1. Apart(E, text, x, a, a + j)
    BY <1>0, <1>2
  <2>2. PICK m, m1 : m = a + j /\ m1 = a + (j + 1)
    OBVIOUS
  <2>3. m1 \in a..Len(text) /\ m1 \in x..Len(text) /\ m1 - 1 = m
    BY <1>0, <2>2
  <2>4. PICK p \in Seq(E), q \in Seq(E) :
          /\ p = Flat(SubSeq(text, x, a - 1)) /\ q = Flat(SubSeq(text, a, m)) /\ q # <<>>
          /\ Flat(SubSeq(text, x, m)) = p \o q
    BY <2>1, <2>2 DEF Apart
  <2>5. PICK c, long, short :
          c = text[m1] /\ long = SubSeq(text, x, m) /\ short = SubSeq(text, a, m)
    OBVIOUS
  <2>6. /\ long \in Seq(E) /\ c \in E /\ SubSeq(text, x, m1) = Append(long, c)
    BY <2>3, <2>5, SliceGrows
  <2>7. short \in Seq(E) /\ SubSeq(text, a, m1) = Append(short, c)
    BY <1>0, <2>3, <2>5, SliceGrows
  <2>8. /\ Flat(Append(long, c)) = FlatStep(p \o q, c)
        /\ Flat(Append(short, c)) = FlatStep(q, c)
        /\ Flat(Append(short, c)) \in Seq(E)
    <3>1. Append(short, c) \in Seq(E)
      BY <2>6, <2>7
    <3>2. Flat(Append(long, c)) = FlatStep(Flat(long), c)
      BY <2>6, OneCharacterMore
    <3>3. Flat(Append(short, c)) = FlatStep(Flat(short), c)
      BY <2>6, <2>7, OneCharacterMore
    <3>4. Flat(Append(short, c)) \in Seq(E)
      BY <3>1, OneCharacterMore
    <3>5. Flat(long) = p \o q /\ Flat(short) = q
      BY <2>4, <2>5
    <3> QED
      BY <3>2, <3>3, <3>4, <3>5
  <2>9. FlatStep(p \o q, c) = p \o FlatStep(q, c) /\ FlatStep(q, c) # <<>>
    <3>1. p \in Seq(E) /\ q \in Seq(E) /\ c \in E /\ q # <<>>
      BY <2>4, <2>6
    <3>2. Splits(p, q, c)
      BY <3>1, StepAfter
    <3> QED
      BY <3>2 DEF Splits
  <2> QED
    BY <2>2, <2>4, <2>6, <2>7, <2>8, <2>9 DEF Apart
<1>3. Nat \subseteq S
  <2>1. 0 \in S
    BY <1>0, <1>1
  <2> HIDE DEF S
  <2> QED
    BY <1>2, <2>1, EveryNatural
<1>4. PICK j : j = k - a
  OBVIOUS
<1>5. j \in Nat /\ a + j = k /\ k <= Len(text)
  BY <1>0, <1>4
<1>6. j \in S
  BY <1>3, <1>5
<1> QED
  BY <1>5, <1>6

(* What follows two texts follows the second.                                *)
LEMMA OneAfterAnother ==
  ASSUME NEW E, NEW p \in Seq(E), NEW q \in Seq(E), NEW r \in Seq(E)
  PROVE  (p \o q) \o r = p \o (q \o r) /\ q \o r \in Seq(E)
  OBVIOUS

(* What is flat stays so when the text goes on.                              *)
GoesFurther(E, text, x, b, k) ==
  \E r \in Seq(E) : Flat(SubSeq(text, x, k)) = Flat(SubSeq(text, x, b)) \o r

LEMMA FlatGoesOn ==
  ASSUME NEW E, Space \in E, NEW text \in Seq(E), NEW x \in 1..Len(text),
         NEW b \in x..Len(text), NEW k \in b..Len(text)
  PROVE  /\ Flat(SubSeq(text, x, b)) \in Seq(E)
         /\ GoesFurther(E, text, x, b, k)
<1> DEFINE S == {j \in Nat : b + j <= Len(text) => GoesFurther(E, text, x, b, b + j)}
<1>0. Len(text) \in Nat /\ x \in Nat /\ b \in Nat /\ b \in 1..Len(text)
  OBVIOUS
<1>1. PICK begun : begun = Flat(SubSeq(text, x, b))
  OBVIOUS
<1>2. begun \in Seq(E)
  <2>1. SubSeq(text, x, b) \in Seq(E)
    BY <1>0
  <2> QED
    BY <1>1, <2>1, OneCharacterMore, <1>0
<1>3. GoesFurther(E, text, x, b, b)
  <2>1. begun = begun \o <<>> /\ <<>> \in Seq(E)
    BY <1>2
  <2> QED
    BY <1>1, <2>1 DEF GoesFurther
<1>4. ASSUME NEW j \in Nat, j \in S PROVE j + 1 \in S
  <2> SUFFICES ASSUME b + (j + 1) <= Len(text) PROVE GoesFurther(E, text, x, b, b + (j + 1))
    OBVIOUS
  <2>1. GoesFurther(E, text, x, b, b + j)
    BY <1>0, <1>4
  <2>2. PICK m, m1 : m = b + j /\ m1 = b + (j + 1)
    OBVIOUS
  <2>3. m1 \in x..Len(text) /\ m1 - 1 = m
    BY <1>0, <2>2
  <2>4. PICK r \in Seq(E) : Flat(SubSeq(text, x, m)) = begun \o r
    BY <1>1, <2>1, <2>2 DEF GoesFurther
  <2>5. PICK c, long : c = text[m1] /\ long = SubSeq(text, x, m)
    OBVIOUS
  <2>6. /\ long \in Seq(E) /\ c \in E /\ SubSeq(text, x, m1) = Append(long, c)
    BY <2>3, <2>5, SliceGrows
  <2>7. PICK flat : flat = Flat(long)
    OBVIOUS
  <2>8. flat \in Seq(E) /\ Flat(Append(long, c)) = FlatStep(flat, c) /\ flat = begun \o r
    BY <2>4, <2>5, <2>6, <2>7, OneCharacterMore
  <2>9. \E s \in Seq(E) : FlatStep(flat, c) = flat \o s
    <3>1. Extended(E, flat, c)
      BY <2>6, <2>8, StepExtends
    <3> QED
      BY <3>1 DEF Extended
  <2>10. PICK s \in Seq(E) : FlatStep(flat, c) = flat \o s
    BY <2>9
  <2>11. (begun \o r) \o s = begun \o (r \o s) /\ r \o s \in Seq(E)
    BY <1>2, <2>4, <2>10, OneAfterAnother
  <2> QED
    BY <1>1, <2>2, <2>6, <2>8, <2>10, <2>11 DEF GoesFurther
<1>5. Nat \subseteq S
  <2>1. 0 \in S
    BY <1>0, <1>3
  <2> HIDE DEF S
  <2> QED
    BY <1>4, <2>1, EveryNatural
<1>6. PICK j : j = k - b
  OBVIOUS
<1>7. j \in Nat /\ b + j = k /\ k <= Len(text)
  BY <1>0, <1>6
<1>8. j \in S
  BY <1>5, <1>7
<1> QED
  BY <1>1, <1>2, <1>7, <1>8

(* So a stretch that starts with a character can be found in any longer one. *)
LEMMA StretchOccurs ==
  ASSUME NEW text, IsList(text), NEW x \in 1..Len(text), NEW a \in x..Len(text),
         NEW b \in a..Len(text), NEW y \in b..Len(text), text[a] \notin Blank
  PROVE  Occurs(SubSeq(text, a, b), SubSeq(text, x, y))
<1> DEFINE E == Range(text) \cup {Space}
<1>1. text \in Seq(E) /\ Space \in E
  BY DEF IsList
<1> HIDE DEF E
<1>2. Apart(E, text, x, a, b)
  BY <1>1, StretchIsApart
<1>3. b \in x..Len(text) /\ Len(text) \in Nat
  BY <1>1
<1>4. GoesFurther(E, text, x, b, y)
  BY <1>1, <1>3, FlatGoesOn
<1>5. PICK q, t : q = Flat(SubSeq(text, a, b)) /\ t = Flat(SubSeq(text, x, y))
  OBVIOUS
<1>6. PICK p \in Seq(E) : q \in Seq(E) /\ Flat(SubSeq(text, x, b)) = p \o q
  BY <1>2, <1>5 DEF Apart
<1>7. PICK r \in Seq(E) : t = (p \o q) \o r
  BY <1>4, <1>5, <1>6 DEF GoesFurther
<1>8. PICK i : i = Len(p)
  OBVIOUS
<1>9. i \in 0..(Len(t) - Len(q)) /\ SubSeq(t, i + 1, i + Len(q)) = q
  BY <1>6, <1>7, <1>8
<1> QED
  BY <1>5, <1>9 DEF Occurs, Slice

-----------------------------------------------------------------------------
(* What the chunks of a page show of it.                                     *)

(* A chunk has every stretch of its window.                                  *)
LEMMA ChunkHasStretch ==
  ASSUME NEW text, IsList(text), NEW start \in Nat, NEW end \in Nat, end <= Len(text),
         NEW a \in Nat, NEW b \in Nat, start < a, a <= b, b <= end,
         text[a] \notin Blank, text[b] \notin Blank
  PROVE  /\ Strip(Slice(text, start, end)) # <<>>
         /\ Occurs(SubSeq(text, a, b), Strip(Slice(text, start, end)))
<1>1. PICK slice : slice = Slice(text, start, end)
  OBVIOUS
<1>2. Len(text) \in Nat /\ text \in Seq(Range(text))
  BY ListFacts DEF IsList
<1>3. /\ slice \in Seq(Range(text)) /\ Len(slice) = end - start
      /\ DOMAIN slice = 1..(end - start)
      /\ \A i \in 1..(end - start) : slice[i] = text[start + i]
  BY <1>1, <1>2 DEF Slice
<1>4. IsList(slice)
  BY <1>3, SequenceIsList
<1> DEFINE ink == {i \in DOMAIN slice : slice[i] \notin Blank}
<1>5. PICK c, d : c = a - start /\ d = b - start
  OBVIOUS
<1>6. c \in ink /\ d \in ink /\ c \in Nat /\ d \in Nat /\ c <= d
  <2>1. /\ c \in 1..(end - start) /\ start + c = a
        /\ d \in 1..(end - start) /\ start + d = b
    BY <1>5
  <2>2. c \in DOMAIN slice /\ d \in DOMAIN slice
    BY <1>3, <2>1
  <2>3. slice[c] = text[a] /\ slice[d] = text[b]
    BY <1>3, <2>1
  <2>4. slice[c] \notin Blank /\ slice[d] \notin Blank
    BY <2>3
  <2>5. c \in Nat /\ d \in Nat /\ c <= d
    BY <1>5
  <2> QED
    BY <2>2, <2>4, <2>5
<1>7. ink \in SUBSET (0..(end - start)) /\ ink \in SUBSET Nat /\ end - start \in Nat
  BY <1>3, <1>6
<1>8. PICK x, y : x = Min(ink) /\ y = Max(ink)
  OBVIOUS
<1>9. Strip(slice) = SubSeq(slice, x, y)
  BY <1>6, <1>8 DEF Strip
<1>10. x \in ink /\ x <= c /\ y \in ink /\ d <= y
  <2> HIDE DEF ink
  <2>1. ink # {}
    BY <1>6
  <2>2. Min(ink) \in ink /\ \A i \in ink : Min(ink) <= i
    BY <1>7, <2>1, MinExists
  <2>3. Max(ink) \in ink /\ \A i \in ink : i <= Max(ink)
    BY <1>7, <2>1, MaxExists
  <2> QED
    BY <1>6, <1>8, <2>2, <2>3
<1>11. slice[c] \notin Blank
  BY <1>6
<1>12. /\ x \in 1..Len(slice) /\ c \in x..Len(slice) /\ d \in c..Len(slice)
       /\ y \in d..Len(slice)
  <2>1. /\ x \in 1..(end - start) /\ y \in 1..(end - start)
        /\ c \in 1..(end - start) /\ d \in 1..(end - start)
    BY <1>3, <1>6, <1>10
  <2> HIDE DEF ink
  <2> QED
    BY <1>3, <1>6, <1>10, <2>1
<1> HIDE DEF ink
<1>13. Occurs(SubSeq(slice, c, d), SubSeq(slice, x, y))
  BY <1>4, <1>11, <1>12, StretchOccurs
<1>14. SubSeq(slice, c, d) = SubSeq(text, a, b)
  <2>1. SubSeq(slice, c, d) = [i \in 1..(d - c + 1) |-> slice[c + i - 1]]
    BY <1>3, <1>12
  <2>2. SubSeq(text, a, b) = [i \in 1..(b - a + 1) |-> text[a + i - 1]]
    BY <1>2
  <2>3. d - c = b - a
    BY <1>5
  <2>4. ASSUME NEW i \in 1..(b - a + 1)
        PROVE  slice[c + i - 1] = text[a + i - 1]
    <3>1. c + i - 1 \in 1..(end - start) /\ start + (c + i - 1) = a + i - 1
      BY <1>5
    <3> QED
      BY <1>3, <3>1
  <2> QED
    BY <2>1, <2>2, <2>3, <2>4
<1>15. SubSeq(slice, x, y) # <<>>
  BY <1>3, <1>12
<1> QED
  BY <1>1, <1>9, <1>13, <1>14, <1>15

(* The stretches QuotesSurvive is about, and what it says of each: a passage *)
(* of its page has it.                                                       *)
Longest == Min({Overlap, (3 * Size) \div 5})
IsStretch(text, a, b) ==
  /\ a \in DOMAIN text /\ b \in DOMAIN text /\ a <= b /\ b - a <= Longest
  /\ text[a] \notin Blank /\ text[b] \notin Blank
Shows(S, n, quote) == \E x \in S : x.id[1] = n /\ Occurs(quote, x.text)

(* Every stretch of a page that starts before an offset is there.            *)
UpTo(S, n, text, start) ==
  \A a, b \in DOMAIN text :
    IsStretch(text, a, b) /\ a <= start => Shows(S, n, SubSeq(text, a, b))
AllPages(S, texts) ==
  \A n \in DOMAIN texts : IsList(texts[n]) /\ UpTo(S, n, texts[n], Len(texts[n]))

(* A stretch that starts before the next window ends in this one.            *)
LEMMA StretchFits ==
  ASSUME Settled, NEW text, IsText(text), NEW start \in Nat, start < Len(text),
         NEW end, end = WindowEnd(text, start, Size),
         NEW a, NEW b, IsStretch(text, a, b), start < a,
         \/ end = Len(text)
         \/ a <= NextStart(text, start, end, Overlap)
  PROVE  a \in Nat /\ b \in Nat /\ end \in Nat /\ end <= Len(text) /\ b <= end
<1>1. /\ IsList(text) /\ Len(text) \in Nat /\ DOMAIN text = 1..Len(text)
      /\ Size \in Nat \ {0} /\ Overlap \in Nat
  BY ListFacts DEF IsText, Settled
<1>2. /\ end \in Nat /\ start < end /\ end <= Len(text)
      /\ end = Len(text) \/ start + (3 * Size) \div 5 < end
  BY <1>1, WindowFacts
<1>3. /\ a \in 1..Len(text) /\ b \in 1..Len(text) /\ b - a <= Longest
      /\ text[a] \notin Blank
  BY <1>1 DEF IsStretch
<1>4. CASE end = Len(text)
  BY <1>1, <1>2, <1>3, <1>4
<1>5. CASE end # Len(text)
  <2>1. PICK most, x, next :
          /\ most = (3 * Size) \div 5 /\ x = Max({end - Overlap, start + 1})
          /\ next = NextStart(text, start, end, Overlap)
    OBVIOUS
  <2>2. most \in Nat
    BY <1>1, <2>1
  <2>3. Longest <= Overlap /\ Longest <= most /\ Longest \in Nat
    <3>1. Longest = IF Overlap <= most THEN Overlap ELSE most
      BY <1>1, <2>1, <2>2, MinOfTwo DEF Longest
    <3> QED
      BY <1>1, <2>2, <3>1
  <2>4. x = IF end - Overlap >= start + 1 THEN end - Overlap ELSE start + 1
    BY <1>1, <1>2, <2>1, MaxOfTwo
  <2>5. x \in 0..Len(text)
    BY <1>1, <1>2, <2>4
  <2>6. next = SkipBlank(text, x)
    BY <2>1 DEF NextStart
  <2>7. next \in x..Len(text) /\ \A i \in (x + 1)..next : text[i] \in Blank
    BY <1>1, <2>5, <2>6, SkipFacts
  <2>8. a <= x
    <3>1. a <= next
      BY <1>5, <2>1
    <3>2. a \notin (x + 1)..next
      BY <1>3, <2>7
    <3> QED
      BY <1>1, <1>3, <2>5, <2>7, <3>1, <3>2
  <2>9. start + most < end
    BY <1>2, <1>5, <2>1
  <2> HIDE DEF Longest
  <2> QED
    BY <1>1, <1>2, <1>3, <2>2, <2>3, <2>4, <2>8, <2>9
<1> QED
  BY <1>4, <1>5

(* What is shown stays so while the passages are among others.               *)
Among(S, T) == \A x \in S : \E y \in T : y.id = x.id /\ y.text = x.text

LEMMA ShownMore ==
  ASSUME NEW S, NEW T, Among(S, T), NEW n, NEW text, NEW start, UpTo(S, n, text, start)
  PROVE  UpTo(T, n, text, start)
<1> SUFFICES ASSUME NEW a \in DOMAIN text, NEW b \in DOMAIN text,
                    IsStretch(text, a, b), a <= start
             PROVE  Shows(T, n, SubSeq(text, a, b))
  BY DEF UpTo
<1>1. Shows(S, n, SubSeq(text, a, b))
  BY DEF UpTo
<1>2. PICK x \in S : x.id[1] = n /\ Occurs(SubSeq(text, a, b), x.text)
  BY <1>1 DEF Shows
<1>3. PICK y \in T : y.id = x.id /\ y.text = x.text
  BY DEF Among
<1> QED
  BY <1>2, <1>3 DEF Shows

(* No stretch starts before a page, and there is none on an empty one.       *)
LEMMA NoneBefore ==
  ASSUME NEW text, IsList(text), NEW S, NEW n
  PROVE  UpTo(S, n, text, 0) /\ (text = <<>> => UpTo(S, n, text, Len(text)))
<1>1. DOMAIN text = 1..Len(text) /\ Len(text) \in Nat
  BY ListFacts
<1>2. text = <<>> => DOMAIN text = {}
  OBVIOUS
<1> QED
  BY <1>1, <1>2 DEF UpTo

(* A pass of the loop adds the stretches that start in its window, before    *)
(* the next.                                                                 *)
LEMMA WindowShows ==
  ASSUME Settled, NEW text, IsText(text), NEW start \in Nat, start < Len(text),
         NEW end, end = WindowEnd(text, start, Size),
         NEW S, NEW n, UpTo(S, n, text, start), NEW T, Among(S, T),
         LET chunk == Strip(Slice(text, start, end))
         IN chunk # <<>> => \E y \in T : y.id[1] = n /\ y.text = chunk,
         NEW next,
         next = IF end = Len(text) THEN Len(text) ELSE NextStart(text, start, end, Overlap)
  PROVE  UpTo(T, n, text, next)
<1> SUFFICES ASSUME NEW a \in DOMAIN text, NEW b \in DOMAIN text,
                    IsStretch(text, a, b), a <= next
             PROVE  Shows(T, n, SubSeq(text, a, b))
  BY DEF UpTo
<1>1. IsList(text) /\ Len(text) \in Nat /\ a \in Nat
  BY ListFacts DEF IsText
<1>2. CASE a <= start
  <2>1. UpTo(T, n, text, start)
    BY ShownMore
  <2> QED
    BY <1>2, <2>1 DEF UpTo
<1>3. CASE start < a
  <2>1. a \in Nat /\ b \in Nat /\ end \in Nat /\ end <= Len(text) /\ b <= end
    BY <1>3, StretchFits
  <2>2. a <= b /\ text[a] \notin Blank /\ text[b] \notin Blank
    BY DEF IsStretch
  <2>3. PICK chunk : chunk = Strip(Slice(text, start, end))
    OBVIOUS
  <2>4. chunk # <<>> /\ Occurs(SubSeq(text, a, b), chunk)
    BY <1>1, <1>3, <2>1, <2>2, <2>3, ChunkHasStretch
  <2>5. PICK y \in T : y.id[1] = n /\ y.text = chunk
    BY <2>3, <2>4
  <2> QED
    BY <2>4, <2>5 DEF Shows
<1> QED
  BY <1>1, <1>2, <1>3

-----------------------------------------------------------------------------
(* While a PDF is cut, the stretches that start before the next window are   *)
(* in the passages so far; then all are, also in those of the paper once it  *)
(* is stored; and a transaction leaves the other papers' passages alone.     *)
Cut(u) ==
  LET S == Range(u.passages)
  IN /\ u.pc = "chunk" =>
          /\ \A n \in DOMAIN u.pages : n < u.page => UpTo(S, n, u.pages[n], Len(u.pages[n]))
          /\ UpTo(S, u.page, u.pages[u.page], u.start)
     /\ u.pc \in {"embed", "add"} => u.pages = Nowhere \/ AllPages(S, u.pages)
Kept(tables, texts) ==
  /\ DOMAIN texts = PaperIds
  /\ \A p \in PaperIds : texts[p] # Nowhere => AllPages(Of(tables.passages, p), texts[p])
Untouched ==
  upload.pc = "add" =>
    \A p \in PaperIds \ {upload.paper} : Of(tx.passages, p) = Of(db.passages, p)
Quotable == Cut(upload) /\ Kept(db, pages) /\ Untouched

(* That is more than QuotesSurvive asks for.                                 *)
LEMMA KeptSurvives == Store /\ Settled /\ Kept(db, pages) => QuotesSurvive
<1> SUFFICES ASSUME Store, Settled, Kept(db, pages),
                    NEW p \in PaperIds, pages[p] # Nowhere, NEW n \in DOMAIN pages[p],
                    NEW quote \in Stretches(pages[p][n])
             PROVE  \E row \in Rows(db) : /\ row.paper = p /\ row.id[1] = n
                                          /\ Occurs(quote, row.text)
  BY DEF QuotesSurvive
<1>1. PICK text : text = pages[p][n]
  OBVIOUS
<1>2. UpTo(Of(db.passages, p), n, text, Len(text)) /\ IsList(text)
  BY <1>1 DEF Kept, AllPages
<1>3. Size \in Nat \ {0} /\ Overlap \in Nat
  BY DEF Settled
<1>4. Longest \in Nat
  <2>1. PICK most : most = (3 * Size) \div 5
    OBVIOUS
  <2>2. most \in Nat
    BY <1>3, <2>1
  <2>3. Longest = IF Overlap <= most THEN Overlap ELSE most
    BY <1>3, <2>1, <2>2, MinOfTwo DEF Longest
  <2> QED
    BY <1>3, <2>2, <2>3
<1>5. PICK e : /\ e[1] \in DOMAIN text /\ e[2] \in DOMAIN text
               /\ text[e[1]] \notin Blank /\ text[e[2]] \notin Blank
               /\ e[1] <= e[2] /\ e[2] - e[1] < Longest + 1
               /\ quote = SubSeq(text, e[1], e[2])
  BY <1>1 DEF Stretches, Longest
<1>6. PICK a, b : a = e[1] /\ b = e[2]
  OBVIOUS
<1>7. /\ DOMAIN text = 1..Len(text) /\ Len(text) \in Nat
      /\ a \in 1..Len(text) /\ b \in 1..Len(text)
  BY <1>2, <1>5, <1>6, ListFacts
<1>8. IsStretch(text, a, b) /\ a <= Len(text)
  BY <1>4, <1>5, <1>6, <1>7 DEF IsStretch
<1>9. Shows(Of(db.passages, p), n, quote)
  BY <1>2, <1>5, <1>6, <1>7, <1>8 DEF UpTo
<1>10. PICK x \in db.passages : x.paper = p /\ x.id[1] = n /\ Occurs(quote, x.text)
  BY <1>9 DEF Shows, Of
<1>11. PICK row : row = RowOf(x.paper, db.papers[x.paper], x)
  OBVIOUS
<1>12. x.paper \in DOMAIN db.papers
  BY DEF Store, Whole, Sane, Referring
<1>13. row \in Rows(db)
  BY <1>11, <1>12 DEF Rows
<1>14. row.paper = x.paper /\ row.id = x.id /\ row.text = x.text
  BY <1>11 DEF RowOf
<1> QED
  BY <1>10, <1>13, <1>14

(* The chunk sizes are those of the instance, which no step changes.         *)
LEMMA SameStretches ==
  ASSUME UNCHANGED instance, NEW S, NEW T, NEW u
  PROVE  /\ AllPages(S, T)' = AllPages(S, T)
         /\ Cut(u)' = Cut(u)
  BY DEF AllPages, Cut, UpTo, Shows, IsStretch, Longest, Size, Overlap

(* A new page begins with all the earlier ones done.                         *)
Done(u) ==
  LET S == Range(u.passages)
  IN \A n \in DOMAIN u.pages : n <= u.page => UpTo(S, n, u.pages[n], Len(u.pages[n]))

LEMMA NextPageCut ==
  ASSUME NEW u, Fields(u, NoUpload), u.pc = "chunk", IsList(u.pages),
         \A n \in DOMAIN u.pages : IsText(u.pages[n]), u.page \in DOMAIN u.pages, Done(u)
  PROVE  Cut(NextPage(u))
<1>1. Len(u.pages) \in Nat /\ DOMAIN u.pages = 1..Len(u.pages) /\ u.page \in Nat
  BY ListFacts
<1>2. PICK v : v = NextPage(u)
  OBVIOUS
<1>3. CASE v = [u EXCEPT !.page = @ + 1, !.start = 0] /\ u.page < Len(u.pages)
  <2>1. /\ v.pc = "chunk" /\ v.page = u.page + 1 /\ v.start = 0 /\ v.pages = u.pages
        /\ v.passages = u.passages
    BY <1>3 DEF Fields, NoUpload
  <2>2. v.page \in DOMAIN v.pages
    BY <1>1, <1>3, <2>1
  <2>3. UpTo(Range(v.passages), v.page, v.pages[v.page], 0)
    BY <2>1, <2>2, NoneBefore DEF IsText
  <2>4. \A n \in DOMAIN v.pages : n < v.page =>
           UpTo(Range(v.passages), n, v.pages[n], Len(v.pages[n]))
    <3>1. \A n \in DOMAIN v.pages : n < v.page => n <= u.page
      BY <1>1, <2>1
    <3> QED
      BY <2>1, <3>1 DEF Done
  <2> QED
    BY <1>2, <2>1, <2>3, <2>4 DEF Cut
<1>4. CASE v = NoUpload
  BY <1>2, <1>4 DEF Cut, NoUpload
<1>5. CASE v = [u EXCEPT !.pc = "embed"] /\ ~(u.page < Len(u.pages))
  <2>1. v.pc = "embed" /\ v.pages = u.pages /\ v.passages = u.passages
    BY <1>5 DEF Fields, NoUpload
  <2>2. \A n \in DOMAIN u.pages : n <= u.page
    BY <1>1, <1>5
  <2>3. AllPages(Range(v.passages), v.pages)
    BY <2>1, <2>2 DEF AllPages, Done, IsText
  <2> QED
    BY <1>2, <2>1, <2>3 DEF Cut
<1> QED
  BY <1>2, <1>3, <1>4, <1>5 DEF NextPage

(* A page with no text has nothing to be cited.                              *)
LEMMA SkipPageCut ==
  ASSUME Windows(upload), Cut(upload), SkipPage
  PROVE  Cut(upload')
<1>1. /\ upload.pc = "chunk" /\ upload.pages[upload.page] = <<>>
      /\ upload' = NextPage(upload)
  BY DEF SkipPage
<1>2. Fields(upload, NoUpload) /\ Cutting(upload)
  BY <1>1 DEF Windows
<1>3. /\ IsList(upload.pages) /\ \A n \in DOMAIN upload.pages : IsText(upload.pages[n])
      /\ upload.page \in DOMAIN upload.pages /\ upload.page \in Nat
      /\ DOMAIN upload.pages \subseteq Nat
  BY <1>2, ListFacts DEF Cutting
<1>4. UpTo(Range(upload.passages), upload.page, upload.pages[upload.page],
           Len(upload.pages[upload.page]))
  BY <1>1, <1>3, NoneBefore DEF IsText
<1>5. Done(upload)
  <2>1. \A n \in DOMAIN upload.pages : n <= upload.page => n < upload.page \/ n = upload.page
    BY <1>3
  <2> QED
    BY <1>1, <1>4, <2>1 DEF Done, Cut
<1> QED
  BY <1>1, <1>2, <1>3, <1>5, NextPageCut

(* A window adds what it shows of its page.                                  *)
LEMMA WindowCut ==
  ASSUME Settled, Uploads, Windows(upload), Cut(upload), Window
  PROVE  Cut(upload')
<1> DEFINE text == upload.pages[upload.page]
           end == WindowEnd(text, upload.start, Size)
           chunk == Strip(Slice(text, upload.start, end))
           id == <<upload.page, PassagesOfPage(upload.page) + 1>>
           next == NextStart(text, upload.start, end, Overlap)
           cut == [upload EXCEPT
                     !.windows = Append(@, [page |-> upload.page, start |-> upload.start,
                                            end |-> end]),
                     !.passages = IF chunk = <<>> THEN @
                                  ELSE Append(@, [id |-> id, text |-> chunk])]
           S == Range(upload.passages)
           T == Range(cut.passages)
<1>1. /\ upload.pc = "chunk" /\ text # <<>>
      /\ upload' = IF end >= Len(text) \/ next >= Len(text) THEN NextPage(cut)
                   ELSE [cut EXCEPT !.start = next]
  BY DEF Window
<1>2. Fields(upload, NoUpload) /\ Cutting(upload) /\ IsList(upload.passages)
  BY <1>1 DEF Windows, Uploads
<1>3. /\ IsList(upload.pages) /\ \A n \in DOMAIN upload.pages : IsText(upload.pages[n])
      /\ upload.page \in DOMAIN upload.pages /\ upload.page \in Nat
      /\ DOMAIN upload.pages \subseteq Nat
  BY <1>2, ListFacts DEF Cutting
<1>4. /\ IsText(text) /\ IsList(text) /\ upload.start \in Nat /\ upload.start < Len(text)
      /\ Len(text) \in Nat
  BY <1>1, <1>2, ListFacts DEF Cutting, IsText
<1>5. /\ UpTo(S, upload.page, text, upload.start)
      /\ \A n \in DOMAIN upload.pages : n < upload.page =>
           UpTo(S, n, upload.pages[n], Len(upload.pages[n]))
  BY <1>1 DEF Cut
<1>6. id[1] = upload.page
  OBVIOUS
<1> HIDE DEF text, chunk, id
<1>7. /\ Fields(cut, NoUpload) /\ cut.pc = "chunk" /\ cut.pages = upload.pages
      /\ cut.page = upload.page /\ cut.start = upload.start
      /\ cut.passages = (IF chunk = <<>> THEN upload.passages
                         ELSE Append(upload.passages, [id |-> id, text |-> chunk]))
  BY <1>1, <1>2 DEF Fields, NoUpload
<1> HIDE DEF cut, end, next
<1>8. /\ Among(S, T)
      /\ chunk # <<>> => \E y \in T : y.id[1] = upload.page /\ y.text = chunk
  <2>1. CASE chunk = <<>>
    BY <1>7, <2>1 DEF Among
  <2>2. CASE chunk # <<>>
    <3>1. PICK old, new, x :
            /\ old = upload.passages /\ x = [id |-> id, text |-> chunk]
            /\ new = Append(old, x)
      OBVIOUS
    <3>2. /\ DOMAIN new = 1..(Len(old) + 1) /\ \A i \in DOMAIN old : new[i] = old[i]
          /\ new[Len(old) + 1] = x /\ DOMAIN old = 1..Len(old) /\ Len(old) \in Nat
      BY <1>2, <3>1, AppendFacts, ListFacts
    <3>3. Range(old) \subseteq Range(new) /\ x \in Range(new)
      BY <3>2 DEF Range
    <3>4. T = Range(new) /\ S = Range(old)
      BY <1>7, <2>2, <3>1
    <3> QED
      BY <1>6, <3>1, <3>3, <3>4 DEF Among
  <2> QED
    BY <2>1, <2>2
<1> HIDE DEF S, T
<1>9. \A n \in DOMAIN cut.pages : n < cut.page =>
        UpTo(T, n, cut.pages[n], Len(cut.pages[n]))
  BY <1>5, <1>7, <1>8, ShownMore
<1>10. PICK reached :
         reached = IF end = Len(text) THEN Len(text)
                   ELSE NextStart(text, upload.start, end, Overlap)
  OBVIOUS
<1>11. UpTo(T, upload.page, text, reached)
  <2>1. PICK e, c, start, n :
          e = end /\ c = chunk /\ start = upload.start /\ n = upload.page
    OBVIOUS
  <2>2. /\ e = WindowEnd(text, start, Size) /\ c = Strip(Slice(text, start, e))
        /\ reached = IF e = Len(text) THEN Len(text) ELSE NextStart(text, start, e, Overlap)
        /\ c # <<>> => \E y \in T : y.id[1] = n /\ y.text = c
    BY <1>8, <1>10, <2>1 DEF end, chunk
  <2>3. LET k == Strip(Slice(text, start, e))
        IN k # <<>> => \E y \in T : y.id[1] = n /\ y.text = k
    BY <2>2
  <2>4. UpTo(S, n, text, start) /\ start \in Nat /\ start < Len(text)
    BY <1>4, <1>5, <2>1
  <2>5. UpTo(T, n, text, reached)
    BY <1>4, <1>8, <2>2, <2>3, <2>4, WindowShows
  <2> QED
    BY <2>1, <2>5
<1>12. /\ end \in Nat /\ upload.start < end /\ end <= Len(text)
  <2>1. Size \in Nat \ {0}
    BY DEF Settled
  <2> QED
    BY <1>4, <2>1, WindowFacts DEF end
<1>13. CASE end = Len(text)
  <2>1. upload' = NextPage(cut)
    BY <1>1, <1>4, <1>13
  <2>2. UpTo(T, cut.page, cut.pages[cut.page], Len(cut.pages[cut.page]))
    BY <1>7, <1>10, <1>11, <1>13 DEF text
  <2>3. Done(cut)
    <3>1. \A n \in DOMAIN cut.pages : n <= cut.page => n < cut.page \/ n = cut.page
      BY <1>3, <1>7
    <3> QED
      BY <1>9, <2>2, <3>1 DEF Done, T
  <2> QED
    BY <1>3, <1>7, <2>1, <2>3, NextPageCut
<1>14. CASE end # Len(text)
  <2>1. end < Len(text)
    BY <1>4, <1>12, <1>14
  <2>2. next \in Nat /\ next < Len(text)
    <3>1. Overlap \in Nat
      BY DEF Settled
    <3> QED
      BY <1>4, <1>12, <2>1, <3>1, NextFacts DEF next
  <2>3. upload' = [cut EXCEPT !.start = next]
    BY <1>1, <1>4, <1>12, <2>1, <2>2
  <2>4. PICK v : v = upload'
    OBVIOUS
  <2>5. /\ v.pc = "chunk" /\ v.pages = cut.pages /\ v.page = cut.page /\ v.start = next
        /\ v.passages = cut.passages
    BY <1>7, <2>3, <2>4 DEF Fields, NoUpload
  <2>6. next = reached
    BY <1>10, <1>14 DEF next
  <2>7. UpTo(T, v.page, v.pages[v.page], v.start)
    BY <1>7, <1>11, <2>5, <2>6 DEF text
  <2> QED
    BY <1>9, <2>4, <2>5, <2>7 DEF Cut, T
<1> QED
  BY <1>13, <1>14

-----------------------------------------------------------------------------
(* A statement changes no passage of another paper.                          *)
LEMMA EffectTouchesOne ==
  ASSUME NEW t, Fields(t, NoTables), NEW k \in 1..6, NEW p, p # upload.paper
  PROVE  Of(Effect(Statements[k], t).passages, p) = Of(t.passages, p)
<1>1. PICK s : s = Effect(Statements[k], t)
  OBVIOUS
<1>2. Of(NewPassages, p) = {}
  BY DEF Of, NewPassages
<1>3. \/ s.passages = t.passages
      \/ s.passages = {x \in t.passages : x.paper # upload.paper}
      \/ s.passages = t.passages \cup NewPassages
  <2>1. CASE k = 1
    BY <1>1, <2>1 DEF Effect, Statements, InsertPaper, Fields, NoTables
  <2>2. CASE k = 2
    BY <1>1, <2>2 DEF Effect, Statements, DeletePassages, Fields, NoTables
  <2>3. CASE k = 3
    BY <1>1, <2>3 DEF Effect, Statements, DeleteFts, Fields, NoTables
  <2>4. CASE k = 4
    BY <1>1, <2>4 DEF Effect, Statements, InsertPassages, Fields, NoTables
  <2>5. CASE k = 5
    BY <1>1, <2>5 DEF Effect, Statements, InsertFts, Fields, NoTables
  <2>6. CASE k = 6
    BY <1>1, <2>6 DEF Effect, Statements, InsertEmbeddings, Fields, NoTables
  <2> QED
    BY <2>1, <2>2, <2>3, <2>4, <2>5, <2>6
<1> QED
  BY <1>1, <1>2, <1>3 DEF Of

(* What is committed has the passages of the upload, and the others' as they *)
(* were.                                                                     *)
LEMMA CommitKeeps ==
  ASSUME Store, Quotable, Commit
  PROVE  Kept(tx, [pages EXCEPT ![upload.paper] = upload.pages])
<1>1. PICK texts : texts = [pages EXCEPT ![upload.paper] = upload.pages]
  OBVIOUS
<1>2. upload.pc = "add" /\ upload.statement = 7
  BY DEF Commit, Committing, Statements
<1>3. DOMAIN texts = PaperIds /\ DOMAIN pages = PaperIds
  BY <1>1 DEF Quotable, Kept
<1>4. ASSUME NEW p \in PaperIds, p # upload.paper, texts[p] # Nowhere
      PROVE  AllPages(Of(tx.passages, p), texts[p])
  <2>1. texts[p] = pages[p]
    BY <1>1, <1>3, <1>4
  <2>2. Of(tx.passages, p) = Of(db.passages, p)
    BY <1>2, <1>4 DEF Quotable, Untouched
  <2> QED
    BY <1>4, <2>1, <2>2 DEF Quotable, Kept
<1>5. ASSUME upload.paper \in PaperIds, upload.pages # Nowhere
      PROVE  AllPages(Of(tx.passages, upload.paper), upload.pages)
  <2>1. AllPages(Range(upload.passages), upload.pages)
    BY <1>2, <1>5 DEF Quotable, Cut
  <2>2. Of(tx.passages, upload.paper) = NewPassages
    <3>1. Written(tx, 7)
      BY <1>2 DEF Store, Transaction, Ready
    <3> QED
      BY <3>1 DEF Written
  <2>3. Among(Range(upload.passages), NewPassages)
    <3> SUFFICES ASSUME NEW x \in Range(upload.passages)
                 PROVE  \E y \in NewPassages : y.id = x.id /\ y.text = x.text
      BY DEF Among
    <3>1. PICK i \in DOMAIN upload.passages : x = upload.passages[i]
      BY DEF Range
    <3>2. PICK y : y = [paper |-> upload.paper, id |-> x.id, text |-> x.text]
      OBVIOUS
    <3>3. y \in NewPassages
      BY <3>1, <3>2 DEF NewPassages
    <3> QED
      BY <3>2, <3>3
  <2>4. \A n \in DOMAIN upload.pages :
           UpTo(NewPassages, n, upload.pages[n], Len(upload.pages[n]))
    BY <2>1, <2>3, ShownMore DEF AllPages
  <2> QED
    BY <2>1, <2>2, <2>4 DEF AllPages
<1>6. upload.paper \in PaperIds => texts[upload.paper] = upload.pages
  BY <1>1, <1>3
<1>7. Kept(tx, texts)
  BY <1>3, <1>4, <1>5, <1>6 DEF Kept
<1> QED
  BY <1>1, <1>7

(* There is nothing to be cited at first.                                    *)
LEMMA QuotableInit == Init => Quotable
  BY DEF Init, NoUpload, Quotable, Cut, Kept, Untouched

(* And no step loses anything that could be.                                 *)
LEMMA QuotableNext ==
  Store /\ Settled /\ Windows(upload) /\ Quotable /\ [Next]_vars => Quotable'
<1> SUFFICES ASSUME Store, Settled, Windows(upload), Quotable, [Next]_vars
             PROVE  Quotable'
  OBVIOUS
<1>0. /\ UNCHANGED instance
      /\ Cut(upload) /\ Kept(db, pages) /\ Untouched
      /\ Fields(upload, NoUpload) /\ IsList(upload.passages) /\ Uploads
  BY DEF Next, vars, AddPaper, ImportPdf, Uploading, SkipPage, Window, Embed, Execute,
         Rollback, Commit, Restart, SearchLexical, SearchVector, Save, Called, Verify,
         CreateCandidate, Quotable, Store, Uploads
<1>1. ASSUME Cut(upload') PROVE Cut(upload)'
  <2>1. PICK u : u = upload'
    OBVIOUS
  <2>2. Cut(u)'
    BY <1>0, <1>1, <2>1, SameStretches
  <2> QED
    BY <2>1, <2>2
<1>2. ASSUME NEW d, NEW texts, Kept(d, texts), db' = d, pages' = texts
      PROVE  Kept(db, pages)'
  <2>1. \A p \in PaperIds : texts[p] # Nowhere => AllPages(Of(d.passages, p), texts[p])'
    BY <1>0, <1>2, SameStretches DEF Kept
  <2>2. Kept(d, texts)'
    BY <1>2, <2>1 DEF Kept
  <2> QED
    BY <1>2, <2>2
<1>3. ASSUME UNCHANGED <<db, pages>>, Cut(upload'), upload'.pc # "add"
      PROVE  Quotable'
  BY <1>0, <1>1, <1>2, <1>3 DEF Quotable, Untouched
<1>4. ASSUME UNCHANGED <<db, tx, upload, pages>> PROVE Quotable'
  BY <1>0, <1>1, <1>2, <1>4 DEF Quotable, Untouched, Of
<1>5. ASSUME UNCHANGED <<db, pages>>, upload' = NoUpload PROVE Quotable'
  <2>1. Cut(upload') /\ upload'.pc # "add"
    BY <1>5 DEF Cut, NoUpload
  <2> QED
    BY <1>3, <1>5, <2>1
<1>6. CASE AddPaper
  <2>1. PICK paper \in Settings.papers :
          upload' = [NoUpload EXCEPT !.pc = "embed", !.paper = paper.id,
                                     !.title = paper.title, !.passages = paper.passages]
    BY <1>6 DEF AddPaper
  <2>2. PICK u : u = upload'
    OBVIOUS
  <2>3. u.pc = "embed" /\ u.pages = Nowhere
    BY <2>1, <2>2 DEF NoUpload
  <2>4. Cut(u)
    BY <2>3 DEF Cut
  <2> QED
    BY <1>3, <1>6, <2>2, <2>3, <2>4 DEF AddPaper, Uploading
<1>7. CASE ImportPdf
  <2>1. PICK pdf \in Pdfs[instance.name] :
          upload' = [NoUpload EXCEPT !.pc = "chunk", !.paper = pdf.id, !.title = pdf.title,
                                     !.pages = pdf.pages, !.page = 1]
    BY <1>7 DEF ImportPdf
  <2>2. PICK u : u = upload'
    OBVIOUS
  <2>3. u.pc = "chunk" /\ u.pages = pdf.pages /\ u.page = 1 /\ u.start = 0
    BY <2>1, <2>2 DEF NoUpload
  <2>4. /\ IsList(pdf.pages) /\ pdf.pages # <<>>
        /\ \A n \in DOMAIN pdf.pages : IsText(pdf.pages[n])
    BY PapersAssumption DEF Settled
  <2>5. DOMAIN pdf.pages \subseteq Nat \ {0} /\ 1 \in DOMAIN pdf.pages
    <3>1. pdf.pages \in Seq(Range(pdf.pages))
      BY <2>4 DEF IsList
    <3> QED
      BY <2>4, <3>1
  <2>6. UpTo(Range(u.passages), 1, pdf.pages[1], 0)
    BY <2>4, <2>5, NoneBefore DEF IsText
  <2>7. \A n \in DOMAIN pdf.pages : ~(n < 1)
    BY <2>5
  <2>8. Cut(u)
    BY <2>3, <2>6, <2>7 DEF Cut
  <2> QED
    BY <1>3, <1>7, <2>2, <2>3, <2>8 DEF ImportPdf, Uploading
<1>8. CASE SkipPage
  <2>1. Cut(upload')
    BY <1>0, <1>8, SkipPageCut
  <2>2. upload'.pc # "add"
    BY <1>0, <1>8, NextPageFacts DEF SkipPage
  <2> QED
    BY <1>3, <1>8, <2>1, <2>2 DEF SkipPage
<1>9. CASE Window
  <2>1. Cut(upload')
    BY <1>0, <1>9, WindowCut
  <2>2. upload'.pc # "add"
    <3> DEFINE text == upload.pages[upload.page]
               end == WindowEnd(text, upload.start, Size)
               chunk == Strip(Slice(text, upload.start, end))
               id == <<upload.page, PassagesOfPage(upload.page) + 1>>
               next == NextStart(text, upload.start, end, Overlap)
               cut == [upload EXCEPT
                         !.windows = Append(@, [page |-> upload.page, start |-> upload.start,
                                                end |-> end]),
                         !.passages = IF chunk = <<>> THEN @
                                      ELSE Append(@, [id |-> id, text |-> chunk])]
    <3>1. /\ upload.pc = "chunk"
          /\ upload' = NextPage(cut) \/ upload' = [cut EXCEPT !.start = next]
      BY <1>9 DEF Window
    <3> HIDE DEF text, end, id, next, chunk
    <3>2. Fields(cut, NoUpload) /\ cut.pc = "chunk"
      BY <1>0, <3>1 DEF Fields, NoUpload
    <3> HIDE DEF cut
    <3>3. CASE upload' = [cut EXCEPT !.start = next]
      BY <3>2, <3>3 DEF Fields, NoUpload
    <3>4. CASE upload' = NextPage(cut)
      <4>1. CASE upload' = [cut EXCEPT !.page = @ + 1, !.start = 0]
        BY <3>2, <4>1 DEF Fields, NoUpload
      <4>2. CASE upload' = NoUpload
        BY <4>2 DEF NoUpload
      <4>3. CASE upload' = [cut EXCEPT !.pc = "embed"]
        BY <3>2, <4>3 DEF Fields, NoUpload
      <4> QED
        BY <3>4, <4>1, <4>2, <4>3 DEF NextPage
    <3> QED
      BY <3>1, <3>3, <3>4
  <2> QED
    BY <1>3, <1>9, <2>1, <2>2 DEF Window
<1>10. CASE Embed
  <2>1. CASE upload' = NoUpload
    BY <1>5, <1>10, <2>1 DEF Embed
  <2>2. CASE upload' = [upload EXCEPT !.pc = "add", !.statement = 1] /\ tx' = db
    <3>1. UNCHANGED <<db, pages>> /\ upload.pc = "embed"
      BY <1>10 DEF Embed
    <3>2. PICK u : u = upload'
      OBVIOUS
    <3>3. u.pc = "add" /\ u.pages = upload.pages /\ u.passages = upload.passages
      BY <1>0, <2>2, <3>2 DEF Fields, NoUpload
    <3>4. Cut(u)
      BY <1>0, <3>1, <3>3 DEF Cut
    <3>5. Untouched'
      BY <2>2, <3>1 DEF Untouched
    <3> QED
      BY <1>0, <1>1, <1>2, <3>1, <3>2, <3>4, <3>5 DEF Quotable
  <2> QED
    BY <1>10, <2>1, <2>2 DEF Embed
<1>11. CASE Execute
  <2>1. /\ upload.pc = "add" /\ upload.statement < Committing
        /\ tx' = Effect(Statements[upload.statement], tx)
        /\ upload' = [upload EXCEPT !.statement = @ + 1]
        /\ UNCHANGED <<db, pages>>
    BY <1>11 DEF Execute
  <2>2. PICK u : u = upload'
    OBVIOUS
  <2>3. /\ u.pc = "add" /\ u.pages = upload.pages /\ u.passages = upload.passages
        /\ u.paper = upload.paper
    BY <1>0, <2>1, <2>2 DEF Fields, NoUpload
  <2>4. Cut(u)
    BY <1>0, <2>1, <2>3 DEF Cut
  <2>5. upload.statement \in 1..6 /\ Fields(tx, NoTables)
    <3>1. Committing = 7
      BY DEF Committing, Statements
    <3> QED
      BY <2>1, <3>1 DEF Store, Transaction, Ready, Sane
  <2>6. ASSUME NEW p \in PaperIds \ {upload.paper}
        PROVE  Of(tx'.passages, p) = Of(db.passages, p)
    <3>1. Of(tx'.passages, p) = Of(tx.passages, p)
      BY <2>1, <2>5, EffectTouchesOne
    <3>2. Of(tx.passages, p) = Of(db.passages, p)
      BY <1>0, <2>1 DEF Untouched
    <3> QED
      BY <3>1, <3>2
  <2>7. Untouched'
    <3>1. \A S, p : Of(S, p)' = Of(S, p)
      BY DEF Of
    <3> QED
      BY <2>1, <2>2, <2>3, <2>6 DEF Untouched, Of
  <2> QED
    BY <1>0, <1>1, <1>2, <2>1, <2>2, <2>4, <2>7 DEF Quotable
<1>12. CASE Rollback \/ Restart
  BY <1>5, <1>12 DEF Rollback, Restart
<1>13. CASE Commit
  <2>1. /\ db' = tx /\ upload' = NoUpload
        /\ pages' = [pages EXCEPT ![upload.paper] = upload.pages]
    BY <1>13 DEF Commit
  <2>2. Kept(db, pages)'
    <3>1. PICK d, texts : d = tx /\ texts = [pages EXCEPT ![upload.paper] = upload.pages]
      OBVIOUS
    <3>2. Kept(d, texts)
      BY <1>13, <3>1, CommitKeeps
    <3> QED
      BY <1>2, <2>1, <3>1, <3>2
  <2>3. Cut(upload') /\ upload'.pc # "add"
    BY <2>1 DEF Cut, NoUpload
  <2> QED
    BY <1>1, <2>2, <2>3 DEF Quotable, Untouched
<1>14. ASSUME NEW mode, SearchLexical(mode) PROVE Quotable'
  BY <1>4, <1>14 DEF SearchLexical, Called
<1>15. ASSUME NEW own, SearchVector(own) PROVE Quotable'
  BY <1>4, <1>15 DEF SearchVector
<1>16. ASSUME NEW evidence, Save(evidence) PROVE Quotable'
  BY <1>4, <1>16 DEF Save, Called
<1>17. CASE Verify \/ CreateCandidate \/ UNCHANGED vars
  BY <1>4, <1>17 DEF Verify, CreateCandidate, vars
<1> QED
  BY <1>6, <1>7, <1>8, <1>9, <1>10, <1>11, <1>12, <1>13, <1>14, <1>15, <1>16,
     <1>17 DEF Next

(* Wherever a page was cut, a stretch no longer than the overlap allows is   *)
(* whole in a stored passage of that page, and save_memory finds it there.   *)
THEOREM QuotesCanBeFound == Spec => []QuotesSurvive
<1>1. Spec => [](Store /\ Settled /\ Windows(upload) /\ Quotable)
  BY StoreHolds, WindowsInit, WindowsStep, QuotableInit, QuotableNext, PTL DEF Spec
<1>2. Store /\ Settled /\ Windows(upload) /\ Quotable => QuotesSurvive
  BY KeptSurvives DEF Quotable
<1> QED
  BY <1>1, <1>2, PTL
=============================================================================
