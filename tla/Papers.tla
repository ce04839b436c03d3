------------------------------- MODULE Papers -------------------------------
(*****************************************************************************)
(* The paper library: PDF import (papers/pdf.py), SQLitePaperRepository      *)
(* (papers/repository.py), and the agent's search_papers and save_memory     *)
(* (papers/tools.py, memory/tools.py).                                       *)
(*                                                                           *)
(* Two processes share the database file: the API, whose upload handlers run *)
(* one at a time to their end, and `scholar-harness chat`, which calls the   *)
(* tools.  A connection sees what others have committed and its own          *)
(* transaction (WAL); a transaction is taken statement by statement, so that *)
(* the other process reads, and either may die, between any two.             *)
(*                                                                           *)
(* A vector is told apart by the provider that made it and the title and     *)
(* text it was made from.  What FTS5 and the cosine find is any ranking of   *)
(* any of the rows.                                                          *)
(*****************************************************************************)
EXTENDS PdfChunks

CONSTANTS
  PaperIds,   \* ids of papers, numbers: the order of a tie
  Nowhere,    \* no paper, no title, no pages
  Limit,      \* limit of a search
  Instances,  \* from a name to what an instance of the model enumerates
  Pdfs        \* and to the PDFs of it, each with the texts of its pages

(* An instance: the papers that are uploaded, each with its passages; the    *)
(* evidence the agent gives; the embedding providers (a release may come     *)
(* with another); the chunk sizes; and, as bounds, how many uploads, tool    *)
(* calls and deaths of the API.  A PDF without pages is refused as one       *)
(* without text is.                                                          *)
ASSUME PapersAssumption ==
  /\ PaperIds \subseteq Nat /\ Nowhere \notin PaperIds
  /\ Limit \in Nat \ {0} /\ DOMAIN Pdfs = DOMAIN Instances
  /\ \A name \in DOMAIN Instances :
       /\ \A c \in Instances[name].chunking :
            c.size \in Nat \ {0} /\ c.overlap \in 0..(c.size - 1)
       /\ \A paper \in Instances[name].papers :
            paper.id \in PaperIds /\ IsList(paper.passages)
       /\ \A evidence \in Instances[name].evidence : IsList(evidence)
       /\ \A pdf \in Pdfs[name] :
            /\ pdf.id \in PaperIds /\ IsList(pdf.pages) /\ pdf.pages # <<>>
            /\ \A n \in DOMAIN pdf.pages : IsText(pdf.pages[n])

VARIABLES
  instance,  \* the name of the instance, and its chunk_size and chunk_overlap
  provider,  \* of the API's repository
  db,        \* the tables, as committed
  tx,        \* the tables, as the upload's transaction sees them
  upload,    \* the upload in progress
  call,      \* the tool call in progress
  pages,     \* history: the pages of the PDF a stored paper was made from
  used       \* bounds: uploads, calls and restarts so far

vars == <<instance, provider, db, tx, upload, call, pages, used>>

Settings == Instances[instance.name]
Size == instance.size
Overlap == instance.overlap

Statements == <<"insert_paper", "delete_passages", "delete_fts", "insert_passages",
                "insert_fts", "insert_embeddings">>
Committing == Len(Statements) + 1

NoUpload == [pc |-> "idle", paper |-> Nowhere, title |-> Nowhere, pages |-> Nowhere,
             passages |-> <<>>, page |-> 0, start |-> 0, windows |-> <<>>,
             statement |-> 0]
NoCall == [pc |-> "idle", lexical |-> <<>>, hits |-> <<>>, evidence |-> <<>>,
           verified |-> 0, seen |-> {}]

(* A row of the full-text index has a rowid, and no other key.               *)
NoTables == [papers |-> [p \in {} |-> Nowhere], passages |-> {},
             fts |-> [rowid \in {} |-> Nowhere], embeddings |-> {}]

(* A passage with its paper, as every read of the library returns it.        *)
RowOf(paper, title, passage) ==
  [paper |-> paper, title |-> title, id |-> passage.id, text |-> passage.text]
Rows(tables) ==
  {RowOf(p.paper, tables.papers[p.paper], p) :
     p \in {q \in tables.passages : q.paper \in DOMAIN tables.papers}}

Ids(passages) == {passages[i].id : i \in DOMAIN passages}

Init ==
  /\ instance \in UNION {{[name |-> name, size |-> c.size, overlap |-> c.overlap] :
                            c \in Instances[name].chunking} : name \in DOMAIN Instances}
  /\ provider \in Settings.providers
  /\ db = NoTables /\ tx = NoTables
  /\ upload = NoUpload /\ call = NoCall
  /\ pages = [p \in PaperIds |-> Nowhere]
  /\ used = [uploads |-> 0, calls |-> 0, restarts |-> 0]

-----------------------------------------------------------------------------
(* add_paper: the passages come with the request, under any ids.             *)
Uploading ==
  /\ upload.pc = "idle"
  /\ used.uploads < Settings.uploads
  /\ used' = [used EXCEPT !.uploads = @ + 1]
  /\ UNCHANGED <<instance, provider, db, tx, call, pages>>

AddPaper ==
  /\ Uploading
  /\ \E paper \in Settings.papers :
       upload' = [NoUpload EXCEPT !.pc = "embed", !.paper = paper.id,
                                  !.title = paper.title, !.passages = paper.passages]

(* import_pdf: ingest takes the pages in turn, and the windows of a page.    *)
ImportPdf ==
  /\ Uploading
  /\ \E pdf \in Pdfs[instance.name] :
       upload' = [NoUpload EXCEPT !.pc = "chunk", !.paper = pdf.id, !.title = pdf.title,
                                  !.pages = pdf.pages, !.page = 1]

(* A page with no text is skipped, a PDF with none is refused.               *)
NextPage(u) ==
  IF u.page < Len(u.pages) THEN [u EXCEPT !.page = @ + 1, !.start = 0]
  ELSE IF u.passages = <<>> THEN NoUpload
  ELSE [u EXCEPT !.pc = "embed"]

SkipPage ==
  /\ upload.pc = "chunk"
  /\ upload.pages[upload.page] = <<>>
  /\ upload' = NextPage(upload)
  /\ UNCHANGED <<instance, provider, db, tx, call, pages, used>>

(* One pass of chunk_text's loop: the window, its chunk under the id of its  *)
(* page and place, and where the next window starts, if there is more.       *)
PassagesOfPage(n) == Cardinality({i \in DOMAIN upload.passages :
                                    upload.passages[i].id[1] = n})

Window ==
  LET text == upload.pages[upload.page]
      end == WindowEnd(text, upload.start, Size)
      chunk == Strip(Slice(text, upload.start, end))
      id == <<upload.page, PassagesOfPage(upload.page) + 1>>
      next == NextStart(text, upload.start, end, Overlap)
      cut == [upload EXCEPT
                !.windows = Append(@, [page |-> upload.page, start |-> upload.start,
                                       end |-> end]),
                !.passages = IF chunk = <<>> THEN @
                             ELSE Append(@, [id |-> id, text |-> chunk])]
  IN /\ upload.pc = "chunk"
     /\ text # <<>>
     /\ upload' = IF end >= Len(text) \/ next >= Len(text) THEN NextPage(cut)
                  ELSE [cut EXCEPT !.start = next]
     /\ UNCHANGED <<instance, provider, db, tx, call, pages, used>>

-----------------------------------------------------------------------------
(* add: first the vectors, which may be refused with nothing written...      *)
Embed ==
  /\ upload.pc = "embed"
  /\ \/ /\ upload' = [upload EXCEPT !.pc = "add", !.statement = 1]
        /\ tx' = db
     \/ /\ upload' = NoUpload
        /\ UNCHANGED tx
  /\ UNCHANGED <<instance, provider, db, call, pages, used>>

(* ... then one transaction of six statements on the tables.                 *)
InsertPaper(tables) ==
  [tables EXCEPT !.papers = [p \in DOMAIN @ \cup {upload.paper} |->
                               IF p = upload.paper THEN upload.title ELSE @[p]]]

(* Deleting a passage deletes its vectors, whoever made them: ON DELETE      *)
(* CASCADE, and every connection turns foreign keys on.                      *)

\* fault: foreign keys are off
DeletePassagesOnly(tables) ==
  [tables EXCEPT !.passages = {p \in @ : p.paper # upload.paper}]

DeletePassages(tables) ==
  [tables EXCEPT !.passages = {p \in @ : p.paper # upload.paper},
                 !.embeddings = {e \in @ : e.paper # upload.paper}]

DeleteFts(tables) ==
  [tables EXCEPT !.fts = RestrictValues(@, LAMBDA row : row.paper # upload.paper)]

NewPassages == {[paper |-> upload.paper, id |-> upload.passages[i].id,
                 text |-> upload.passages[i].text] : i \in DOMAIN upload.passages}

InsertPassages(tables) == [tables EXCEPT !.passages = @ \cup NewPassages]

InsertFts(tables) ==
  LET last == Max(DOMAIN tables.fts \cup {0})
  IN [tables EXCEPT !.fts =
        [rowid \in DOMAIN @ \cup (last + 1)..(last + Len(upload.passages)) |->
           IF rowid <= last THEN @[rowid]
           ELSE RowOf(upload.paper, upload.title, upload.passages[rowid - last])]]

InsertEmbeddings(tables) ==
  [tables EXCEPT !.embeddings = @ \cup
     {[paper |-> p.paper, id |-> p.id, provider |-> provider, title |-> upload.title,
       text |-> p.text] : p \in NewPassages}]

Effect(statement, tables) ==
  CASE statement = "insert_paper" -> InsertPaper(tables)
    [] statement = "delete_passages" -> DeletePassages(tables)
    [] statement = "delete_fts" -> DeleteFts(tables)
    [] statement = "insert_passages" -> InsertPassages(tables)
    [] statement = "insert_fts" -> InsertFts(tables)
    [] statement = "insert_embeddings" -> InsertEmbeddings(tables)

(* Two passages of a request may have one id: the table refuses the second.  *)
Refused(statement) ==
  /\ statement = "insert_passages"
  /\ Cardinality(Ids(upload.passages)) < Len(upload.passages)

\* fault: the connection commits each statement
ExecuteAutocommit ==
  /\ upload.pc = "add" /\ upload.statement < Committing
  /\ ~Refused(Statements[upload.statement])
  /\ tx' = Effect(Statements[upload.statement], tx)
  /\ db' = tx'
  /\ upload' = [upload EXCEPT !.statement = @ + 1]
  /\ UNCHANGED <<instance, provider, call, pages, used>>

Execute ==
  /\ upload.pc = "add" /\ upload.statement < Committing
  /\ ~Refused(Statements[upload.statement])
  /\ tx' = Effect(Statements[upload.statement], tx)
  /\ upload' = [upload EXCEPT !.statement = @ + 1]
  /\ UNCHANGED <<instance, provider, db, call, pages, used>>

(* Any statement may raise, the commit too; the tables are as before.        *)
Rollback ==
  /\ upload.pc = "add"
  /\ upload' = NoUpload /\ tx' = NoTables
  /\ UNCHANGED <<instance, provider, db, call, pages, used>>

Calling == call.pc \in {"vector", "verify"}

Commit ==
  /\ upload.pc = "add" /\ upload.statement = Committing
  /\ db' = tx
  /\ pages' = [pages EXCEPT ![upload.paper] = upload.pages]
  /\ upload' = NoUpload /\ tx' = NoTables
  /\ call' = IF Calling THEN [call EXCEPT !.seen = @ \cup Rows(db')] ELSE call
  /\ UNCHANGED <<instance, provider, used>>

(* The API process dies; the one that follows may have another provider.     *)
Restart ==
  /\ used.restarts < Settings.restarts
  /\ used' = [used EXCEPT !.restarts = @ + 1]
  /\ provider' \in Settings.providers
  /\ upload' = NoUpload /\ tx' = NoTables
  /\ UNCHANGED <<instance, db, call, pages>>

-----------------------------------------------------------------------------
(* The tools, in the other process.  What the call has found, or saved, is   *)
(* looked at until the next call.                                            *)
Called(c) ==
  /\ call.pc \in {"idle", "answered", "saved"}
  /\ used.calls < Settings.calls
  /\ used' = [used EXCEPT !.calls = @ + 1]
  /\ call' = [c EXCEPT !.seen = Rows(db)]
  /\ UNCHANGED <<instance, provider, db, tx, upload, pages>>

Rankings(S) == UNION {SetToSeqs(T) : T \in SUBSET S}
Top(hits) == SubSeq(hits, 1, Min({Limit, Len(hits)}))
Hit(row, lexical, vector) == [row |-> row, lexical |-> lexical, vector |-> vector]

(* _lexical_search: rows of the full-text index that match, best first.      *)
SearchLexical(mode) ==
  \E ranking \in Rankings(DOMAIN db.fts) :
    LET found == [i \in DOMAIN ranking |-> db.fts[ranking[i]]]
    IN Called(IF mode = "hybrid"
              THEN [NoCall EXCEPT !.pc = "vector", !.lexical = found]
              ELSE [NoCall EXCEPT !.pc = "answered",
                      !.hits = Top([i \in DOMAIN found |-> Hit(found[i], i, 0)])])

(* _vector_search, on another connection: the passages that have a vector of *)
(* this process's provider, with the text and the title they now have.       *)
VectorRows(own) ==
  {row \in Rows(db) : \E e \in db.embeddings :
     e.paper = row.paper /\ e.id = row.id /\ e.provider = own}

(* The fusion of two rankings: of each passage the row of the first ranking  *)
(* that has it, its last place in each, and 1 / (60 + place) for each of     *)
(* them.  Scores are fractions, compared crosswise.                          *)

\* fault: hits are told apart by their text as well
KeyWithText(row) == <<row.paper, row.id, row.text>>

Key(row) == <<row.paper, row.id>>

Places(ranking, key) == {i \in DOMAIN ranking : Key(ranking[i]) = key}
Place(ranking, key) == Max(Places(ranking, key) \cup {0})
Reciprocal(place) == IF place = 0 THEN <<0, 1>> ELSE <<1, 60 + place>>
Plus(a, b) == <<a[1] * b[2] + b[1] * a[2], a[2] * b[2]>>
Higher(a, b) == a[1] * b[2] > b[1] * a[2]

Score(hit) == Plus(Reciprocal(hit.lexical), Reciprocal(hit.vector))

Precedes(key1, key2) ==
  \/ key1[1] < key2[1]
  \/ key1[1] = key2[1] /\ key1[2] < key2[2]

Before(h, g) ==
  \/ Higher(Score(h), Score(g))
  \/ /\ ~Higher(Score(g), Score(h))
     /\ \/ h.row.paper < g.row.paper
        \/ h.row.paper = g.row.paper /\ Precedes(h.row.id, g.row.id)

Fused(lexical, vector) ==
  LET both == lexical \o vector
      keys == {Key(both[i]) : i \in DOMAIN both}
  IN {Hit(both[Min(Places(both, key))], Place(lexical, key), Place(vector, key)) :
        key \in keys}

Sorted(hits) ==
  {ranking \in SetToSeqs(hits) :
     \A i, j \in DOMAIN ranking : i < j => ~Before(ranking[j], ranking[i])}

SearchVector(own) ==
  /\ call.pc = "vector"
  /\ \E vector \in Rankings(VectorRows(own)) :
       \E ranking \in Sorted(Fused(call.lexical, vector)) :
         call' = [call EXCEPT !.pc = "answered", !.lexical = <<>>, !.hits = Top(ranking)]
  /\ UNCHANGED <<instance, provider, db, tx, upload, pages, used>>

(* save_memory: read the passage of each piece of evidence, look for the     *)
(* quote in it, and when all are found create the candidate.                 *)
Cites(row, cited) ==
  row.paper = cited.paper /\ row.id = cited.id /\ Occurs(cited.quote, row.text)

Save(evidence) ==
  /\ Called([NoCall EXCEPT !.pc = "verify", !.evidence = evidence])

\* fault: a quote may be of any passage of the paper
VerifyPaperOnly ==
  LET cited == call.evidence[call.verified + 1]
  IN /\ call.pc = "verify" /\ call.verified < Len(call.evidence)
     /\ call' = IF \E row \in Rows(db) : /\ row.paper = cited.paper
                                        /\ Occurs(cited.quote, row.text)
                THEN [call EXCEPT !.verified = @ + 1] ELSE NoCall
     /\ UNCHANGED <<instance, provider, db, tx, upload, pages, used>>

Verify ==
  LET cited == call.evidence[call.verified + 1]
  IN /\ call.pc = "verify" /\ call.verified < Len(call.evidence)
     /\ call' = IF \E row \in Rows(db) : Cites(row, cited)
                THEN [call EXCEPT !.verified = @ + 1] ELSE NoCall
     /\ UNCHANGED <<instance, provider, db, tx, upload, pages, used>>

CreateCandidate ==
  /\ call.pc = "verify" /\ call.verified = Len(call.evidence)
  /\ call' = [call EXCEPT !.pc = "saved"]
  /\ UNCHANGED <<instance, provider, db, tx, upload, pages, used>>

Next ==
  \/ AddPaper \/ ImportPdf \/ SkipPage \/ Window
  \/ Embed \/ Execute \/ Rollback \/ Commit \/ Restart
  \/ \E mode \in {"lexical", "hybrid"} : SearchLexical(mode)
  \/ \E own \in Settings.providers : SearchVector(own)
  \/ \E evidence \in Settings.evidence : Save(evidence)
  \/ Verify \/ CreateCandidate

Spec == Init /\ [][Next]_vars

-----------------------------------------------------------------------------
(* RETRIEVAL-004, AC-RETRIEVAL-003 and 0003 design, "cannot leave partially  *)
(* indexed paper state": what is committed is a set of whole papers.  No     *)
(* passage is without its paper, the full-text index holds each passage once *)
(* and nothing else, and so do the vectors, all of a paper's of the provider *)
(* that was in use when it was stored, over the title and text it now has.   *)
IndexMatchesPassages ==
  /\ \A p \in db.passages : p.paper \in DOMAIN db.papers
  /\ Range(db.fts) = Rows(db)
  /\ Cardinality(DOMAIN db.fts) = Cardinality(db.passages)
  /\ \A e, f \in db.embeddings : e.paper = f.paper => e.provider = f.provider
  /\ {[paper |-> e.paper, title |-> e.title, id |-> e.id, text |-> e.text] :
        e \in db.embeddings} = Rows(db)

(* FOUND-024 and FOUND-031: while papers are stored again under its hands, a *)
(* call shows, and saves as evidence, only passages that were stored, with   *)
(* that title and that text, at some moment since it began: never the text   *)
(* of one import with the title of another, and never half of an import.     *)
AnswersWereStored ==
  /\ \A i \in DOMAIN call.hits : call.hits[i].row \in call.seen
  /\ call.pc = "saved" => \A i \in DOMAIN call.evidence :
       \E row \in call.seen : Cites(row, call.evidence[i])

(* RETRIEVAL-002 and RETRIEVAL-005: a passage is shown once, also when it is *)
(* stored anew between the reading of the two indexes; and no passage is     *)
(* shown after one that is in no ranking better, and in one worse.           *)
NotWorse(place1, place2) == place1 > 0 /\ (place2 = 0 \/ place1 <= place2)
Dominates(h, g) ==
  /\ NotWorse(h.lexical, g.lexical) \/ h.lexical = g.lexical
  /\ NotWorse(h.vector, g.vector) \/ h.vector = g.vector
  /\ <<h.lexical, h.vector>> # <<g.lexical, g.vector>>

HitsAreRanked ==
  \A i, j \in DOMAIN call.hits :
    i < j => /\ <<call.hits[i].row.paper, call.hits[i].row.id>>
                   # <<call.hits[j].row.paper, call.hits[j].row.id>>
             /\ ~Dominates(call.hits[j], call.hits[i])

(* FOUND-021: the windows of a page advance from its first character to its  *)
(* last and leave out nothing but blanks; while the overlap is at most three *)
(* fifths of the size, each also ends further on than the one before.        *)
WindowsAdvance ==
  \A i \in DOMAIN upload.windows :
    LET w == upload.windows[i]
        text == upload.pages[w.page]
        last == i = Len(upload.windows) \/ upload.windows[i + 1].page # w.page
    IN /\ w.start < w.end /\ w.end - w.start <= Size
       /\ last => \/ w.end = Len(text)
                  \/ upload.pc = "chunk" /\ w.page = upload.page
       /\ ~last => LET v == upload.windows[i + 1]
                   IN /\ w.start < v.start
                      /\ Strip(Slice(text, w.end, v.start)) = <<>>
                      /\ Overlap <= (3 * Size) \div 5 => w.end < v.end

(* FOUND-021 and CITATION-001: any stretch of a page at most one character   *)
(* longer than the overlap can be cited, wherever the page was cut: it       *)
(* occurs whole in a stored passage of that page (or one longer than three   *)
(* fifths of the size, when the overlap is more than that).                  *)
Stretches(text) ==
  LET longest == Min({Overlap, (3 * Size) \div 5}) + 1
      ends == {i \in DOMAIN text : text[i] \notin Blank}
  IN {SubSeq(text, e[1], e[2]) : e \in
        {f \in ends \X ends : f[1] <= f[2] /\ f[2] - f[1] < longest}}

QuotesSurvive ==
  \A p \in PaperIds : pages[p] # Nowhere =>
    \A n \in DOMAIN pages[p] : \A quote \in Stretches(pages[p][n]) :
      \E row \in Rows(db) : /\ row.paper = p /\ row.id[1] = n
                            /\ Occurs(quote, row.text)
=============================================================================
