----------------------------- MODULE PdfChunks -----------------------------
(*****************************************************************************)
(* How PdfIngestor (papers/pdf.py) cuts the text of a page into overlapping  *)
(* windows.  The operators say what one pass of chunk_text's loop computes;  *)
(* Papers runs the loop.                                                     *)
(*                                                                           *)
(* A text is a sequence of characters as normalize_text leaves them: no      *)
(* blank at either end, single spaces, and line breaks only in the pairs     *)
(* that part two paragraphs.  Offsets count from 0, as in the code.  "." and *)
(* a space stand for every marker of the end of a sentence.                  *)
(*****************************************************************************)
EXTENDS Integers, Sequences, FiniteSets, FiniteSetsExt, SequencesExt

Space == " "
Blank == {Space, "\n"}
Markers == << <<"\n", "\n">>, <<".", Space>>, <<"\n">> >>

IsList(list) == list \in Seq(Range(list))

(* What the offsets need of what normalize_text returns.                     *)
IsText(text) ==
  IsList(text) /\ (text # <<>> => {text[1], text[Len(text)]} \cap Blank = {})

(* text[start:end] *)
Slice(text, start, end) == SubSeq(text, start + 1, end)

(* strip *)
Strip(text) ==
  LET ink == {i \in DOMAIN text : text[i] \notin Blank}
  IN IF ink = {} THEN <<>> ELSE SubSeq(text, Min(ink), Max(ink))

(* Where a marker stands wholly between two offsets.                         *)
Found(marker, text, from, to) ==
  {i \in from..(to - Len(marker)) : Slice(text, i, i + Len(marker)) = marker}

(* _find_boundary: after the last paragraph break in the final two fifths of *)
(* the window, else after the last sentence, else where the window is full.  *)

\* fault: the break is looked for in the whole text read so far
FindBoundaryAnywhere(text, start, hardEnd) ==
  LET found == {m \in DOMAIN Markers : Found(Markers[m], text, 0, hardEnd) # {}}
      best == Markers[Min(found)]
  IN IF hardEnd >= Len(text) THEN Len(text)
     ELSE IF found = {} THEN hardEnd
     ELSE Max(Found(best, text, 0, hardEnd)) + Len(best)

FindBoundary(text, start, hardEnd) ==
  LET minimum == start + (3 * (hardEnd - start)) \div 5
      found == {m \in DOMAIN Markers : Found(Markers[m], text, minimum, hardEnd) # {}}
      best == Markers[Min(found)]
  IN IF hardEnd >= Len(text) THEN Len(text)
     ELSE IF found = {} THEN hardEnd
     ELSE Max(Found(best, text, minimum, hardEnd)) + Len(best)

(* _skip_whitespace *)
SkipBlank(text, start) ==
  Min({i \in start..Len(text) : i = Len(text) \/ text[i + 1] \notin Blank})

(* One window; a text that fits is one window by itself.                     *)
WindowEnd(text, start, size) ==
  FindBoundary(text, start, Min({start + size, Len(text)}))

\* faults: the next window starts in the middle of the last; after its end
NextStartHalf(text, start, end, overlap) == SkipBlank(text, Max({end - overlap, start}))
NextStartAfter(text, start, end, overlap) == SkipBlank(text, end)

NextStart(text, start, end, overlap) ==
  SkipBlank(text, Max({end - overlap, start + 1}))

(* A quote occurs in a text, both with their runs of blanks made one space.  *)
Flat(text) ==
  FoldLeft(LAMBDA flat, c :
             IF c \notin Blank THEN Append(flat, c)
             ELSE IF flat # <<>> /\ Last(flat) = Space THEN flat ELSE Append(flat, Space),
           <<>>, text)

Occurs(quote, text) ==
  LET q == Flat(quote)
      t == Flat(text)
  IN \E i \in 0..(Len(t) - Len(q)) : Slice(t, i, i + Len(q)) = q
=============================================================================
