------------------------------ MODULE MCPapers ------------------------------
(* Two instances of the library.  "texts": one PDF of one page, every text a *)
(* page of 1 to MaxText characters can have, with a letter of its own for    *)
(* every character that is not a mark, and every overlap of a size.          *)
(* "library": two uploads of a few papers, one tool call, a restart.         *)
EXTENDS Papers, TLC

CONSTANT MaxText  \* bound: length of a page's text

Letters == <<"a", "b", "c", "d", "e", "f", "g", "h", "i", "j">>
Ink == {"x", "."}

(* What normalize_text returns, with "x" for a letter.                       *)
Normal(shape) ==
  /\ shape[1] \in Ink /\ shape[Len(shape)] \in Ink
  /\ \A i \in 2..(Len(shape) - 1) :
       /\ shape[i] = " " => {shape[i - 1], shape[i + 1]} \subseteq Ink
       /\ shape[i] = "\n" =>
            \/ (shape[i - 1] \in Ink /\ shape[i + 1] = "\n")
            \/ (shape[i - 1] = "\n" /\ shape[i + 1] \in Ink)

Text(shape) == [i \in DOMAIN shape |-> IF shape[i] = "x" THEN Letters[i] ELSE shape[i]]
Texts ==
  UNION {{Text(shape) : shape \in {s \in [1..n -> Ink \cup Blank] : Normal(s)}} :
           n \in 1..MaxText}

MCPaperIds == {1, 2}

Passage(n, text) == [id |-> <<1, n>>, text |-> text]

Paper(id, title, passages) == [id |-> id, title |-> title, passages |-> passages]
Pdf(id, title, texts) == [id |-> id, title |-> title, pages |-> texts]
Cited(n, quote) == [paper |-> 1, id |-> <<1, n>>, quote |-> quote]

MCPdfs == [name \in {"texts", "library"} |->
  CASE name = "texts" -> {Pdf(1, "t1", <<text>>) : text \in Texts}
    [] name = "library" -> { Pdf(1, "t2", <<<<>>, <<"a", "b">>, <<>>>>),
                             Pdf(2, "t2", <<<<"a">>>>), Pdf(1, "t2", <<<<>>>>) }]

MCInstances ==
  [texts |->
     [papers |-> {}, evidence |-> {}, providers |-> {"p1"},
      chunking |-> [size : {5}, overlap : 0..4],
      uploads |-> 1, calls |-> 0, restarts |-> 0],
   library |->
     [papers |-> { Paper(1, "t1", <<>>),
                   Paper(1, "t1", <<Passage(1, <<"b">>), Passage(2, <<"a">>)>>),
                   Paper(1, "t2", <<Passage(1, <<"a">>), Passage(2, <<"b">>)>>),
                   Paper(1, "t1", <<Passage(1, <<"a">>), Passage(1, <<"b">>)>>),
                   Paper(2, "t1", <<Passage(1, <<"a">>)>>) },
      evidence |-> { <<Cited(1, <<"b">>)>>, <<Cited(1, <<"a">>), Cited(2, <<"a">>)>> },
      providers |-> {"p1", "p2"}, chunking |-> {[size |-> 5, overlap |-> 2]},
      uploads |-> 2, calls |-> 1, restarts |-> 1]]
=============================================================================
