-------------------------- MODULE EvaluationsProofs --------------------------
(*****************************************************************************)
(* The tables of the evaluations and the requests that execute cases and     *)
(* suites, proved for any number of cases, suites, requests, sessions and    *)
(* runs, and for any traces.                                                 *)
(*****************************************************************************)
EXTENDS Evaluations, FiniteSetTheorems, WellFoundedInduction, TLAPS

-----------------------------------------------------------------------------
(* Sequences and sets of naturals.                                           *)

(* What Append adds, and what it leaves.                                     *)
LEMMA AppendFacts ==
  ASSUME NEW S, NEW s \in Seq(S), NEW x \in S
  PROVE  /\ Append(s, x) \in Seq(S) /\ Len(Append(s, x)) = Len(s) + 1
         /\ Len(s) \in Nat /\ DOMAIN s = 1..Len(s)
         /\ DOMAIN Append(s, x) = 1..(Len(s) + 1)
         /\ \A i \in 1..Len(s) : Append(s, x)[i] = s[i]
         /\ Append(s, x)[Len(s) + 1] = x
  OBVIOUS

(* A set of positions has a last one.                                        *)
LEMMA MaxExists ==
  ASSUME NEW n \in Nat, NEW S \in SUBSET (1..n), S # {}
  PROVE  Max(S) \in S
<1> DEFINE R == {ss \in Nat \X Nat : ss[1] < ss[2]}
           T == {n - i : i \in S}
<1>1. IsWellFoundedOn(R, Nat)
  BY NatLessThanWellFounded DEF OpToRel
<1>2. T \subseteq Nat /\ T # {}
  <2>1. \A i \in S : n - i \in Nat
    OBVIOUS
  <2>2. PICK i \in S : TRUE
    OBVIOUS
  <2>3. n - i \in T
    BY <2>2
  <2> QED
    BY <2>1, <2>3
<1>3. PICK x \in T : \A y \in T : <<y, x>> \notin R
  <2> HIDE DEF R, T
  <2> QED
    BY <1>1, <1>2, WFMin
<1>4. \A y \in T : ~(y < x)
  BY <1>2, <1>3
<1>5. PICK m \in S : x = n - m
  BY <1>3
<1>6. \A k \in S : m >= k
  <2> SUFFICES ASSUME NEW k \in S PROVE m >= k
    OBVIOUS
  <2>1. n - k \in T
    OBVIOUS
  <2>2. ~(n - k < n - m)
    BY <2>1, <1>4, <1>5
  <2>3. k \in Nat /\ m \in Nat
    OBVIOUS
  <2> HIDE DEF R, T
  <2> QED
    BY <2>2, <2>3
<1> QED
  BY <1>6 DEF Max

(* What RemoveAt leaves: everything else, in order.                          *)
LEMMA RemoveAtFacts ==
  ASSUME NEW S, NEW s \in Seq(S), NEW i \in DOMAIN s
  PROVE  /\ RemoveAt(s, i) \in Seq(S)
         /\ Len(RemoveAt(s, i)) = Len(s) - 1
         /\ \A j \in 1..(Len(s) - 1) :
              RemoveAt(s, i)[j] = IF j < i THEN s[j] ELSE s[j + 1]
<1> DEFINE a == SubSeq(s, 1, i - 1)
           b == SubSeq(s, i + 1, Len(s))
<1>1. i \in 1..Len(s) /\ Len(s) \in Nat
  OBVIOUS
<1>2. /\ a \in Seq(S) /\ Len(a) = i - 1
      /\ \A j \in 1..(i - 1) : a[j] = s[j]
  BY <1>1
<1>3. /\ b \in Seq(S) /\ Len(b) = Len(s) - i
      /\ \A j \in 1..(Len(s) - i) : b[j] = s[j + i]
  BY <1>1
<1>4. RemoveAt(s, i) = a \o b
  BY DEF RemoveAt
<1> HIDE DEF a, b
<1>5. a \o b \in Seq(S) /\ Len(a \o b) = Len(s) - 1
  BY <1>1, <1>2, <1>3
<1>6. ASSUME NEW j \in 1..(Len(s) - 1)
      PROVE  (a \o b)[j] = IF j < i THEN s[j] ELSE s[j + 1]
  <2> HIDE DEF a, b
  <2>0. i \in Int /\ j \in Int /\ Len(s) \in Int /\ j <= Len(s) - 1
    BY <1>1
  <2>1. CASE j < i
    <3>1. j \in 1..(i - 1)
      BY <2>1, <1>1
    <3> QED
      BY <3>1, <2>1, <1>1, <1>2, <1>3
  <2>2. CASE ~(j < i)
    <3>1. j - (i - 1) \in 1..(Len(s) - i) /\ j - (i - 1) + i = j + 1
      BY <2>0, <2>2
    <3>2. (a \o b)[j] = b[j - (i - 1)]
      BY <3>1, <2>2, <1>1, <1>2, <1>3, SMTT(30)
    <3> QED
      BY <3>1, <3>2, <2>2, <1>3
  <2> QED
    BY <2>1, <2>2
<1> QED
  BY <1>4, <1>5, <1>6

(* The sequences a suite may name hold cases that exist.                     *)
LEMMA CaseIdsFacts ==
  ASSUME NEW known \in SUBSET Cases, NEW case_ids \in CaseIds(known)
  PROVE  /\ case_ids \in Seq(known) /\ case_ids \in Seq(Cases)
         /\ \A i \in DOMAIN case_ids : case_ids[i] \in known
<1>1. PICK s \in SUBSET known : case_ids \in SetToSeqs(s)
  BY DEF CaseIds, SetToAllKPermutations
<1>2. IsFiniteSet(s)
  BY EvaluationsAssumption, FS_Subset
<1>3. Cardinality(s) \in Nat
  BY <1>2, FS_CardinalityType
<1>4. case_ids \in [1..Cardinality(s) -> s]
  BY <1>1 DEF SetToSeqs
<1>5. case_ids \in Seq(s)
  BY <1>3, <1>4
<1> QED
  BY <1>5, <1>4

-----------------------------------------------------------------------------
(* Scoring.                                                                  *)

(* The image of a finite set.                                                *)
LEMMA ImageIsFinite ==
  ASSUME NEW f, IsFiniteSet(DOMAIN f)
  PROVE  IsFiniteSet({f[x] : x \in DOMAIN f})
<1> DEFINE S == DOMAIN f
           T == {f[x] : x \in S}
           g == [x \in S |-> f[x]]
<1>1. g \in Surjection(S, T)
  BY DEF Surjection
<1> QED
  BY <1>1, FS_Surjection

(* One check for each subject of a finite set is finitely many.              *)
LEMMA EachIsFinite ==
  ASSUME NEW kind, NEW passed, IsFiniteSet(DOMAIN passed)
  PROVE  IsFiniteSet({[id |-> <<kind, s>>, passed |-> passed[s]] : s \in DOMAIN passed})
<1> DEFINE f == [s \in DOMAIN passed |-> [id |-> <<kind, s>>, passed |-> passed[s]]]
<1>1. IsFiniteSet({f[x] : x \in DOMAIN f})
  BY ImageIsFinite
<1>2. {f[x] : x \in DOMAIN f} =
        {[id |-> <<kind, s>>, passed |-> passed[s]] : s \in DOMAIN passed}
  OBVIOUS
<1> QED
  BY <1>1, <1>2

(* An expectation that is set or not gives one check or none.                *)
LEMMA OneIsFinite ==
  ASSUME NEW kind, NEW configured, NEW passed
  PROVE  IsFiniteSet(OneCheck(kind, configured, passed))
  BY FS_EmptySet, FS_Singleton DEF OneCheck

(* So a case has finitely many checks, and a score.                          *)
LEMMA ContextChecksFinite ==
  ASSUME NEW expected, IsExpectations(expected), NEW context
  PROVE  IsFiniteSet(ContextChecks(expected, context))
<1> DEFINE required == [m \in expected.required_memory_ids |->
                          context.valid /\ m \in context.selected_ids]
           forbidden == [m \in expected.forbidden_memory_ids |->
                           context.valid /\ m \notin context.selected_ids]
<1>1. /\ DOMAIN required = expected.required_memory_ids
      /\ \A m \in DOMAIN required :
           required[m] = (context.valid /\ m \in context.selected_ids)
      /\ DOMAIN forbidden = expected.forbidden_memory_ids
      /\ \A m \in DOMAIN forbidden :
           forbidden[m] = (context.valid /\ m \notin context.selected_ids)
  OBVIOUS
<1> HIDE DEF required, forbidden
<1>2. IsFiniteSet(DOMAIN required) /\ IsFiniteSet(DOMAIN forbidden)
  BY <1>1 DEF IsExpectations
<1>3. IsFiniteSet(CheckEach("required_memory", expected.required_memory_ids,
                            LAMBDA m : context.valid /\ m \in context.selected_ids))
  <2>1. IsFiniteSet({[id |-> <<"required_memory", s>>, passed |-> required[s]] :
                       s \in DOMAIN required})
    BY <1>2, EachIsFinite
  <2> QED
    BY <1>1, <2>1 DEF CheckEach
<1>4. IsFiniteSet(CheckEach("forbidden_memory", expected.forbidden_memory_ids,
                            LAMBDA m : context.valid /\ m \notin context.selected_ids))
  <2>1. IsFiniteSet({[id |-> <<"forbidden_memory", s>>, passed |-> forbidden[s]] :
                       s \in DOMAIN forbidden})
    BY <1>2, EachIsFinite
  <2> QED
    BY <1>1, <2>1 DEF CheckEach
<1> QED
  BY <1>3, <1>4, OneIsFinite, FS_Union DEF ContextChecks

(* What may be stored expects something.                                     *)
LEMMA SomethingExpected ==
  ASSUME NEW expected, IsExpectations(expected), ValidExpectations(expected)
  PROVE  \/ expected.required_tools # {} \/ expected.forbidden_tools # {}
         \/ expected.max_tool_calls # None \/ expected.max_duration_ms # None
         \/ expected.require_citation_validation
         \/ expected.answer_contains # {} \/ expected.terminal_status # None
         \/ expected.context_status # None \/ expected.required_memory_ids # {}
         \/ expected.forbidden_memory_ids # {} \/ expected.max_context_items # None
<1> DEFINE Fields == {"required_tools", "forbidden_tools", "max_tool_calls",
                      "max_duration_ms", "require_citation_validation",
                      "answer_contains", "terminal_status", "context_status",
                      "required_memory_ids", "forbidden_memory_ids",
                      "max_context_items"}
<1>1. DOMAIN NoExpectations = Fields
  BY DEF NoExpectations
<1>2. \E field \in Fields : expected[field] # NoExpectations[field]
  <2>1. expected # NoExpectations /\ expected = [field \in Fields |-> expected[field]]
    BY <1>1 DEF ValidExpectations, IsExpectations
  <2>2. NoExpectations = [field \in Fields |-> NoExpectations[field]]
    BY DEF NoExpectations
  <2> QED
    BY <2>1, <2>2
<1> QED
  BY <1>2 DEF NoExpectations, IsExpectations

(* A case that expects something of the context makes a check of it.         *)
LEMMA SomeContextCheck ==
  ASSUME NEW expected, NEW context,
         \/ expected.context_status # None \/ expected.required_memory_ids # {}
         \/ expected.forbidden_memory_ids # {} \/ expected.max_context_items # None
  PROVE  ContextChecks(expected, context) # {}
<1>1. CASE expected.context_status # None
  BY <1>1 DEF ContextChecks, OneCheck
<1>2. CASE expected.max_context_items # None
  BY <1>2 DEF ContextChecks, OneCheck
<1>3. CASE expected.required_memory_ids # {}
  <2>1. PICK m \in expected.required_memory_ids : TRUE
    BY <1>3
  <2>2. [id |-> <<"required_memory", m>>,
         passed |-> context.valid /\ m \in context.selected_ids]
          \in ContextChecks(expected, context)
    BY DEF ContextChecks, CheckEach
  <2> QED
    BY <2>2
<1>4. CASE expected.forbidden_memory_ids # {}
  <2>1. PICK m \in expected.forbidden_memory_ids : TRUE
    BY <1>4
  <2>2. [id |-> <<"forbidden_memory", m>>,
         passed |-> context.valid /\ m \notin context.selected_ids]
          \in ContextChecks(expected, context)
    BY DEF ContextChecks, CheckEach
  <2> QED
    BY <2>2
<1> QED
  BY <1>1, <1>2, <1>3, <1>4

(* A case has finitely many checks, and at least one if it may be stored.    *)
LEMMA CaseHasChecks ==
  ASSUME NEW expected, IsExpectations(expected), NEW trace
  PROVE  /\ IsFiniteSet(Checks(expected, trace))
         /\ ValidExpectations(expected) => Checks(expected, trace) # {}
<1> DEFINE Executed(name) == {i \in DOMAIN trace.tools : trace.tools[i].name = name}
           Succeeded(name) == {i \in Executed(name) : trace.tools[i].is_error = FALSE}
           required == [name \in expected.required_tools |-> Succeeded(name) # {}]
           forbidden == [name \in expected.forbidden_tools |-> Executed(name) = {}]
           answer == [text \in expected.answer_contains |-> text \in trace.answer]
<1>1. /\ DOMAIN required = expected.required_tools
      /\ \A s \in DOMAIN required : required[s] = (Succeeded(s) # {})
  OBVIOUS
<1>2. /\ DOMAIN forbidden = expected.forbidden_tools
      /\ \A s \in DOMAIN forbidden : forbidden[s] = (Executed(s) = {})
  OBVIOUS
<1>3. /\ DOMAIN answer = expected.answer_contains
      /\ \A s \in DOMAIN answer : answer[s] = (s \in trace.answer)
  OBVIOUS
<1> DEFINE a == CheckEach("required_tool", expected.required_tools,
                          LAMBDA name : Succeeded(name) # {})
           b == CheckEach("forbidden_tool", expected.forbidden_tools,
                          LAMBDA name : Executed(name) = {})
           c == CheckEach("answer_contains", expected.answer_contains,
                          LAMBDA text : text \in trace.answer)
           d == OneCheck("run_status", expected.terminal_status # None,
                         trace.status = expected.terminal_status)
           e == OneCheck("tool_call_limit", expected.max_tool_calls # None,
                         Len(trace.tools) <= expected.max_tool_calls)
           f == OneCheck("duration_limit", expected.max_duration_ms # None,
                         trace.duration_ms <= expected.max_duration_ms)
           g == OneCheck("citation_validation", expected.require_citation_validation,
                         \E i \in Succeeded("validate_citation") : trace.tools[i].valid)
           h == ContextChecks(expected, ContextObservation(trace))
<1>4. Checks(expected, trace) = d \cup a \cup b \cup e \cup f \cup g \cup h \cup c
  BY DEF Checks, AnswerChecks
<1> HIDE DEF required, forbidden, answer, Executed, Succeeded
<1>5. IsFiniteSet(a)
  <2>1. IsFiniteSet({[id |-> <<"required_tool", s>>, passed |-> required[s]] :
                       s \in DOMAIN required})
    <3>1. IsFiniteSet(DOMAIN required)
      BY <1>1 DEF IsExpectations
    <3> QED
      BY <3>1, EachIsFinite
  <2> QED
    BY <1>1, <2>1 DEF CheckEach
<1>6. IsFiniteSet(b)
  <2>1. IsFiniteSet({[id |-> <<"forbidden_tool", s>>, passed |-> forbidden[s]] :
                       s \in DOMAIN forbidden})
    <3>1. IsFiniteSet(DOMAIN forbidden)
      BY <1>2 DEF IsExpectations
    <3> QED
      BY <3>1, EachIsFinite
  <2> QED
    BY <1>2, <2>1 DEF CheckEach
<1>7. IsFiniteSet(c)
  <2>1. IsFiniteSet({[id |-> <<"answer_contains", s>>, passed |-> answer[s]] :
                       s \in DOMAIN answer})
    <3>1. IsFiniteSet(DOMAIN answer)
      BY <1>3 DEF IsExpectations
    <3> QED
      BY <3>1, EachIsFinite
  <2> QED
    BY <1>3, <2>1 DEF CheckEach
<1>8. IsFiniteSet(d) /\ IsFiniteSet(e) /\ IsFiniteSet(f) /\ IsFiniteSet(g)
  BY OneIsFinite
<1>9. IsFiniteSet(h)
  BY ContextChecksFinite
<1>10. /\ expected.required_tools # {} => a # {}
       /\ expected.forbidden_tools # {} => b # {}
       /\ expected.answer_contains # {} => c # {}
  <2>1. ASSUME NEW s \in expected.required_tools PROVE a # {}
    <3>1. [id |-> <<"required_tool", s>>, passed |-> Succeeded(s) # {}] \in a
      BY DEF CheckEach
    <3> QED
      BY <3>1
  <2>2. ASSUME NEW s \in expected.forbidden_tools PROVE b # {}
    <3>1. [id |-> <<"forbidden_tool", s>>, passed |-> Executed(s) = {}] \in b
      BY DEF CheckEach
    <3> QED
      BY <3>1
  <2>3. ASSUME NEW s \in expected.answer_contains PROVE c # {}
    <3>1. [id |-> <<"answer_contains", s>>, passed |-> s \in trace.answer] \in c
      BY DEF CheckEach
    <3> QED
      BY <3>1
  <2> HIDE DEF a, b, c
  <2> QED
    BY <2>1, <2>2, <2>3
<1>11. /\ expected.terminal_status # None => d # {}
       /\ expected.max_tool_calls # None => e # {}
       /\ expected.max_duration_ms # None => f # {}
       /\ expected.require_citation_validation => g # {}
  BY DEF OneCheck
<1>12. \/ expected.context_status # None \/ expected.required_memory_ids # {}
       \/ expected.forbidden_memory_ids # {} \/ expected.max_context_items # None
       => h # {}
  BY SomeContextCheck
<1> HIDE DEF a, b, c, d, e, f, g, h
<1>13. IsFiniteSet(Checks(expected, trace))
  BY <1>4, <1>5, <1>6, <1>7, <1>8, <1>9, FS_Union
<1>14. ASSUME ValidExpectations(expected) PROVE Checks(expected, trace) # {}
  BY <1>4, <1>10, <1>11, <1>12, <1>14, SomethingExpected
<1> QED
  BY <1>13, <1>14

(* The checks of a case on a trace are finitely many: its score is a number  *)
(* of passed checks over a number of checks.                                 *)
LEMMA ScoreTyped ==
  ASSUME NEW expected, IsExpectations(expected), NEW trace
  PROVE  Score(Checks(expected, trace)) \in Fraction
<1> DEFINE checks == Checks(expected, trace)
<1>1. IsFiniteSet(checks)
  BY CaseHasChecks
<1> HIDE DEF checks
<1>2. /\ IsFiniteSet({c \in checks : c.passed})
  BY <1>1, FS_Subset
<1>3. Cardinality(checks) \in Nat /\ Cardinality({c \in checks : c.passed}) \in Nat
  BY <1>1, <1>2, FS_CardinalityType
<1> QED
  BY <1>3 DEF checks, Score, Fraction

(* Without usable evidence no check on the injected memories passes.         *)
LEMMA EvidenceNeeded ==
  ASSUME NEW expected, NEW trace, ~ContextObservation(trace).valid,
         NEW check \in Checks(expected, trace), check.id[1] \in ContextKinds
  PROVE  ~check.passed
<1> DEFINE context == ContextObservation(trace)
<1>1. ASSUME NEW c \in ContextChecks(expected, context) PROVE ~c.passed
  <2> HIDE DEF context
  <2>1. ~context.valid
    BY DEF context
  <2>2. CASE c \in OneCheck("context_status", expected.context_status # None,
                          context.valid /\ context.status = expected.context_status)
    <3>1. c = [id |-> <<"context_status">>,
               passed |-> context.valid
                          /\ context.status = expected.context_status]
      BY <2>2 DEF OneCheck
    <3>2. c.passed = (context.valid
                      /\ context.status = expected.context_status)
      BY <3>1
    <3> QED
      BY <2>1, <3>2
  <2>3. CASE c \in CheckEach("required_memory", expected.required_memory_ids,
                           LAMBDA m : context.valid /\ m \in context.selected_ids)
    <3>1. PICK m \in expected.required_memory_ids :
            c = [id |-> <<"required_memory", m>>,
                 passed |-> context.valid /\ m \in context.selected_ids]
      BY <2>3 DEF CheckEach
    <3>2. c.passed = (context.valid /\ m \in context.selected_ids)
      BY <3>1
    <3> QED
      BY <2>1, <3>2
  <2>4. CASE c \in CheckEach("forbidden_memory", expected.forbidden_memory_ids,
                           LAMBDA m : context.valid /\ m \notin context.selected_ids)
    <3>1. PICK m \in expected.forbidden_memory_ids :
            c = [id |-> <<"forbidden_memory", m>>,
                 passed |-> context.valid /\ m \notin context.selected_ids]
      BY <2>4 DEF CheckEach
    <3>2. c.passed = (context.valid /\ m \notin context.selected_ids)
      BY <3>1
    <3> QED
      BY <2>1, <3>2
  <2>5. CASE c \in OneCheck("context_item_limit", expected.max_context_items # None,
                          context.valid
                          /\ Cardinality(context.selected_ids)
                               <= expected.max_context_items)
    <3>1. c = [id |-> <<"context_item_limit">>,
               passed |-> context.valid
                          /\ Cardinality(context.selected_ids) <= expected.max_context_items]
      BY <2>5 DEF OneCheck
    <3>2. c.passed = (context.valid
                      /\ Cardinality(context.selected_ids) <= expected.max_context_items)
      BY <3>1
    <3> QED
      BY <2>1, <3>2
  <2> QED
    BY <1>1, <2>2, <2>3, <2>4, <2>5 DEF ContextChecks
<1> HIDE DEF context
<1>2. check \in ContextChecks(expected, context)
  <2>1. check \notin AnswerChecks(expected, trace.answer)
    BY DEF AnswerChecks, CheckEach, ContextKinds
  <2> QED
    BY <2>1 DEF Checks, OneCheck, CheckEach, ContextKinds, context
<1> QED
  BY <1>1, <1>2

-----------------------------------------------------------------------------
(* The definitions in the tables: each case may be stored, and a suite names *)
(* cases that exist.                                                         *)
Definitions ==
  /\ \A c \in Known : ValidExpectations(cases[c].expectations)
  /\ \A s \in Suites : \A i \in DOMAIN suites[s] : suites[s][i] \in Known

(* What an item says: an error, or a run with a result.  R is the table of   *)
(* runs, Q that of results.                                                  *)
Judged(case, run, R, Q) ==
  /\ run \in DOMAIN R
  /\ \E i \in DOMAIN Q : Q[i].case = case /\ Q[i].run = run
Verdict(item, R, Q) ==
  IF item.error THEN item.run = 0 /\ ~item.passed
                ELSE Judged(item.case, item.run, R, Q)

(* The items of a request or a suite run are those of its first cases.       *)
ItemsFor(items, case_ids, R, Q) ==
  /\ Len(items) <= Len(case_ids)
  /\ \A i \in DOMAIN items : items[i].case = case_ids[i] /\ Verdict(items[i], R, Q)

(* Where a request in execute() stands, with locals l, the known cases K and *)
(* n sessions.                                                               *)
Begun(pc) == pc \in {"turn", "cleanup", "cancelled"}
OutcomeOK(l, R, Q) ==
  /\ l.outcome \in Item /\ l.outcome.case = l.case_ids[Len(l.items) + 1]
  /\ Verdict(l.outcome, R, Q) /\ l.outcome.run \in {0, l.run}
LocalsOK(l, K, R, Q, n) ==
  /\ Len(l.inputs) = Len(l.case_ids)
  /\ \A i \in DOMAIN l.case_ids : l.case_ids[i] \in K
  /\ ItemsFor(l.items, l.case_ids, R, Q)
  /\ l.run \in 0..Len(R)
  /\ Begun(l.pc) => Len(l.items) < Len(l.case_ids) /\ l.session \in 1..n
  /\ ~Begun(l.pc) => l.session = 0 /\ l.run = 0
  /\ l.pc = "turn" => l.run # 0 /\ R[l.run] = None
  /\ l.pc = "cleanup" => OutcomeOK(l, R, Q)
Requests == \A w \in Workers : LocalsOK(worker[w], Known, runs, results, Len(sessions))

(* The run a request holds: that of its turn, or of one of its items.        *)
Held(l, i) == IF i = 0 THEN l.run ELSE l.items[i].run
Holders(l) == 0..Len(l.items)
Places(run) == DOMAIN run.items
Filed(run, j) == run.items[j].run

(* A run is that of one item, filed or not, or of one turn.                  *)
Taken(r) == r # 0
Claims ==
  /\ \A w, v \in Workers : \A i \in Holders(worker[w]), j \in Holders(worker[v]) :
       Taken(Held(worker[w], i)) /\ Held(worker[w], i) = Held(worker[v], j)
         => w = v /\ i = j
  /\ \A w \in Workers, k \in DOMAIN suite_runs :
       \A i \in Holders(worker[w]), j \in Places(suite_runs[k]) :
         Taken(Held(worker[w], i)) => Held(worker[w], i) # Filed(suite_runs[k], j)
  /\ \A k, l \in DOMAIN suite_runs :
       \A i \in Places(suite_runs[k]), j \in Places(suite_runs[l]) :
         Taken(Filed(suite_runs[k], i)) /\ Filed(suite_runs[k], i) = Filed(suite_runs[l], j)
           => k = l /\ i = j

(* A pair of case and run has one row.                                       *)
SamePair(a, b) == a.case = b.case /\ a.run = b.run
OnePerPair(rows) == \A i, j \in DOMAIN rows : SamePair(rows[i], rows[j]) => i = j

(* A result is what its case said of the trace of its run.                   *)
Reproduces(row, R) ==
  /\ row.run \in DOMAIN R /\ R[row.run] # None
  /\ row.score = Score(Checks(row.input.expectations, R[row.run]))
  /\ row.passed = Meets(row.score, row.input.pass_threshold)
Results == OnePerPair(results) /\ \A i \in DOMAIN results : Reproduces(results[i], runs)

(* A stored suite run has all its items, and a true verdict.                 *)
SuiteRunOK(run, R, Q) ==
  /\ Len(run.items) = Len(run.case_ids)
  /\ ItemsFor(run.items, run.case_ids, R, Q)
  /\ run.passed <=> \A i \in DOMAIN run.items : run.items[i].passed /\ ~run.items[i].error
SuiteRuns == \A k \in DOMAIN suite_runs : SuiteRunOK(suite_runs[k], runs, results)

(* What is left of a temporary session is being used or being deleted.       *)
InTurn(s) == \E w \in Workers : worker[w].pc = "turn" /\ worker[w].session = s
SessionOK(session, inTurn, u) ==
  /\ u.faults = 0 /\ session.live => inTurn
  /\ session.open => session.live \/ session.closer \in session.deleting
  /\ u.faults + u.crashes = 0 /\ session.stored => inTurn \/ session.deleting # {}
SessionsOK == \A s \in DOMAIN sessions : SessionOK(sessions[s], InTurn(s), used)

Counted == used.faults + used.crashes <= used.events

(* The inductive invariant. *)
Inv == /\ TypeOK /\ Counted /\ Definitions /\ SessionsOK /\ Requests
       /\ Claims /\ Results /\ SuiteRuns

-----------------------------------------------------------------------------
(* The result of a case on a run, and the table after it is saved.           *)
LEMMA EvaluatedFacts ==
  ASSUME TypeOK, NEW c \in Known, NEW r \in Nat, NEW trace
  PROVE  LET row == Evaluated(c, r, trace)
         IN /\ row \in Result /\ row.case = c /\ row.run = r
            /\ row.input = cases[c]
            /\ row.score = Score(Checks(cases[c].expectations, trace))
            /\ row.passed = Meets(row.score, row.input.pass_threshold)
<1> DEFINE row == Evaluated(c, r, trace)
           others == {i \in DOMAIN results : results[i].case = c /\ results[i].run # r}
           previous == IF others = {} THEN None ELSE results[Max(others)].score
           score == Score(Checks(cases[c].expectations, trace))
<1>1. cases[c] \in Inputs /\ c \in Cases
  BY DEF Known, TypeOK
<1>2. score \in Fraction /\ cases[c].pass_threshold \in Nat \X (Nat \ {0})
  BY <1>1, EvaluationsAssumption, ScoreTyped
<1>3. previous \in Fraction \cup {None}
  <2>1. results \in Seq(Result)
    BY DEF TypeOK
  <2>2. others \in SUBSET (1..Len(results)) /\ Len(results) \in Nat
    BY <2>1
  <2>3. CASE others # {}
    <3>1. Max(others) \in others
      BY <2>2, <2>3, MaxExists
    <3>2. results[Max(others)] \in Result
      BY <3>1, <2>1
    <3> QED
      BY <3>2, <2>3 DEF Result
  <2> QED
    BY <2>3
<1>4. Evaluated(c, r, trace) =
        [case |-> c, run |-> r, input |-> cases[c], score |-> score,
         passed |-> Meets(score, cases[c].pass_threshold),
         previous_score |-> previous,
         regression |-> previous # None /\ Lower(score, previous)]
  BY DEF Evaluated
<1> HIDE DEF others, previous, score
<1>5. Meets(score, cases[c].pass_threshold) \in BOOLEAN
  BY DEF Meets
<1>6. (previous # None /\ Lower(score, previous)) \in BOOLEAN
  OBVIOUS
<1>7. row \in Result
  BY <1>1, <1>2, <1>3, <1>4, <1>5, <1>6 DEF Result
<1> HIDE DEF row
<1>8. row = [case |-> c, run |-> r, input |-> cases[c], score |-> score,
             passed |-> Meets(score, cases[c].pass_threshold),
             previous_score |-> previous,
             regression |-> previous # None /\ Lower(score, previous)]
  BY <1>4 DEF row
<1>9. /\ row.case = c /\ row.run = r /\ row.input = cases[c] /\ row.score = score
      /\ row.passed = Meets(score, cases[c].pass_threshold)
  BY <1>8
<1> QED
  BY <1>7, <1>9 DEF row, score

(* A saved row is the one of its pair, after all that are kept.              *)
Upserted(rows, row) ==
  /\ rows \in Seq(Result) /\ OnePerPair(rows)
  /\ \A i \in DOMAIN rows :
       \/ rows[i] = row
       \/ \E j \in DOMAIN results : rows[i] = results[j]
  /\ \A j \in DOMAIN results :
       \/ SamePair(results[j], row)
       \/ \E i \in DOMAIN rows : rows[i] = results[j]
  /\ \E i \in DOMAIN rows : rows[i] = row

(* A row appended to rows of other pairs leaves one row for each pair.       *)
LEMMA AppendUpserts ==
  ASSUME NEW kept \in Seq(Result), NEW row \in Result, OnePerPair(kept),
         \A i \in DOMAIN kept : ~SamePair(kept[i], row)
  PROVE  OnePerPair(Append(kept, row))
<1> DEFINE rows == Append(kept, row)
<1>1. /\ DOMAIN rows = 1..(Len(kept) + 1) /\ Len(kept) \in Nat /\ DOMAIN kept = 1..Len(kept)
      /\ \A i \in 1..Len(kept) : rows[i] = kept[i]
      /\ rows[Len(kept) + 1] = row
  BY AppendFacts
<1> HIDE DEF rows
<1>2. SUFFICES ASSUME NEW i \in DOMAIN rows, NEW j \in DOMAIN rows,
                      SamePair(rows[i], rows[j])
               PROVE  i = j
  BY DEF OnePerPair, rows
<1>3. CASE i \in 1..Len(kept) /\ j \in 1..Len(kept)
  BY <1>1, <1>2, <1>3 DEF OnePerPair
<1>4. CASE i \in 1..Len(kept) /\ j \notin 1..Len(kept)
  <2>1. rows[j] = row
    BY <1>1, <1>4
  <2> QED
    BY <1>1, <1>2, <1>4, <2>1 DEF SamePair
<1>5. CASE i \notin 1..Len(kept) /\ j \in 1..Len(kept)
  <2>1. rows[i] = row
    BY <1>1, <1>5
  <2> QED
    BY <1>1, <1>2, <1>5, <2>1 DEF SamePair
<1>6. CASE i \notin 1..Len(kept) /\ j \notin 1..Len(kept)
  BY <1>1, <1>6
<1> QED
  BY <1>3, <1>4, <1>5, <1>6

(* ON CONFLICT(case_id, run_id): the table after a result is saved has one   *)
(* row for the pair, the new one, and every other row it had.                *)
LEMMA SavedUpserts ==
  ASSUME TypeOK, OnePerPair(results), NEW row \in Result
  PROVE  Upserted(Saved(row), row)
<1> DEFINE old == {i \in DOMAIN results : results[i].case = row.case
                                          /\ results[i].run = row.run}
           kept == IF old = {} THEN results ELSE RemoveAt(results, CHOOSE i \in old : TRUE)
<1>1. Saved(row) = Append(kept, row)
  BY DEF Saved
<1>2. results \in Seq(Result) /\ Len(results) \in Nat /\ DOMAIN results = 1..Len(results)
  BY DEF TypeOK
<1>3. /\ kept \in Seq(Result) /\ OnePerPair(kept)
      /\ \A i \in DOMAIN kept : /\ ~SamePair(kept[i], row)
                                /\ \E j \in DOMAIN results : kept[i] = results[j]
      /\ \A j \in DOMAIN results : \/ SamePair(results[j], row)
                                   \/ \E i \in DOMAIN kept : kept[i] = results[j]
  <2>1. CASE old = {}
    <3>1. kept = results
      BY <2>1
    <3>2. \A i \in DOMAIN results : ~SamePair(results[i], row)
      BY <2>1 DEF SamePair
    <3> HIDE DEF kept, old
    <3> QED
      BY <3>1, <3>2, <1>2
  <2>2. CASE old # {}
    <3> DEFINE o == CHOOSE i \in old : TRUE
    <3>1. o \in old
      BY <2>2
    <3>2. kept = RemoveAt(results, o)
      BY <2>2
    <3>3. o \in DOMAIN results /\ SamePair(results[o], row)
      BY <3>1 DEF SamePair
    <3> HIDE DEF o, old, kept
    <3>4. /\ kept \in Seq(Result) /\ Len(kept) = Len(results) - 1
          /\ \A j \in 1..(Len(results) - 1) :
               kept[j] = IF j < o THEN results[j] ELSE results[j + 1]
      BY <3>2, <3>3, <1>2, RemoveAtFacts
    <3>5. DOMAIN kept = 1..(Len(results) - 1)
      BY <3>4
    <3> DEFINE from(j) == IF j < o THEN j ELSE j + 1
    <3>6. \A j \in DOMAIN kept : /\ from(j) \in DOMAIN results /\ from(j) # o
                                 /\ kept[j] = results[from(j)]
      BY <3>3, <3>4, <3>5, <1>2
    <3>7. \A i, j \in DOMAIN kept : from(i) = from(j) => i = j
      BY <3>3, <3>5, <1>2
    <3>8. \A j \in DOMAIN results : j = o \/ \E i \in DOMAIN kept : from(i) = j
      <4> SUFFICES ASSUME NEW j \in DOMAIN results, j # o
                   PROVE  \E i \in DOMAIN kept : from(i) = j
        OBVIOUS
      <4>1. CASE j < o
        <5>1. j \in DOMAIN kept /\ from(j) = j
          BY <4>1, <3>3, <3>5, <1>2
        <5> QED
          BY <5>1
      <4>2. CASE ~(j < o)
        <5>1. j - 1 \in DOMAIN kept /\ from(j - 1) = j
          BY <4>2, <3>3, <3>5, <1>2
        <5> QED
          BY <5>1
      <4> QED
        BY <4>1, <4>2
    <3> HIDE DEF from
    <3>9. OnePerPair(kept)
      BY <3>6, <3>7 DEF OnePerPair, SamePair
    <3>10. \A i \in DOMAIN kept : ~SamePair(kept[i], row)
      BY <3>3, <3>6 DEF OnePerPair, SamePair
    <3> QED
      BY <3>3, <3>4, <3>6, <3>8, <3>9, <3>10
  <2> QED
    BY <2>1, <2>2
<1> HIDE DEF kept
<1> DEFINE rows == Append(kept, row)
<1>4. /\ rows \in Seq(Result) /\ DOMAIN rows = 1..(Len(kept) + 1) /\ Len(kept) \in Nat
      /\ DOMAIN kept = 1..Len(kept)
      /\ \A i \in 1..Len(kept) : rows[i] = kept[i]
      /\ rows[Len(kept) + 1] = row
  BY <1>3, AppendFacts
<1>5. OnePerPair(rows)
  BY <1>3, AppendUpserts
<1> HIDE DEF rows
<1>6. \A i \in DOMAIN rows : rows[i] = row \/ \E j \in DOMAIN results : rows[i] = results[j]
  <2> SUFFICES ASSUME NEW i \in DOMAIN rows
               PROVE  rows[i] = row \/ \E j \in DOMAIN results : rows[i] = results[j]
    OBVIOUS
  <2>1. i \in 1..Len(kept) \/ i = Len(kept) + 1
    BY <1>4
  <2> QED
    BY <2>1, <1>3, <1>4
<1>7. \A j \in DOMAIN results : \/ SamePair(results[j], row)
                                \/ \E i \in DOMAIN rows : rows[i] = results[j]
  <2> SUFFICES ASSUME NEW j \in DOMAIN results, NEW i \in DOMAIN kept, kept[i] = results[j]
               PROVE  \E k \in DOMAIN rows : rows[k] = results[j]
    BY <1>3
  <2>1. i \in DOMAIN rows /\ rows[i] = kept[i]
    BY <1>4
  <2> QED
    BY <2>1
<1>8. \E i \in DOMAIN rows : rows[i] = row
  <2>1. Len(kept) + 1 \in DOMAIN rows
    BY <1>4
  <2> QED
    BY <2>1, <1>4
<1> QED
  BY <1>1, <1>4, <1>5, <1>6, <1>7, <1>8 DEF Upserted, rows

-----------------------------------------------------------------------------
(* Tables only grow: what was true of an item, a row or a request stays.     *)
RunsGrow(R, R2) ==
  /\ Len(R) \in Nat /\ Len(R2) \in Nat /\ Len(R) <= Len(R2)
  /\ DOMAIN R \subseteq DOMAIN R2
  /\ \A r \in DOMAIN R : R[r] # None => R2[r] = R[r]
PairsKept(Q, Q2) == \A i \in DOMAIN Q : \E j \in DOMAIN Q2 : SamePair(Q2[j], Q[i])

(* The verdict of an item stays true when runs and results are added.        *)
LEMMA VerdictKept ==
  ASSUME NEW R, NEW R2, NEW Q, NEW Q2, RunsGrow(R, R2), PairsKept(Q, Q2),
         NEW item, Verdict(item, R, Q)
  PROVE  Verdict(item, R2, Q2)
  BY DEF RunsGrow, PairsKept, Verdict, Judged, SamePair

(* So do the verdicts of the items of a request or a suite run.              *)
LEMMA ItemsKept ==
  ASSUME NEW R, NEW R2, NEW Q, NEW Q2, RunsGrow(R, R2), PairsKept(Q, Q2),
         NEW items, NEW case_ids, ItemsFor(items, case_ids, R, Q)
  PROVE  ItemsFor(items, case_ids, R2, Q2)
  BY VerdictKept DEF ItemsFor

(* A result stays what its case says of its trace: a trace stored is never   *)
(* written again.                                                            *)
LEMMA ReproducesKept ==
  ASSUME NEW R, NEW R2, RunsGrow(R, R2), NEW row, Reproduces(row, R)
  PROVE  Reproduces(row, R2)
  BY DEF RunsGrow, Reproduces

(* A suite run that is complete stays so.                                    *)
LEMMA SuiteRunKept ==
  ASSUME NEW R, NEW R2, NEW Q, NEW Q2, RunsGrow(R, R2), PairsKept(Q, Q2),
         NEW run, SuiteRunOK(run, R, Q)
  PROVE  SuiteRunOK(run, R2, Q2)
  BY ItemsKept DEF SuiteRunOK

(* A request none of whose locals changes; its turn is still running.        *)
LEMMA LocalsKept ==
  ASSUME NEW K, NEW K2, NEW R, NEW R2, NEW Q, NEW Q2, NEW n \in Nat, NEW n2 \in Nat,
         K \subseteq K2, RunsGrow(R, R2), PairsKept(Q, Q2), n <= n2,
         NEW l \in Worker, LocalsOK(l, K, R, Q, n),
         l.pc = "turn" => R2[l.run] = None
  PROVE  LocalsOK(l, K2, R2, Q2, n2)
<1>1. ItemsFor(l.items, l.case_ids, R2, Q2)
  BY ItemsKept DEF LocalsOK
<1>2. l.run \in 0..Len(R2)
  BY DEF LocalsOK, RunsGrow
<1>3. l.pc = "cleanup" => OutcomeOK(l, R2, Q2)
  BY VerdictKept DEF LocalsOK, OutcomeOK
<1>4. Begun(l.pc) => Len(l.items) < Len(l.case_ids) /\ l.session \in 1..n2
  BY DEF LocalsOK
<1> QED
  BY <1>1, <1>2, <1>3, <1>4 DEF LocalsOK

(* A request with locals l goes on with locals m.                            *)
Stage(l, m, pc, items, session, run, outcome) ==
  /\ m.pc = pc /\ m.items = items /\ m.session = session /\ m.run = run
  /\ m.outcome = outcome
  /\ m.suite = l.suite /\ m.case_ids = l.case_ids /\ m.inputs = l.inputs

(* What remains true of a request that goes on to another stage of the same  *)
(* item.                                                                     *)
LEMMA StageOK ==
  ASSUME NEW l \in Worker, NEW K, NEW R, NEW R2, NEW Q, NEW Q2,
         NEW n \in Nat, NEW n2 \in Nat,
         RunsGrow(R, R2), PairsKept(Q, Q2), n <= n2,
         LocalsOK(l, K, R, Q, n), Len(l.items) < Len(l.case_ids),
         NEW pc, NEW session, NEW run, NEW outcome,
         Begun(pc), session \in 1..n2, run \in 0..Len(R2),
         pc = "turn" => run # 0 /\ R2[run] = None,
         pc = "cleanup" =>
           /\ outcome \in Item /\ outcome.case = l.case_ids[Len(l.items) + 1]
           /\ Verdict(outcome, R2, Q2) /\ outcome.run \in {0, run},
         NEW m, Stage(l, m, pc, l.items, session, run, outcome)
  PROVE  LocalsOK(m, K, R2, Q2, n2)
<1>1. /\ m.pc = pc /\ m.items = l.items /\ m.session = session /\ m.run = run
      /\ m.outcome = outcome /\ m.case_ids = l.case_ids /\ m.inputs = l.inputs
  BY DEF Stage
<1>2. ItemsFor(l.items, l.case_ids, R2, Q2)
  BY ItemsKept DEF LocalsOK
<1> QED
  BY <1>1, <1>2 DEF LocalsOK, OutcomeOK, Begun

(* A request that has an outcome for its item goes on to the next.           *)
LEMMA ItemAdded ==
  ASSUME NEW l \in Worker, NEW K, NEW R, NEW Q, NEW n \in Nat, NEW n2 \in Nat,
         n <= n2, LocalsOK(l, K, R, Q, n), Len(l.items) < Len(l.case_ids),
         RunsGrow(R, R),
         NEW item \in Item, item.case = l.case_ids[Len(l.items) + 1],
         Verdict(item, R, Q),
         NEW m, Stage(l, m, "next", Append(l.items, item), 0, 0, None)
  PROVE  LocalsOK(m, K, R, Q, n2)
<1> DEFINE items == Append(l.items, item)
<1>1. /\ m.pc = "next" /\ m.items = items /\ m.session = 0 /\ m.run = 0
      /\ m.case_ids = l.case_ids /\ m.inputs = l.inputs
  BY DEF Stage
<1>2. l.items \in Seq(Item) /\ l.case_ids \in Seq(Cases) /\ Len(l.case_ids) \in Nat
  BY DEF Worker
<1>3. /\ Len(items) = Len(l.items) + 1 /\ Len(l.items) \in Nat
      /\ DOMAIN l.items = 1..Len(l.items)
      /\ DOMAIN items = 1..(Len(l.items) + 1)
      /\ \A i \in 1..Len(l.items) : items[i] = l.items[i]
      /\ items[Len(l.items) + 1] = item
  BY <1>2, AppendFacts
<1> HIDE DEF items
<1>4. ItemsFor(items, l.case_ids, R, Q)
  <2>1. Len(items) <= Len(l.case_ids)
    BY <1>2, <1>3
  <2>2. ASSUME NEW i \in DOMAIN items
        PROVE  items[i].case = l.case_ids[i] /\ Verdict(items[i], R, Q)
    <3>1. CASE i \in 1..Len(l.items)
      BY <3>1, <1>3 DEF LocalsOK, ItemsFor
    <3>2. CASE i = Len(l.items) + 1
      BY <3>2, <1>3
    <3> QED
      BY <3>1, <3>2, <1>3
  <2> QED
    BY <2>1, <2>2 DEF ItemsFor
<1>5. 0 \in 0..Len(R)
  BY DEF RunsGrow
<1> QED
  BY <1>1, <1>4, <1>5 DEF LocalsOK, Begun

-----------------------------------------------------------------------------
(* The effects of the actions, one by one.                                   *)

(* One of the locals written.                                                *)
Pcs == {"idle", "next", "turn", "cleanup", "cancelled"}
(* Each local of a request can be written alone.                             *)
LEMMA FieldWritten ==
  ASSUME NEW l \in Worker
  PROVE  /\ \A x \in Pcs : LET m == [l EXCEPT !.pc = x]
              IN /\ m \in Worker /\ m.pc = x
                 /\ m.suite = l.suite /\ m.case_ids = l.case_ids /\ m.inputs = l.inputs /\ m.items = l.items
                 /\ m.session = l.session /\ m.run = l.run /\ m.outcome = l.outcome
         /\ \A x \in Seq(Item) : LET m == [l EXCEPT !.items = x]
              IN /\ m \in Worker /\ m.items = x
                 /\ m.pc = l.pc /\ m.suite = l.suite /\ m.case_ids = l.case_ids /\ m.inputs = l.inputs
                 /\ m.session = l.session /\ m.run = l.run /\ m.outcome = l.outcome
         /\ \A x \in Nat : LET m == [l EXCEPT !.session = x]
              IN /\ m \in Worker /\ m.session = x
                 /\ m.pc = l.pc /\ m.suite = l.suite /\ m.case_ids = l.case_ids /\ m.inputs = l.inputs
                 /\ m.items = l.items /\ m.run = l.run /\ m.outcome = l.outcome
         /\ \A x \in Nat : LET m == [l EXCEPT !.run = x]
              IN /\ m \in Worker /\ m.run = x
                 /\ m.pc = l.pc /\ m.suite = l.suite /\ m.case_ids = l.case_ids /\ m.inputs = l.inputs
                 /\ m.items = l.items /\ m.session = l.session /\ m.outcome = l.outcome
         /\ \A x \in Item \cup {None} : LET m == [l EXCEPT !.outcome = x]
              IN /\ m \in Worker /\ m.outcome = x
                 /\ m.pc = l.pc /\ m.suite = l.suite /\ m.case_ids = l.case_ids /\ m.inputs = l.inputs
                 /\ m.items = l.items /\ m.session = l.session /\ m.run = l.run
<1>1. \A x \in Pcs : LET m == [l EXCEPT !.pc = x]
              IN /\ m \in Worker /\ m.pc = x
                 /\ m.suite = l.suite /\ m.case_ids = l.case_ids /\ m.inputs = l.inputs /\ m.items = l.items
                 /\ m.session = l.session /\ m.run = l.run /\ m.outcome = l.outcome
  BY DEF Worker, Pcs
<1>2. \A x \in Seq(Item) : LET m == [l EXCEPT !.items = x]
              IN /\ m \in Worker /\ m.items = x
                 /\ m.pc = l.pc /\ m.suite = l.suite /\ m.case_ids = l.case_ids /\ m.inputs = l.inputs
                 /\ m.session = l.session /\ m.run = l.run /\ m.outcome = l.outcome
  BY DEF Worker, Pcs
<1>3. \A x \in Nat : LET m == [l EXCEPT !.session = x]
              IN /\ m \in Worker /\ m.session = x
                 /\ m.pc = l.pc /\ m.suite = l.suite /\ m.case_ids = l.case_ids /\ m.inputs = l.inputs
                 /\ m.items = l.items /\ m.run = l.run /\ m.outcome = l.outcome
  BY DEF Worker, Pcs
<1>4. \A x \in Nat : LET m == [l EXCEPT !.run = x]
              IN /\ m \in Worker /\ m.run = x
                 /\ m.pc = l.pc /\ m.suite = l.suite /\ m.case_ids = l.case_ids /\ m.inputs = l.inputs
                 /\ m.items = l.items /\ m.session = l.session /\ m.outcome = l.outcome
  BY DEF Worker, Pcs
<1>5. \A x \in Item \cup {None} : LET m == [l EXCEPT !.outcome = x]
              IN /\ m \in Worker /\ m.outcome = x
                 /\ m.pc = l.pc /\ m.suite = l.suite /\ m.case_ids = l.case_ids /\ m.inputs = l.inputs
                 /\ m.items = l.items /\ m.session = l.session /\ m.run = l.run
  BY DEF Worker, Pcs
<1> QED
  BY <1>1, <1>2, <1>3, <1>4, <1>5

(* Several of them written, one after the other.                             *)
LEMMA RunWritten ==
  ASSUME NEW l \in Worker, NEW pc \in Pcs, NEW session \in Nat, NEW run \in Nat,
         NEW m, m = [l EXCEPT !.pc = pc, !.session = session, !.run = run]
  PROVE  m \in Worker /\ Stage(l, m, pc, l.items, session, run, l.outcome)
<1> DEFINE a == [l EXCEPT !.pc = pc]
           b == [a EXCEPT !.session = session]
           c == [b EXCEPT !.run = run]
<1>1. a \in Worker /\ Stage(l, a, pc, l.items, l.session, l.run, l.outcome)
  BY FieldWritten DEF Stage
<1>2. m = c
  OBVIOUS
<1> HIDE DEF a
<1>3. b \in Worker /\ Stage(a, b, a.pc, a.items, session, a.run, a.outcome)
  BY <1>1, FieldWritten DEF Stage
<1> HIDE DEF b
<1>4. c \in Worker /\ Stage(b, c, b.pc, b.items, b.session, run, b.outcome)
  BY <1>3, FieldWritten DEF Stage
<1> HIDE DEF c
<1> QED
  BY <1>1, <1>2, <1>3, <1>4 DEF Stage

(* The position of a request and the outcome of its item written together.   *)
LEMMA OutcomeWritten ==
  ASSUME NEW l \in Worker, NEW pc \in Pcs, NEW outcome \in Item \cup {None},
         NEW m, m = [l EXCEPT !.pc = pc, !.outcome = outcome]
  PROVE  m \in Worker /\ Stage(l, m, pc, l.items, l.session, l.run, outcome)
<1> DEFINE a == [l EXCEPT !.pc = pc]
           b == [a EXCEPT !.outcome = outcome]
<1>1. a \in Worker /\ Stage(l, a, pc, l.items, l.session, l.run, l.outcome)
  BY FieldWritten DEF Stage
<1>2. m = b
  OBVIOUS
<1> HIDE DEF a
<1>3. b \in Worker /\ Stage(a, b, a.pc, a.items, a.session, a.run, outcome)
  BY <1>1, FieldWritten DEF Stage
<1> HIDE DEF b
<1> QED
  BY <1>1, <1>2, <1>3 DEF Stage

(* The position, the session and the outcome written together.               *)
LEMMA SessionWritten ==
  ASSUME NEW l \in Worker, NEW pc \in Pcs, NEW session \in Nat,
         NEW outcome \in Item \cup {None},
         NEW m, m = [l EXCEPT !.pc = pc, !.session = session, !.outcome = outcome]
  PROVE  m \in Worker /\ Stage(l, m, pc, l.items, session, l.run, outcome)
<1> DEFINE a == [l EXCEPT !.pc = pc]
           b == [a EXCEPT !.session = session]
           c == [b EXCEPT !.outcome = outcome]
<1>1. a \in Worker /\ Stage(l, a, pc, l.items, l.session, l.run, l.outcome)
  BY FieldWritten DEF Stage
<1>2. m = c
  OBVIOUS
<1> HIDE DEF a
<1>3. b \in Worker /\ Stage(a, b, a.pc, a.items, session, a.run, a.outcome)
  BY <1>1, FieldWritten DEF Stage
<1> HIDE DEF b
<1>4. c \in Worker /\ Stage(b, c, b.pc, b.items, b.session, b.run, outcome)
  BY <1>3, FieldWritten DEF Stage
<1> HIDE DEF c
<1> QED
  BY <1>1, <1>2, <1>3, <1>4 DEF Stage

(* An item filed: the request goes on to the next one and holds nothing.     *)
LEMMA ItemWritten ==
  ASSUME TypeOK, NEW w \in Workers, NEW item \in Item
  PROVE  /\ WithItem(w, item) \in Worker
         /\ Stage(worker[w], WithItem(w, item), "next", Append(worker[w].items, item),
                  0, 0, None)
<1> DEFINE l == worker[w]
           items == Append(l.items, item)
           a == [l EXCEPT !.pc = "next"]
           b == [a EXCEPT !.items = items]
           zero == 0
           c == [b EXCEPT !.session = zero]
           d == [c EXCEPT !.run = zero]
           e == [d EXCEPT !.outcome = None]
<1>1. WithItem(w, item) = e
  BY DEF WithItem
<1>2. l \in Worker
  BY DEF TypeOK
<1>3. items \in Seq(Item)
  BY <1>2, AppendFacts DEF Worker
<1>0. zero \in Nat
  OBVIOUS
<1> HIDE DEF l, items, zero
<1>4. a \in Worker /\ Stage(l, a, "next", l.items, l.session, l.run, l.outcome)
  BY <1>2, FieldWritten DEF Stage, Pcs
<1> HIDE DEF a
<1>5. b \in Worker /\ Stage(a, b, a.pc, items, a.session, a.run, a.outcome)
  BY <1>3, <1>4, FieldWritten DEF Stage
<1> HIDE DEF b
<1>6. c \in Worker /\ Stage(b, c, b.pc, b.items, zero, b.run, b.outcome)
  BY <1>0, <1>5, FieldWritten DEF Stage
<1> HIDE DEF c
<1>7. d \in Worker /\ Stage(c, d, c.pc, c.items, c.session, zero, c.outcome)
  BY <1>0, <1>6, FieldWritten DEF Stage
<1> HIDE DEF d
<1>8. e \in Worker /\ Stage(d, e, d.pc, d.items, d.session, d.run, None)
  BY <1>7, FieldWritten DEF Stage
<1> HIDE DEF e
<1>9. Stage(l, e, "next", items, zero, zero, None)
  BY <1>4, <1>5, <1>6, <1>7, <1>8 DEF Stage
<1> QED
  BY <1>1, <1>8, <1>9 DEF l, items, zero

(* An event, a fault and a crash are counted.                                *)
Uses == [runs: 0..MaxRuns, events: 0..MaxEvents, faults: 0..MaxEvents,
         crashes: 0..MaxEvents]
(* An event of the environment is counted, and is neither a fault nor a      *)
(* crash.                                                                    *)
LEMMA EventCounted ==
  ASSUME TypeOK, Counted, Happens
  PROVE  /\ used' \in Uses /\ Counted'
         /\ used'.faults = used.faults /\ used'.crashes = used.crashes
<1>1. used \in Uses /\ MaxEvents \in Nat /\ MaxRuns \in Nat
  BY EvaluationsAssumption DEF TypeOK, Uses
<1>2. used' = [used EXCEPT !.events = used.events + 1] /\ used.events < MaxEvents
  BY DEF Happens
<1>3. used.events + 1 \in 0..MaxEvents
  BY <1>1, <1>2 DEF Uses
<1>4. used' \in Uses /\ used'.faults = used.faults /\ used'.crashes = used.crashes
      /\ used'.events = used.events + 1
  BY <1>1, <1>2, <1>3 DEF Uses
<1> QED
  BY <1>1, <1>4 DEF Counted, Uses

(* A fault is counted as an event.                                           *)
LEMMA FaultCounted ==
  ASSUME TypeOK, Counted, Fault
  PROVE  /\ used' \in Uses /\ Counted'
         /\ used'.faults # 0 /\ used'.faults \in Nat /\ used'.crashes \in Nat
<1>1. used \in Uses /\ MaxEvents \in Nat /\ MaxRuns \in Nat
  BY EvaluationsAssumption DEF TypeOK, Uses
<1>2. /\ used' = [used EXCEPT !.events = used.events + 1, !.faults = used.faults + 1]
      /\ used.events < MaxEvents
  BY DEF Fault
<1>3. used.events + 1 \in 0..MaxEvents /\ used.faults + 1 \in 0..MaxEvents
  BY <1>1, <1>2 DEF Uses, Counted
<1>4. used' \in Uses /\ used'.faults = used.faults + 1 /\ used'.crashes = used.crashes
      /\ used'.events = used.events + 1
  BY <1>1, <1>2, <1>3 DEF Uses
<1> QED
  BY <1>1, <1>4 DEF Counted, Uses

(* A crash is counted as an event.                                           *)
LEMMA CrashCounted ==
  ASSUME TypeOK, Counted, Crash
  PROVE  /\ used' \in Uses /\ Counted'
         /\ used'.faults = used.faults /\ used'.crashes # 0
         /\ used'.faults \in Nat /\ used'.crashes \in Nat
<1>1. used \in Uses /\ MaxEvents \in Nat /\ MaxRuns \in Nat
  BY EvaluationsAssumption DEF TypeOK, Uses
<1>2. /\ used' = [used EXCEPT !.events = used.events + 1, !.crashes = used.crashes + 1]
      /\ used.events < MaxEvents
  BY DEF Crash
<1>3. used.events + 1 \in 0..MaxEvents /\ used.crashes + 1 \in 0..MaxEvents
  BY <1>1, <1>2 DEF Uses, Counted
<1>4. used' \in Uses /\ used'.faults = used.faults /\ used'.crashes = used.crashes + 1
      /\ used'.events = used.events + 1
  BY <1>1, <1>2, <1>3 DEF Uses
<1> QED
  BY <1>1, <1>4 DEF Counted, Uses

(* Runs are counted apart from events.                                       *)
LEMMA RunsCounted ==
  ASSUME TypeOK, Counted, NEW n \in Nat, used.runs + n <= MaxRuns,
         used' = [used EXCEPT !.runs = @ + n]
  PROVE  /\ used' \in Uses /\ Counted'
         /\ used'.faults = used.faults /\ used'.crashes = used.crashes
<1>1. used \in Uses /\ MaxEvents \in Nat /\ MaxRuns \in Nat
  BY EvaluationsAssumption DEF TypeOK, Uses
<1>2. used.runs + n \in 0..MaxRuns
  BY <1>1 DEF Uses
<1>3. used' \in Uses /\ used'.faults = used.faults /\ used'.crashes = used.crashes
      /\ used'.events = used.events
  BY <1>1, <1>2 DEF Uses
<1> QED
  BY <1>1, <1>3 DEF Counted, Uses

-----------------------------------------------------------------------------
(* What every step keeps, and how one request goes on.                       *)
Grown ==
  /\ Known \subseteq Known' /\ RunsGrow(runs, runs') /\ PairsKept(results, results')
  /\ Len(sessions) \in Nat /\ Len(sessions') \in Nat /\ Len(sessions) <= Len(sessions')

(* A table left alone has grown by nothing.                                  *)
LEMMA SameGrown ==
  ASSUME TypeOK
  PROVE  /\ runs' = runs => RunsGrow(runs, runs')
         /\ results' = results => PairsKept(results, results')
         /\ cases' = cases => Known' = Known
         /\ sessions' = sessions => Len(sessions') = Len(sessions)
         /\ Len(sessions) \in Nat /\ Len(runs) \in Nat /\ RunsGrow(runs, runs)
<1>1. Len(sessions) \in Nat /\ Len(runs) \in Nat
  BY DEF TypeOK
<1>2. RunsGrow(runs, runs) /\ PairsKept(results, results)
  BY <1>1 DEF RunsGrow, PairsKept, SamePair
<1>3. cases' = cases => Known' = Known
  BY DEF Known
<1>4. runs' = runs => RunsGrow(runs, runs')
  BY <1>2
<1>5. results' = results => PairsKept(results, results')
  BY <1>2
<1> QED
  BY <1>1, <1>2, <1>3, <1>4, <1>5

Others(w) == \A v \in Workers : v # w => worker'[v] = worker[v]
Goes(w, pc, items, session, run, outcome) ==
  /\ worker' \in [Workers -> Worker] /\ Others(w)
  /\ Stage(worker[w], worker'[w], pc, items, session, run, outcome)

(* The locals of one request after a step that writes its session and run.   *)
LEMMA RunGoes ==
  ASSUME TypeOK, NEW w \in Workers, NEW pc \in Pcs, NEW session \in Nat, NEW run \in Nat,
         worker' = [worker EXCEPT ![w].pc = pc, ![w].session = session, ![w].run = run]
  PROVE  Goes(w, pc, worker[w].items, session, run, worker[w].outcome)
<1> DEFINE m == [worker[w] EXCEPT !.pc = pc, !.session = session, !.run = run]
<1>1. worker \in [Workers -> Worker] /\ worker[w] \in Worker
  BY DEF TypeOK
<1>2. worker'[w] = m /\ Others(w) /\ worker' = [worker EXCEPT ![w] = m]
  BY <1>1 DEF Others
<1>3. m \in Worker /\ Stage(worker[w], m, pc, worker[w].items, session, run, worker[w].outcome)
  BY <1>1, RunWritten
<1> HIDE DEF m
<1> QED
  BY <1>1, <1>2, <1>3 DEF Goes

(* After one that writes its outcome.                                        *)
LEMMA OutcomeGoes ==
  ASSUME TypeOK, NEW w \in Workers, NEW pc \in Pcs, NEW outcome \in Item \cup {None},
         worker' = [worker EXCEPT ![w].pc = pc, ![w].outcome = outcome]
  PROVE  Goes(w, pc, worker[w].items, worker[w].session, worker[w].run, outcome)
<1> DEFINE m == [worker[w] EXCEPT !.pc = pc, !.outcome = outcome]
<1>1. worker \in [Workers -> Worker] /\ worker[w] \in Worker
  BY DEF TypeOK
<1>2. worker'[w] = m /\ Others(w) /\ worker' = [worker EXCEPT ![w] = m]
  BY <1>1 DEF Others
<1>3. m \in Worker /\ Stage(worker[w], m, pc, worker[w].items, worker[w].session,
                            worker[w].run, outcome)
  BY <1>1, OutcomeWritten
<1> HIDE DEF m
<1> QED
  BY <1>1, <1>2, <1>3 DEF Goes

(* After one that writes its session and outcome.                            *)
LEMMA SessionGoes ==
  ASSUME TypeOK, NEW w \in Workers, NEW pc \in Pcs, NEW session \in Nat,
         NEW outcome \in Item \cup {None},
         worker' = [worker EXCEPT ![w].pc = pc, ![w].session = session,
                                  ![w].outcome = outcome]
  PROVE  Goes(w, pc, worker[w].items, session, worker[w].run, outcome)
<1> DEFINE m == [worker[w] EXCEPT !.pc = pc, !.session = session, !.outcome = outcome]
<1>1. worker \in [Workers -> Worker] /\ worker[w] \in Worker
  BY DEF TypeOK
<1>2. worker'[w] = m /\ Others(w) /\ worker' = [worker EXCEPT ![w] = m]
  BY <1>1 DEF Others
<1>3. m \in Worker /\ Stage(worker[w], m, pc, worker[w].items, session,
                            worker[w].run, outcome)
  BY <1>1, SessionWritten
<1> HIDE DEF m
<1> QED
  BY <1>1, <1>2, <1>3 DEF Goes

(* After one that files an item.                                             *)
LEMMA ItemGoes ==
  ASSUME TypeOK, NEW w \in Workers, NEW item \in Item,
         worker' = [worker EXCEPT ![w] = WithItem(w, item)]
  PROVE  Goes(w, "next", Append(worker[w].items, item), 0, 0, None)
<1>1. worker \in [Workers -> Worker]
  BY DEF TypeOK
<1> QED
  BY <1>1, ItemWritten DEF Goes, Others

(* An item is typed, and says what it says.                                  *)
LEMMA ItemMade ==
  ASSUME TypeOK, NEW w \in Workers, Len(worker[w].inputs) = Len(worker[w].case_ids),
         Len(worker[w].items) < Len(worker[w].case_ids),
         NEW run \in Nat, NEW passed \in BOOLEAN, NEW error \in BOOLEAN
  PROVE  LET item == NewItem(w, run, passed, error)
         IN /\ item \in Item
            /\ item.case = worker[w].case_ids[Len(worker[w].items) + 1]
            /\ item.run = run /\ item.passed = passed /\ item.error = error
            /\ ThisCase(w) = worker[w].case_ids[Len(worker[w].items) + 1]
            /\ Len(worker[w].items) + 1 \in DOMAIN worker[w].case_ids
<1>1. /\ worker[w].items \in Seq(Item) /\ worker[w].case_ids \in Seq(Cases)
      /\ worker[w].inputs \in Seq(Inputs)
  BY DEF TypeOK, Worker
<1> DEFINE p == Len(worker[w].items) + 1
<1>2. p \in DOMAIN worker[w].case_ids /\ p \in DOMAIN worker[w].inputs
  BY <1>1
<1>3. worker[w].case_ids[p] \in Cases /\ worker[w].inputs[p] \in Inputs
  BY <1>1, <1>2
<1> QED
  BY <1>2, <1>3 DEF NewItem, Item, ThisCase, Position

(* The error of an item, whatever the tables: it names the case the request  *)
(* is at, and no run.                                                        *)
LEMMA ErrorMade ==
  ASSUME TypeOK, NEW w \in Workers, Len(worker[w].inputs) = Len(worker[w].case_ids),
         Len(worker[w].items) < Len(worker[w].case_ids)
  PROVE  /\ ErrorItem(w) \in Item
         /\ ErrorItem(w).case = worker[w].case_ids[Len(worker[w].items) + 1]
         /\ ErrorItem(w).run = 0
         /\ \A R, Q : Verdict(ErrorItem(w), R, Q)
  BY ItemMade, ZenonT(60) DEF ErrorItem, Verdict

(* A worker without a request meets every condition on locals.               *)
LEMMA IdleTyped ==
  /\ Idle \in Worker /\ Idle.pc = "idle" /\ Idle.items = <<>> /\ Idle.run = 0
  /\ Idle.session = 0 /\ Idle.case_ids = <<>> /\ Idle.inputs = <<>>
  /\ \A K, R, Q : \A n \in Nat : Len(R) \in Nat => LocalsOK(Idle, K, R, Q, n)
<1>1. <<>> \in Seq(Cases) /\ <<>> \in Seq(Inputs) /\ <<>> \in Seq(Item)
  OBVIOUS
<1>2. /\ Idle.pc = "idle" /\ Idle.items = <<>> /\ Idle.run = 0
      /\ Idle.session = 0 /\ Idle.case_ids = <<>> /\ Idle.inputs = <<>>
  BY DEF Idle
<1>3. Idle \in Worker
  BY <1>1 DEF Idle, Worker
<1>4. \A K, R, Q : \A n \in Nat : Len(R) \in Nat => LocalsOK(Idle, K, R, Q, n)
  BY <1>2 DEF LocalsOK, ItemsFor, Begun
<1> QED
  BY <1>2, <1>3, <1>4

(* One request changes, in a way that keeps its locals sound.                *)
LEMMA RequestsKept ==
  ASSUME TypeOK, Requests, Grown, NEW w \in Workers, Others(w),
         worker' \in [Workers -> Worker],
         LocalsOK(worker'[w], Known', runs', results', Len(sessions')),
         \A v \in Workers : v # w /\ worker[v].pc = "turn" => runs'[worker[v].run] = None
  PROVE  Requests'
<1> SUFFICES ASSUME NEW v \in Workers
             PROVE  LocalsOK(worker'[v], Known', runs', results', Len(sessions'))
  BY DEF Requests
<1>1. CASE v = w
  BY <1>1
<1>2. CASE v # w
  <2>1. worker'[v] = worker[v] /\ worker[v] \in Worker
    BY <1>2 DEF Others, TypeOK
  <2>2. LocalsOK(worker[v], Known, runs, results, Len(sessions))
    BY DEF Requests
  <2>3. worker[v].pc = "turn" => runs'[worker[v].run] = None
    BY <1>2
  <2> QED
    BY <2>1, <2>2, <2>3, LocalsKept DEF Grown
<1> QED
  BY <1>1, <1>2

(* No request changes.                                                       *)
LEMMA RequestsStay ==
  ASSUME TypeOK, Requests, Grown, UNCHANGED worker, UNCHANGED runs
  PROVE  Requests'
<1> SUFFICES ASSUME NEW v \in Workers
             PROVE  LocalsOK(worker[v], Known', runs', results', Len(sessions'))
  BY DEF Requests
<1>1. LocalsOK(worker[v], Known, runs, results, Len(sessions)) /\ worker[v] \in Worker
  BY DEF Requests, TypeOK
<1>2. worker[v].pc = "turn" => runs'[worker[v].run] = None
  BY <1>1 DEF LocalsOK
<1> QED
  BY <1>1, <1>2, LocalsKept DEF Grown

-----------------------------------------------------------------------------
(* Types, definitions and requests, action by action.                        *)
Base == TypeOK /\ Counted /\ Definitions /\ Requests /\ Claims /\ Results
BaseKept == TypeOK' /\ Counted' /\ Definitions' /\ Grown /\ Requests'

(* What only some tables change, typed.                                      *)
LEMMA DefinitionsStay ==
  ASSUME TypeOK, Definitions, UNCHANGED definitions
  PROVE  Definitions' /\ Known' = Known
         /\ cases' = cases /\ suites' = suites
  BY DEF Definitions, definitions, Known

(* A case stored or replaced keeps every suite a list of known cases.        *)
LEMMA PutCaseKeeps ==
  ASSUME Base, NEW c \in Cases, NEW input \in Inputs, PutCase(c, input)
  PROVE  BaseKept
<1> USE DEF Base
<1>1. /\ cases' = [cases EXCEPT ![c] = input] /\ ValidExpectations(input.expectations)
      /\ UNCHANGED <<suites, results, suite_runs, runs, sessions, worker>> /\ Happens
  BY DEF PutCase, Edited
<1>2. used' \in Uses /\ Counted'
  BY <1>1, EventCounted
<1>3. cases' \in [Cases -> Inputs \cup {None}] /\ cases \in [Cases -> Inputs \cup {None}]
  BY <1>1 DEF TypeOK
<1>4. TypeOK'
  BY <1>1, <1>2, <1>3 DEF TypeOK, Uses
<1>5. Known' = Known \cup {c}
  BY <1>1, <1>3, EvaluationsAssumption DEF Known
<1>6. \A d \in Known' : ValidExpectations(cases'[d].expectations)
  BY <1>1, <1>3, <1>5 DEF Definitions, Known
<1>7. Definitions'
  BY <1>1, <1>5, <1>6 DEF Definitions
<1>8. Grown
  BY <1>1, <1>5, SameGrown DEF Grown
<1>9. Requests'
  BY <1>1, <1>8, RequestsStay
<1> QED
  BY <1>2, <1>4, <1>7, <1>8, <1>9 DEF BaseKept

(* A suite stored or replaced names known cases.                             *)
LEMMA PutSuiteKeeps ==
  ASSUME Base, NEW s \in Suites, NEW case_ids \in CaseIds(Known), PutSuite(s, case_ids)
  PROVE  BaseKept
<1> USE DEF Base
<1>1. /\ suites' = [suites EXCEPT ![s] = case_ids]
      /\ UNCHANGED <<cases, results, suite_runs, runs, sessions, worker>> /\ Happens
  BY DEF PutSuite, Edited
<1>2. used' \in Uses /\ Counted'
  BY <1>1, EventCounted
<1>3. /\ case_ids \in Seq(Cases)
      /\ \A i \in DOMAIN case_ids : case_ids[i] \in Known
  <2>1. Known \in SUBSET Cases
    BY DEF Known
  <2> QED
    BY <2>1, CaseIdsFacts
<1>4. TypeOK'
  BY <1>1, <1>2, <1>3 DEF TypeOK, Uses
<1>5. Known' = Known
  BY <1>1 DEF Known
<1>6. \A t \in Suites : \A i \in DOMAIN suites'[t] : suites'[t][i] \in Known
  BY <1>1, <1>3 DEF Definitions, TypeOK
<1>7. Definitions'
  BY <1>1, <1>5, <1>6 DEF Definitions
<1>8. Grown
  BY <1>1, <1>5, SameGrown DEF Grown
<1>9. Requests'
  BY <1>1, <1>8, RequestsStay
<1> QED
  BY <1>2, <1>4, <1>7, <1>8, <1>9 DEF BaseKept

(* A saved row.                                                              *)
LEMMA RowSaved ==
  ASSUME Base, NEW row \in Result, results' = Saved(row)
  PROVE  /\ Upserted(results', row) /\ results' \in Seq(Result)
         /\ PairsKept(results, results')
<1>1. Upserted(results', row)
  BY SavedUpserts DEF Base, Results
<1> QED
  BY <1>1 DEF Upserted, PairsKept, SamePair

(* A result saved by hand, for a run that has ended, keeps what requests and *)
(* items say of results.                                                     *)
LEMMA EvaluateRunKeeps ==
  ASSUME Base, NEW c \in Cases, NEW r \in DOMAIN runs, EvaluateRun(c, r)
  PROVE  BaseKept
<1> USE DEF Base
<1> DEFINE row == Evaluated(c, r, runs[r])
<1>1. /\ results' = Saved(row) /\ c \in Known /\ Happens
      /\ UNCHANGED <<definitions, suite_runs, runs, sessions, worker>>
  BY DEF EvaluateRun
<1>2. used' \in Uses /\ Counted'
  BY <1>1, EventCounted
<1>3. row \in Result
  <2>1. r \in Nat
    BY DEF TypeOK
  <2> QED
    BY <1>1, <2>1, EvaluatedFacts
<1> HIDE DEF row
<1>4. results' \in Seq(Result) /\ PairsKept(results, results')
  BY <1>1, <1>3, RowSaved
<1>5. Definitions' /\ Known' = Known /\ cases' = cases /\ suites' = suites
  BY <1>1, DefinitionsStay
<1>6. TypeOK'
  BY <1>1, <1>2, <1>4, <1>5 DEF TypeOK, Uses
<1>7. Grown
  BY <1>1, <1>4, <1>5, SameGrown DEF Grown
<1>8. Requests'
  BY <1>1, <1>7, RequestsStay
<1> QED
  BY <1>2, <1>5, <1>6, <1>7, <1>8 DEF BaseKept

(* Idle with four of its fields written, one after the other.                *)
LEMMA IdleWritten ==
  ASSUME NEW suite, NEW case_ids, NEW inputs
  PROVE  [Idle EXCEPT !.pc = "next", !.suite = suite, !.case_ids = case_ids,
                      !.inputs = inputs] =
           [pc |-> "next", suite |-> suite, case_ids |-> case_ids,
            inputs |-> inputs, items |-> <<>>, session |-> 0, run |-> 0,
            outcome |-> None]
<1> DEFINE r(a, b, c, d) == [pc |-> a, suite |-> b, case_ids |-> c, inputs |-> d,
                             items |-> <<>>, session |-> 0, run |-> 0, outcome |-> None]
           r0 == r("idle", None, <<>>, <<>>)
           r1 == r("next", None, <<>>, <<>>)
           r2 == r("next", suite, <<>>, <<>>)
           r3 == r("next", suite, case_ids, <<>>)
           r4 == r("next", suite, case_ids, inputs)
<1>1. Idle = r0
  BY DEF Idle
<1>2. [r0 EXCEPT !.pc = "next"] = r1
  OBVIOUS
<1>3. [r1 EXCEPT !.suite = suite] = r2
  OBVIOUS
<1>4. [r2 EXCEPT !.case_ids = case_ids] = r3
  OBVIOUS
<1>5. [r3 EXCEPT !.inputs = inputs] = r4
  OBVIOUS
<1> HIDE DEF r0, r1, r2, r3
<1> QED
  BY <1>1, <1>2, <1>3, <1>4, <1>5, Zenon

(* A request begins, with cases that exist.                                  *)
LEMMA BeginKeeps ==
  ASSUME Base, NEW w \in Workers, NEW suite \in Suites \cup {None},
         NEW case_ids \in Seq(Cases), \A i \in DOMAIN case_ids : case_ids[i] \in Known,
         Begin(w, suite, case_ids)
  PROVE  /\ BaseKept /\ Others(w) /\ worker[w].pc = "idle"
         /\ worker'[w].items = <<>> /\ worker'[w].run = 0
         /\ UNCHANGED <<used.faults, used.crashes>>
<1> USE DEF Base
<1> DEFINE inputs == [i \in DOMAIN case_ids |-> cases[case_ids[i]]]
           m == [pc |-> "next", suite |-> suite, case_ids |-> case_ids,
                 inputs |-> inputs, items |-> <<>>, session |-> 0, run |-> 0,
                 outcome |-> None]
<1>0. [Idle EXCEPT !.pc = "next", !.suite = suite, !.case_ids = case_ids,
                   !.inputs = inputs] = m
  BY IdleWritten
<1>1. /\ worker' = [worker EXCEPT ![w] = m]
      /\ UNCHANGED <<definitions, results, suite_runs, runs, sessions>>
      /\ used.runs + Len(case_ids) <= MaxRuns
      /\ used' = [used EXCEPT !.runs = @ + Len(case_ids)]
  <2>1. worker' = [worker EXCEPT ![w] =
          [Idle EXCEPT !.pc = "next", !.suite = suite, !.case_ids = case_ids,
                       !.inputs = inputs]]
    BY DEF Begin
  <2> HIDE DEF inputs, m
  <2> QED
    BY <1>0, <2>1 DEF Begin
<1>2. inputs \in Seq(Inputs) /\ Len(inputs) = Len(case_ids) /\ Len(case_ids) \in Nat
  <2>1. \A i \in DOMAIN case_ids : cases[case_ids[i]] \in Inputs
    BY DEF Known, TypeOK
  <2>2. inputs \in [1..Len(case_ids) -> Inputs] /\ Len(case_ids) \in Nat
    BY <2>1
  <2> HIDE DEF inputs
  <2> QED
    BY <2>2
<1>3. used' \in Uses /\ Counted'
  BY <1>1, <1>2, RunsCounted
<1> HIDE DEF inputs
<1>4. m \in Worker
  <2>1. <<>> \in Seq(Item) /\ 0 \in Nat
    OBVIOUS
  <2> QED
    BY <1>2, <2>1 DEF Worker
<1>5. /\ m.pc = "next" /\ m.case_ids = case_ids /\ m.inputs = inputs /\ m.items = <<>>
      /\ m.session = 0 /\ m.run = 0
  OBVIOUS
<1> HIDE DEF m
<1>6. /\ worker' \in [Workers -> Worker] /\ worker'[w] = m /\ Others(w)
  BY <1>1, <1>4 DEF TypeOK, Others
<1>7. Definitions' /\ Known' = Known /\ cases' = cases /\ suites' = suites
  BY <1>1, DefinitionsStay
<1>8. TypeOK'
  BY <1>1, <1>3, <1>6, <1>7 DEF TypeOK, Uses
<1>9. Grown
  BY <1>1, <1>7, SameGrown DEF Grown
<1>10. LocalsOK(m, Known, runs, results, Len(sessions))
  <2>1. Len(runs) \in Nat
    BY SameGrown
  <2> QED
    BY <1>2, <1>5, <2>1 DEF LocalsOK, ItemsFor, Begun
<1>11. \A v \in Workers : worker[v].pc = "turn" => runs'[worker[v].run] = None
  BY <1>1 DEF Requests, LocalsOK
<1>12. Requests'
  BY <1>1, <1>6, <1>7, <1>9, <1>10, <1>11, RequestsKept
<1>13. BaseKept
  BY <1>3, <1>7, <1>8, <1>9, <1>12 DEF BaseKept
<1> QED
  BY <1>2, <1>1, <1>5, <1>6, <1>13, RunsCounted DEF Begin

-----------------------------------------------------------------------------
(* The sessions.                                                             *)

(* A session just made, with and without its row, is typed.                  *)
LEMMA SessionMade ==
  /\ NewSession \in Session
  /\ NewSession.live /\ NewSession.open /\ NewSession.deleting = {}
  /\ NewSession.raised = FALSE
  /\ [NewSession EXCEPT !.stored = FALSE] \in Session
  /\ [NewSession EXCEPT !.stored = FALSE].live
  BY DEF NewSession, Session, Deleters

(* What delete() does at once: somebody will close an open session.          *)
LEMMA DeletionBegun ==
  ASSUME NEW session \in Session, NEW d \in Deleters, NEW inTurn, NEW u,
         session.open => session.live \/ session.closer \in session.deleting
  PROVE  /\ DeleteBegun(session, d) \in Session
         /\ SessionOK(DeleteBegun(session, d), inTurn, u)
<1> DEFINE deleting == session.deleting \cup {d}
           closer == IF session.live THEN d ELSE session.closer
           a == [session EXCEPT !.live = FALSE]
           b == [a EXCEPT !.deleting = deleting]
           c == [b EXCEPT !.closer = closer]
<1>1. deleting \in SUBSET Deleters /\ closer \in Deleters \cup {None}
  BY DEF Session
<1>2. DeleteBegun(session, d) = c
  BY DEF DeleteBegun
<1>3. d \in deleting /\ session.deleting \subseteq deleting
      /\ (session.live => closer = d) /\ (~session.live => closer = session.closer)
  OBVIOUS
<1> HIDE DEF deleting, closer
<1>4. a \in Session /\ ~a.live /\ a.open = session.open
  BY DEF Session
<1> HIDE DEF a
<1>5. b \in Session /\ ~b.live /\ b.open = session.open /\ b.deleting = deleting
  BY <1>1, <1>4 DEF Session
<1> HIDE DEF b
<1>6. /\ c \in Session /\ ~c.live /\ c.open = session.open /\ c.deleting = deleting
      /\ c.closer = closer
  BY <1>1, <1>5 DEF Session
<1> HIDE DEF c
<1> QED
  BY <1>2, <1>3, <1>6 DEF SessionOK

(* Faults and crashes are not forgotten.                                     *)
Later == /\ used'.faults = 0 => used.faults = 0
         /\ used'.faults + used'.crashes = 0 => used.faults + used.crashes = 0

(* Each session stays as it was, in a turn if it was in one, or is sound.    *)
LEMMA SessionsFollow ==
  ASSUME SessionsOK, Later,
         \A s \in DOMAIN sessions' :
           \/ /\ s \in DOMAIN sessions /\ sessions'[s] = sessions[s]
              /\ InTurn(s) => InTurn(s)'
           \/ SessionOK(sessions'[s], InTurn(s)', used')
  PROVE  SessionsOK'
<1> SUFFICES ASSUME NEW s \in DOMAIN sessions'
             PROVE  SessionOK(sessions'[s], InTurn(s)', used')
  BY DEF SessionsOK
<1>1. CASE /\ s \in DOMAIN sessions /\ sessions'[s] = sessions[s]
           /\ InTurn(s) => InTurn(s)'
  <2>1. SessionOK(sessions[s], InTurn(s), used)
    BY <1>1 DEF SessionsOK
  <2> QED
    BY <1>1, <2>1 DEF SessionOK, Later
<1> QED
  BY <1>1

(* A request that goes on leaves the sessions of other turns in theirs.      *)
LEMMA InTurnKept ==
  ASSUME NEW w \in Workers, Others(w), NEW s,
         worker[w].pc = "turn" => worker[w].session # s,
         InTurn(s)
  PROVE  InTurn(s)'
<1>1. PICK v \in Workers : worker[v].pc = "turn" /\ worker[v].session = s
  BY DEF InTurn
<1>2. worker'[v] = worker[v]
  BY <1>1 DEF Others
<1> QED
  BY <1>1, <1>2 DEF InTurn

(* No session changes, and the request that does is in no turn.              *)
LEMMA SessionsStay ==
  ASSUME SessionsOK, Later, UNCHANGED sessions, NEW w \in Workers, Others(w),
         worker[w].pc # "turn"
  PROVE  SessionsOK'
<1>1. \A s \in DOMAIN sessions' : InTurn(s) => InTurn(s)'
  BY InTurnKept
<1> QED
  BY <1>1, SessionsFollow

(* A session is added.                                                       *)
LEMMA SessionAdded ==
  ASSUME TypeOK, SessionsOK, Later, NEW w \in Workers, Others(w),
         worker[w].pc # "turn", NEW x \in Session,
         sessions' = Append(sessions, x),
         NEW n, n = Len(sessions) + 1, SessionOK(x, InTurn(n)', used')
  PROVE  /\ sessions' \in Seq(Session) /\ Len(sessions') = Len(sessions) + 1
         /\ SessionsOK'
<1>1. /\ sessions' \in Seq(Session) /\ Len(sessions') = Len(sessions) + 1
      /\ Len(sessions) \in Nat /\ DOMAIN sessions = 1..Len(sessions)
      /\ DOMAIN sessions' = 1..(Len(sessions) + 1)
      /\ \A i \in 1..Len(sessions) : sessions'[i] = sessions[i]
      /\ sessions'[Len(sessions) + 1] = x
  BY AppendFacts DEF TypeOK
<1>2. ASSUME NEW s \in DOMAIN sessions'
      PROVE  \/ /\ s \in DOMAIN sessions /\ sessions'[s] = sessions[s]
                /\ InTurn(s) => InTurn(s)'
             \/ SessionOK(sessions'[s], InTurn(s)', used')
  <2>1. CASE s \in 1..Len(sessions)
    BY <1>1, <2>1, InTurnKept
  <2>2. CASE s = n
    <3>1. sessions'[s] = x
      BY <1>1, <2>2
    <3> QED
      BY <2>2, <3>1
  <2> QED
    BY <1>1, <2>1, <2>2
<1> QED
  BY <1>1, <1>2, SessionsFollow

(* A session is written, and the request that goes on was in no other.       *)
LEMMA SessionChanged ==
  ASSUME TypeOK, SessionsOK, Later, NEW s \in DOMAIN sessions, NEW x \in Session,
         sessions' = [sessions EXCEPT ![s] = x],
         SessionOK(x, InTurn(s)', used'),
         \A t \in DOMAIN sessions : t # s /\ InTurn(t) => InTurn(t)'
  PROVE  sessions' \in Seq(Session) /\ Len(sessions') = Len(sessions) /\ SessionsOK'
<1>1. /\ sessions' \in Seq(Session) /\ Len(sessions') = Len(sessions)
      /\ DOMAIN sessions' = DOMAIN sessions
      /\ sessions'[s] = x /\ \A t \in DOMAIN sessions : t # s => sessions'[t] = sessions[t]
  BY DEF TypeOK
<1>2. \A t \in DOMAIN sessions' :
        \/ /\ t \in DOMAIN sessions /\ sessions'[t] = sessions[t]
           /\ InTurn(t) => InTurn(t)'
        \/ SessionOK(sessions'[t], InTurn(t)', used')
  BY <1>1
<1> QED
  BY <1>1, <1>2, SessionsFollow

-----------------------------------------------------------------------------
(* The runs that requests hold, and those that are filed.                    *)

(* They are runs of the table.                                               *)
LEMMA HeldInTable ==
  ASSUME TypeOK, Requests
  PROVE  \A w \in Workers : \A i \in Holders(worker[w]) :
           Held(worker[w], i) \in 0..Len(runs)
<1> SUFFICES ASSUME NEW w \in Workers, NEW i \in Holders(worker[w])
             PROVE  Held(worker[w], i) \in 0..Len(runs)
  OBVIOUS
<1>1. LocalsOK(worker[w], Known, runs, results, Len(sessions))
  BY DEF Requests
<1>2. worker[w].items \in Seq(Item) /\ DOMAIN runs = 1..Len(runs) /\ Len(runs) \in Nat
  BY DEF TypeOK, Worker
<1>3. CASE i = 0
  BY <1>1, <1>3 DEF LocalsOK, Held
<1>4. CASE i # 0
  <2>1. i \in DOMAIN worker[w].items
    BY <1>2, <1>4 DEF Holders
  <2>2. Verdict(worker[w].items[i], runs, results)
    BY <1>1, <2>1 DEF LocalsOK, ItemsFor
  <2>3. worker[w].items[i].run \in 0..Len(runs)
    BY <1>2, <2>2 DEF Verdict, Judged
  <2> QED
    BY <1>4, <2>3 DEF Held
<1> QED
  BY <1>3, <1>4

(* The run filed in an item of a suite run is 0 or in the table.             *)
LEMMA FiledInTable ==
  ASSUME TypeOK, SuiteRuns
  PROVE  \A k \in DOMAIN suite_runs : \A j \in Places(suite_runs[k]) :
           Filed(suite_runs[k], j) \in 0..Len(runs)
<1> SUFFICES ASSUME NEW k \in DOMAIN suite_runs, NEW j \in Places(suite_runs[k])
             PROVE  Filed(suite_runs[k], j) \in 0..Len(runs)
  OBVIOUS
<1>1. Verdict(suite_runs[k].items[j], runs, results)
  BY DEF SuiteRuns, SuiteRunOK, ItemsFor, Places
<1>2. DOMAIN runs = 1..Len(runs) /\ Len(runs) \in Nat
  BY DEF TypeOK
<1> QED
  BY <1>1, <1>2 DEF Verdict, Judged, Filed

(* A run is held or filed once.                                              *)
LEMMA HeldOnce ==
  ASSUME Claims, NEW r, Taken(r),
         NEW u \in Workers, NEW i \in Holders(worker[u]), r = Held(worker[u], i),
         NEW v \in Workers, NEW j \in Holders(worker[v]), r = Held(worker[v], j)
  PROVE  u = v /\ i = j
  BY DEF Claims

(* A run that a request holds is filed in no suite run.                      *)
LEMMA HeldNotFiled ==
  ASSUME Claims, NEW r, Taken(r),
         NEW u \in Workers, NEW i \in Holders(worker[u]), r = Held(worker[u], i),
         NEW k \in DOMAIN suite_runs, NEW j \in Places(suite_runs[k])
  PROVE  r # Filed(suite_runs[k], j)
  BY DEF Claims

(* A run is filed in one place.                                              *)
LEMMA FiledOnce ==
  ASSUME Claims, NEW r, Taken(r),
         NEW k \in DOMAIN suite_runs, NEW i \in Places(suite_runs[k]),
         r = Filed(suite_runs[k], i),
         NEW l \in DOMAIN suite_runs, NEW j \in Places(suite_runs[l]),
         r = Filed(suite_runs[l], j)
  PROVE  k = l /\ i = j
  BY DEF Claims

(* It suffices to look at the runs that are held or filed.                   *)
LEMMA ClaimsFollow ==
  ASSUME ASSUME NEW r, Taken(r), NEW u \in Workers, NEW i \in Holders(worker'[u]),
                r = Held(worker'[u], i)
         PROVE  /\ \A v \in Workers : \A j \in Holders(worker'[v]) :
                     r = Held(worker'[v], j) => u = v /\ i = j
                /\ \A k \in DOMAIN suite_runs' : \A j \in Places(suite_runs'[k]) :
                     r # Filed(suite_runs'[k], j),
         ASSUME NEW r, Taken(r), NEW k \in DOMAIN suite_runs',
                NEW i \in Places(suite_runs'[k]), r = Filed(suite_runs'[k], i)
         PROVE  \A l \in DOMAIN suite_runs' : \A j \in Places(suite_runs'[l]) :
                  r = Filed(suite_runs'[l], j) => k = l /\ i = j
  PROVE  Claims'
<1>1. ASSUME NEW u \in Workers, NEW v \in Workers, NEW i \in Holders(worker'[u]),
             NEW j \in Holders(worker'[v]), Taken(Held(worker'[u], i)),
             Held(worker'[u], i) = Held(worker'[v], j)
      PROVE  u = v /\ i = j
  BY <1>1
<1>2. ASSUME NEW u \in Workers, NEW k \in DOMAIN suite_runs',
             NEW i \in Holders(worker'[u]), NEW j \in Places(suite_runs'[k]),
             Taken(Held(worker'[u], i))
      PROVE  Held(worker'[u], i) # Filed(suite_runs'[k], j)
  BY <1>2
<1>3. ASSUME NEW k \in DOMAIN suite_runs', NEW l \in DOMAIN suite_runs',
             NEW i \in Places(suite_runs'[k]), NEW j \in Places(suite_runs'[l]),
             Taken(Filed(suite_runs'[k], i)),
             Filed(suite_runs'[k], i) = Filed(suite_runs'[l], j)
      PROVE  k = l /\ i = j
  BY <1>3
<1> QED
  BY <1>1, <1>2, <1>3 DEF Claims

(* What a request holds it already held, each run once.                      *)
LEMMA ClaimsKept ==
  ASSUME Claims, UNCHANGED suite_runs, NEW w \in Workers, Others(w), NEW f,
         \A i \in Holders(worker'[w]) : Taken(Held(worker'[w], i)) =>
           f[i] \in Holders(worker[w]) /\ Held(worker'[w], i) = Held(worker[w], f[i]),
         \A i, j \in Holders(worker'[w]) :
           Taken(Held(worker'[w], i)) /\ Taken(Held(worker'[w], j)) /\ f[i] = f[j] => i = j
  PROVE  Claims'
<1>1. ASSUME NEW u \in Workers, NEW v \in Workers,
             NEW i \in Holders(worker'[u]), NEW j \in Holders(worker'[v]),
             Taken(Held(worker'[u], i)), Held(worker'[u], i) = Held(worker'[v], j)
      PROVE  u = v /\ i = j
  <2>1. \A x \in Workers : x # w => worker'[x] = worker[x]
    BY DEF Others
  <2>2. CASE u = w /\ v = w
    <3>1. /\ f[i] \in Holders(worker[w]) /\ f[j] \in Holders(worker[w])
          /\ Taken(Held(worker[w], f[i])) /\ Held(worker[w], f[i]) = Held(worker[w], f[j])
      BY <1>1, <2>2
    <3>2. f[i] = f[j]
      BY <3>1 DEF Claims
    <3> QED
      BY <1>1, <2>2, <3>2
  <2>3. CASE u = w /\ v # w
    <3>1. /\ f[i] \in Holders(worker[w]) /\ j \in Holders(worker[v])
          /\ Taken(Held(worker[w], f[i])) /\ Held(worker[w], f[i]) = Held(worker[v], j)
      BY <1>1, <2>1, <2>3
    <3> QED
      BY <2>3, <3>1 DEF Claims
  <2>4. CASE u # w /\ v = w
    <3>1. /\ i \in Holders(worker[u]) /\ f[j] \in Holders(worker[w])
          /\ Taken(Held(worker[u], i)) /\ Held(worker[u], i) = Held(worker[w], f[j])
      BY <1>1, <2>1, <2>4
    <3> QED
      BY <2>4, <3>1 DEF Claims
  <2>5. CASE u # w /\ v # w
    <3>1. /\ i \in Holders(worker[u]) /\ j \in Holders(worker[v])
          /\ Taken(Held(worker[u], i)) /\ Held(worker[u], i) = Held(worker[v], j)
      BY <1>1, <2>1, <2>5
    <3> QED
      BY <3>1 DEF Claims
  <2> QED
    BY <2>2, <2>3, <2>4, <2>5
<1>2. ASSUME NEW u \in Workers, NEW k \in DOMAIN suite_runs,
             NEW i \in Holders(worker'[u]), NEW j \in Places(suite_runs[k]),
             Taken(Held(worker'[u], i))
      PROVE  Held(worker'[u], i) # Filed(suite_runs[k], j)
  <2>1. CASE u = w
    <3>1. /\ f[i] \in Holders(worker[w]) /\ Taken(Held(worker[w], f[i]))
          /\ Held(worker'[w], i) = Held(worker[w], f[i])
      BY <1>2, <2>1
    <3>2. Held(worker[w], f[i]) # Filed(suite_runs[k], j)
      BY <3>1 DEF Claims
    <3> QED
      BY <2>1, <3>1, <3>2
  <2>2. CASE u # w
    <3>1. worker'[u] = worker[u]
      BY <2>2 DEF Others
    <3> QED
      BY <1>2, <3>1 DEF Claims
  <2> QED
    BY <2>1, <2>2
<1> QED
  BY <1>1, <1>2 DEF Claims

(* A request with the same items goes on with the same run, or with none.    *)
LEMMA ClaimsSame ==
  ASSUME Claims, UNCHANGED suite_runs, NEW w \in Workers, Others(w),
         worker'[w].items = worker[w].items,
         worker'[w].run \in {0, worker[w].run}
  PROVE  Claims'
<1> DEFINE f == [i \in Holders(worker[w]) |-> i]
<1>1. Holders(worker'[w]) = Holders(worker[w])
  BY DEF Holders
<1>2. \A i \in Holders(worker'[w]) : Taken(Held(worker'[w], i)) =>
        f[i] \in Holders(worker[w]) /\ Held(worker'[w], i) = Held(worker[w], f[i])
  BY <1>1 DEF Held, Taken
<1>3. \A i, j \in Holders(worker'[w]) :
        Taken(Held(worker'[w], i)) /\ Taken(Held(worker'[w], j)) /\ f[i] = f[j] => i = j
  BY <1>1
<1> HIDE DEF f
<1> QED
  BY <1>2, <1>3, ClaimsKept

(* A request without items and without a run.                                *)
LEMMA ClaimsNothing ==
  ASSUME Claims, UNCHANGED suite_runs, NEW w \in Workers, Others(w),
         worker'[w].items = <<>>, worker'[w].run = 0
  PROVE  Claims'
<1>1. \A i \in Holders(worker'[w]) : ~Taken(Held(worker'[w], i))
  BY DEF Holders, Held, Taken
<1> QED
  BY <1>1, ClaimsKept

(* The run of a request is that of its newest item, or is dropped.           *)
LEMMA ClaimsMoved ==
  ASSUME Claims, UNCHANGED suite_runs, NEW w \in Workers, Others(w),
         worker[w].items \in Seq(Item),
         NEW item \in Item, worker'[w].items = Append(worker[w].items, item),
         item.run \in {0, worker[w].run}, worker'[w].run = 0
  PROVE  Claims'
<1> DEFINE n == Len(worker[w].items)
           f == [i \in 1..(n + 1) |-> IF i = n + 1 THEN 0 ELSE i]
<1>1. /\ n \in Nat /\ Len(worker'[w].items) = n + 1
      /\ \A i \in 1..n : worker'[w].items[i] = worker[w].items[i]
      /\ worker'[w].items[n + 1] = item
  BY AppendFacts
<1>2. Holders(worker[w]) = 0..n
  BY DEF Holders
<1> HIDE DEF n
<1>3. Holders(worker'[w]) = 0..(n + 1)
  BY <1>1 DEF Holders
<1>4. ASSUME NEW i \in 0..(n + 1), Taken(Held(worker'[w], i))
      PROVE  /\ i \in 1..(n + 1)
             /\ f[i] \in 0..n /\ Held(worker'[w], i) = Held(worker[w], f[i])
  <2>1. i # 0
    BY <1>4 DEF Held, Taken
  <2>2. CASE i = n + 1
    BY <1>1, <1>4, <2>1, <2>2 DEF Held, Taken
  <2>3. CASE i # n + 1
    <3>1. i \in 1..n /\ f[i] = i
      BY <1>1, <2>1, <2>3
    <3> QED
      BY <1>1, <3>1 DEF Held
  <2> QED
    BY <2>2, <2>3
<1>5. \A i, j \in 1..(n + 1) : f[i] = f[j] => i = j
  BY <1>1
<1> HIDE DEF f
<1>6. \A i \in Holders(worker'[w]) : Taken(Held(worker'[w], i)) =>
        f[i] \in Holders(worker[w]) /\ Held(worker'[w], i) = Held(worker[w], f[i])
  BY <1>2, <1>3, <1>4
<1>7. \A i, j \in Holders(worker'[w]) :
        Taken(Held(worker'[w], i)) /\ Taken(Held(worker'[w], j)) /\ f[i] = f[j] => i = j
  BY <1>3, <1>4, <1>5
<1> QED
  BY <1>6, <1>7, ClaimsKept

(* A request takes a new run.                                                *)
LEMMA ClaimsFresh ==
  ASSUME TypeOK, Requests, SuiteRuns, Claims, UNCHANGED suite_runs,
         NEW w \in Workers, Others(w),
         worker'[w].items = worker[w].items, worker'[w].run = Len(runs) + 1
  PROVE  Claims'
<1> DEFINE fresh == Len(runs) + 1
<1>0. Len(runs) \in Nat
  BY DEF TypeOK
<1>1. fresh \notin 0..Len(runs) /\ worker'[w].run = fresh
  BY <1>0
<1> HIDE DEF fresh
<1>2. /\ \A u \in Workers : \A i \in Holders(worker[u]) : Held(worker[u], i) # fresh
      /\ \A k \in DOMAIN suite_runs : \A j \in Places(suite_runs[k]) :
           Filed(suite_runs[k], j) # fresh
  BY <1>1, HeldInTable, FiledInTable
<1>3. ASSUME NEW r, NEW u \in Workers, NEW i \in Holders(worker'[u]),
             r = Held(worker'[u], i)
      PROVE  /\ i \in Holders(worker[u])
             /\ r = Held(worker[u], i) \/ (u = w /\ i = 0 /\ r = fresh)
  <2>1. CASE u = w
    BY <1>1, <1>3, <2>1 DEF Holders, Held
  <2>2. CASE u # w
    BY <1>3, <2>2 DEF Others
  <2> QED
    BY <2>1, <2>2
<1>4. ASSUME NEW r, Taken(r), NEW u \in Workers, NEW v \in Workers,
             NEW i \in Holders(worker'[u]), NEW j \in Holders(worker'[v]),
             r = Held(worker'[u], i), r = Held(worker'[v], j)
      PROVE  u = v /\ i = j
  <2>0. i \in Holders(worker[u]) /\ j \in Holders(worker[v])
    BY <1>3, <1>4
  <2>1. CASE r = fresh
    <3>1. r # Held(worker[u], i) /\ r # Held(worker[v], j)
      BY <1>2, <2>0, <2>1
    <3>2. u = w /\ i = 0
      BY <1>3, <1>4, <3>1
    <3>3. v = w /\ j = 0
      BY <1>3, <1>4, <3>1
    <3> QED
      BY <3>2, <3>3
  <2>2. CASE r # fresh
    <3>1. r = Held(worker[u], i) /\ r = Held(worker[v], j)
      BY <1>3, <1>4, <2>2
    <3> QED
      BY <1>4, <2>0, <3>1, HeldOnce, ZenonT(60)
  <2> QED
    BY <2>1, <2>2
<1>5. ASSUME NEW r, Taken(r), NEW u \in Workers, NEW k \in DOMAIN suite_runs,
             NEW i \in Holders(worker'[u]), NEW j \in Places(suite_runs[k]),
             r = Held(worker'[u], i)
      PROVE  r # Filed(suite_runs[k], j)
  <2>1. CASE r = fresh
    BY <1>2, <2>1
  <2>2. CASE r # fresh
    <3>1. i \in Holders(worker[u]) /\ r = Held(worker[u], i)
      BY <1>3, <1>5, <2>2
    <3> QED
      BY <1>5, <3>1, HeldNotFiled
  <2> QED
    BY <2>1, <2>2
<1>6. ASSUME NEW r, Taken(r), NEW u \in Workers, NEW i \in Holders(worker'[u]),
             r = Held(worker'[u], i)
      PROVE  /\ \A v \in Workers : \A j \in Holders(worker'[v]) :
                  r = Held(worker'[v], j) => u = v /\ i = j
             /\ \A k \in DOMAIN suite_runs' : \A j \in Places(suite_runs'[k]) :
                  r # Filed(suite_runs'[k], j)
  <2>1. \A v \in Workers : \A j \in Holders(worker'[v]) :
          r = Held(worker'[v], j) => u = v /\ i = j
    BY <1>4, <1>6
  <2>2. \A k \in DOMAIN suite_runs : \A j \in Places(suite_runs[k]) :
          r # Filed(suite_runs[k], j)
    BY <1>5, <1>6
  <2> QED
    BY <2>1, <2>2
<1>7. ASSUME NEW r, Taken(r), NEW k \in DOMAIN suite_runs',
             NEW i \in Places(suite_runs'[k]), r = Filed(suite_runs'[k], i)
      PROVE  \A l \in DOMAIN suite_runs' : \A j \in Places(suite_runs'[l]) :
               r = Filed(suite_runs'[l], j) => k = l /\ i = j
  <2> SUFFICES ASSUME NEW l \in DOMAIN suite_runs, NEW j \in Places(suite_runs[l]),
                      r = Filed(suite_runs[l], j)
               PROVE  k = l /\ i = j
    OBVIOUS
  <2>1. k \in DOMAIN suite_runs /\ i \in Places(suite_runs[k]) /\ r = Filed(suite_runs[k], i)
    BY <1>7
  <2> QED
    BY <1>7, <2>1, FiledOnce, ZenonT(60)
<1> QED
  BY <1>6, <1>7, ClaimsFollow

(* The process restarts: nobody holds a run.                                 *)
LEMMA ClaimsDropped ==
  ASSUME Claims, UNCHANGED suite_runs, worker' = [w \in Workers |-> Idle]
  PROVE  Claims'
<1>1. \A w \in Workers : \A i \in Holders(worker'[w]) : ~Taken(Held(worker'[w], i))
  BY IdleTyped DEF Holders, Held, Taken
<1> QED
  BY <1>1 DEF Claims

(* The items of a request are filed.                                         *)
LEMMA ClaimsFiled ==
  ASSUME TypeOK, Claims, NEW w \in Workers, Others(w),
         worker'[w].items = <<>>, worker'[w].run = 0,
         NEW run \in SuiteRun, run.items = worker[w].items,
         suite_runs' = Append(suite_runs, run)
  PROVE  Claims'
<1> DEFINE n == Len(suite_runs)
<1>1. /\ n \in Nat /\ DOMAIN suite_runs = 1..n /\ DOMAIN suite_runs' = 1..(n + 1)
      /\ \A k \in 1..n : suite_runs'[k] = suite_runs[k]
      /\ suite_runs'[n + 1] = run
  BY AppendFacts DEF TypeOK
<1>2. worker[w].items \in Seq(Item)
  BY DEF TypeOK, Worker
<1> HIDE DEF n
<1>3. \A j \in Places(run) : /\ j \in Holders(worker[w])
                                  /\ Held(worker[w], j) = Filed(run, j)
  BY <1>2 DEF Holders, Held, Filed, Places
<1>4. /\ \A i \in Holders(worker'[w]) : ~Taken(Held(worker'[w], i))
      /\ \A v \in Workers : v # w => worker'[v] = worker[v]
  BY DEF Holders, Held, Others, Taken
<1>5. ASSUME NEW r, Taken(r), NEW u \in Workers, NEW i \in Holders(worker'[u]),
             r = Held(worker'[u], i)
      PROVE  u # w /\ i \in Holders(worker[u]) /\ r = Held(worker[u], i)
  <2>1. u # w
    BY <1>4, <1>5
  <2> QED
    BY <1>4, <1>5, <2>1
<1> DEFINE Old(r, k, i) == /\ k \in DOMAIN suite_runs /\ i \in Places(suite_runs[k])
                           /\ r = Filed(suite_runs[k], i)
           New(r, k, i) == /\ k = n + 1 /\ i \in Holders(worker[w])
                           /\ r = Held(worker[w], i)
<1>6. ASSUME NEW r, Taken(r), NEW k \in DOMAIN suite_runs',
             NEW i \in Places(suite_runs'[k]), r = Filed(suite_runs'[k], i)
      PROVE  Old(r, k, i) \/ New(r, k, i)
  <2>1. CASE k \in 1..n
    <3>1. k \in DOMAIN suite_runs /\ suite_runs'[k] = suite_runs[k]
      BY <1>1, <2>1
    <3> QED
      BY <1>6, <3>1
  <2>2. CASE k = n + 1
    <3>1. suite_runs'[k] = run
      BY <1>1, <2>2
    <3>2. i \in Places(run) /\ r = Filed(run, i)
      BY <1>6, <3>1
    <3> QED
      BY <1>3, <2>2, <3>2
  <2> QED
    BY <1>1, <2>1, <2>2
<1>7. ASSUME NEW r, Taken(r), NEW u \in Workers, NEW v \in Workers,
             NEW i \in Holders(worker'[u]), NEW j \in Holders(worker'[v]),
             r = Held(worker'[u], i), r = Held(worker'[v], j)
      PROVE  u = v /\ i = j
  <2>1. i \in Holders(worker[u]) /\ r = Held(worker[u], i)
    BY <1>5, <1>7
  <2>2. j \in Holders(worker[v]) /\ r = Held(worker[v], j)
    BY <1>5, <1>7
  <2> QED
    BY <1>7, <2>1, <2>2, HeldOnce
<1>8. ASSUME NEW r, Taken(r), NEW u \in Workers, NEW k \in DOMAIN suite_runs',
             NEW i \in Holders(worker'[u]), NEW j \in Places(suite_runs'[k]),
             r = Held(worker'[u], i), r = Filed(suite_runs'[k], j)
      PROVE  FALSE
  <2>1. u # w /\ i \in Holders(worker[u]) /\ r = Held(worker[u], i)
    BY <1>5, <1>8, ZenonT(60)
  <2>2. Old(r, k, j) \/ New(r, k, j)
    BY <1>6, <1>8
  <2>3. CASE Old(r, k, j)
    BY <1>8, <2>1, <2>3, HeldNotFiled
  <2>4. CASE New(r, k, j)
    BY <1>8, <2>1, <2>4, HeldOnce
  <2> QED
    BY <2>2, <2>3, <2>4
<1>9. ASSUME NEW r, Taken(r), NEW u \in Workers, NEW i \in Holders(worker'[u]),
             r = Held(worker'[u], i)
      PROVE  /\ \A v \in Workers : \A j \in Holders(worker'[v]) :
                  r = Held(worker'[v], j) => u = v /\ i = j
             /\ \A k \in DOMAIN suite_runs' : \A j \in Places(suite_runs'[k]) :
                  r # Filed(suite_runs'[k], j)
  BY <1>7, <1>8, <1>9
<1>10. ASSUME NEW r, Taken(r), NEW k \in DOMAIN suite_runs',
              NEW i \in Places(suite_runs'[k]), r = Filed(suite_runs'[k], i)
       PROVE  \A l \in DOMAIN suite_runs' : \A j \in Places(suite_runs'[l]) :
                r = Filed(suite_runs'[l], j) => k = l /\ i = j
  <2> SUFFICES ASSUME NEW l \in DOMAIN suite_runs', NEW j \in Places(suite_runs'[l]),
                      r = Filed(suite_runs'[l], j)
               PROVE  k = l /\ i = j
    OBVIOUS
  <2>0. Taken(r) /\ r = Filed(suite_runs'[k], i)
    BY <1>10
  <2> HIDE DEF Old, New
  <2>1. Old(r, k, i) \/ New(r, k, i)
    BY <1>6, <2>0
  <2>2. Old(r, l, j) \/ New(r, l, j)
    BY <1>6, <2>0
  <2> USE DEF Old, New
  <2>3. CASE Old(r, k, i) /\ Old(r, l, j)
    BY <2>0, <2>3, FiledOnce, ZenonT(60)
  <2>4. CASE New(r, k, i) /\ New(r, l, j)
    BY <2>0, <2>4, HeldOnce
  <2>5. CASE New(r, k, i) /\ Old(r, l, j)
    BY <2>0, <2>5, HeldNotFiled
  <2>6. CASE Old(r, k, i) /\ New(r, l, j)
    BY <2>0, <2>6, HeldNotFiled
  <2> HIDE DEF Old, New
  <2> QED
    BY <2>1, <2>2, <2>3, <2>4, <2>5, <2>6
<1> QED
  BY <1>9, <1>10, ClaimsFollow

-----------------------------------------------------------------------------
(* Every other action, for all of the invariant but results and suite runs.  *)
Kept == BaseKept /\ SessionsOK' /\ Claims'

(* No client's definition changes, and one request goes on.                  *)
LEMMA Gather ==
  ASSUME TypeOK, Requests, Definitions, UNCHANGED definitions,
         used' \in Uses, Counted',
         results' \in Seq(Result), suite_runs' \in Seq(SuiteRun),
         runs' \in Seq(Traces \cup {None}), sessions' \in Seq(Session),
         RunsGrow(runs, runs'), PairsKept(results, results'),
         Len(sessions) <= Len(sessions'),
         NEW w \in Workers, Others(w), worker' \in [Workers -> Worker],
         LocalsOK(worker'[w], Known, runs', results', Len(sessions')),
         \A v \in Workers : v # w /\ worker[v].pc = "turn" => runs'[worker[v].run] = None
  PROVE  BaseKept
<1>1. Definitions' /\ Known' = Known /\ cases' = cases /\ suites' = suites
  BY DefinitionsStay
<1>2. TypeOK'
  BY <1>1 DEF TypeOK, Uses
<1>3. Grown
  BY <1>1 DEF Grown, TypeOK
<1>4. Requests'
  BY <1>1, <1>3, RequestsKept
<1> QED
  BY <1>1, <1>2, <1>3, <1>4 DEF BaseKept

(* The runs of the turns are running.                                        *)
LEMMA TurnsRun ==
  ASSUME Requests
  PROVE  \A v \in Workers : worker[v].pc = "turn" => runs[worker[v].run] = None
  BY DEF Requests, LocalsOK

(* A request with a case to run.                                             *)
LEMMA AtItem ==
  ASSUME TypeOK, Requests, NEW w \in Workers,
         More(w) \/ Begun(worker[w].pc)
  PROVE  /\ worker[w] \in Worker /\ worker[w].items \in Seq(Item)
         /\ LocalsOK(worker[w], Known, runs, results, Len(sessions))
         /\ Len(worker[w].inputs) = Len(worker[w].case_ids)
         /\ Len(worker[w].items) < Len(worker[w].case_ids)
         /\ Len(sessions) \in Nat /\ Len(runs) \in Nat /\ RunsGrow(runs, runs)
         /\ PairsKept(results, results)
<1>1. worker[w] \in Worker /\ worker[w].items \in Seq(Item)
      /\ worker[w].case_ids \in Seq(Cases)
  BY DEF TypeOK, Worker
<1>2. LocalsOK(worker[w], Known, runs, results, Len(sessions))
  BY DEF Requests
<1>3. Len(worker[w].items) < Len(worker[w].case_ids)
  BY <1>1, <1>2 DEF More, Position, LocalsOK
<1>4. PairsKept(results, results)
  BY DEF PairsKept, SamePair
<1> QED
  BY <1>1, <1>2, <1>3, <1>4, SameGrown DEF LocalsOK

(* What is counted, when nothing happens.                                    *)
LEMMA UsedStays ==
  ASSUME TypeOK, Counted, UNCHANGED used
  PROVE  used' \in Uses /\ Counted' /\ Later
  BY DEF TypeOK, Counted, Uses, Later

(* What is counted, when the environment acts.                               *)
LEMMA UsedEvent ==
  ASSUME TypeOK, Counted, Happens
  PROVE  used' \in Uses /\ Counted' /\ Later
  BY EventCounted DEF Later

(* What is counted, when a call raises.                                      *)
LEMMA UsedFault ==
  ASSUME TypeOK, Counted, Fault
  PROVE  used' \in Uses /\ Counted' /\ Later /\ used'.faults # 0
         /\ used'.faults + used'.crashes # 0
  BY FaultCounted DEF Later

(* The turn of a request starts, in a new session and with a new run.        *)
LEMMA StartTurnKeeps ==
  ASSUME Inv, NEW w \in Workers, StartTurn(w)
  PROVE  Kept
<1> USE DEF Inv
<1> DEFINE l == worker[w]
<1>1. /\ l \in Worker /\ l.items \in Seq(Item) /\ l.pc = "next"
      /\ LocalsOK(l, Known, runs, results, Len(sessions))
      /\ Len(l.items) < Len(l.case_ids) /\ Len(sessions) \in Nat /\ Len(runs) \in Nat
      /\ PairsKept(results, results)
  BY AtItem DEF StartTurn, More
<1>2. PICK n \in Nat : n = Len(sessions) + 1
  BY <1>1
<1>3. PICK r \in Nat : r = Len(runs) + 1
  BY <1>1
<1>4. /\ runs' \in Seq(Traces \cup {None}) /\ Len(runs') = r /\ DOMAIN runs' = 1..r
      /\ DOMAIN runs = 1..Len(runs)
      /\ \A i \in 1..Len(runs) : runs'[i] = runs[i]
      /\ runs'[r] = None
  BY <1>3, AppendFacts DEF StartTurn, TypeOK
<1>5. /\ sessions' = Append(sessions, NewSession) /\ Len(sessions') = n
      /\ UNCHANGED <<definitions, results, suite_runs, used>>
      /\ worker' = [worker EXCEPT ![w].pc = "turn", ![w].session = n, ![w].run = r]
  BY <1>2, <1>3, <1>4, SessionMade, AppendFacts DEF StartTurn, TypeOK
<1>6. RunsGrow(runs, runs')
  BY <1>1, <1>3, <1>4 DEF RunsGrow
<1>7. Goes(w, "turn", l.items, n, r, l.outcome)
  BY <1>5, RunGoes DEF Pcs
<1>8. /\ worker'[w].pc = "turn" /\ worker'[w].session = n /\ worker'[w].run = r
      /\ worker'[w].items = l.items
      /\ Others(w) /\ worker' \in [Workers -> Worker]
      /\ Stage(l, worker'[w], "turn", l.items, n, r, l.outcome)
  BY <1>7 DEF Goes, Stage
<1>9. used' \in Uses /\ Counted' /\ Later
  BY <1>5, UsedStays
<1>10. sessions' \in Seq(Session) /\ SessionsOK'
  <2>1. InTurn(n)'
    BY <1>8 DEF InTurn
  <2>2. SessionOK(NewSession, InTurn(n)', used')
    BY <2>1, SessionMade DEF SessionOK
  <2> QED
    BY <1>1, <1>2, <1>5, <1>8, <1>9, <2>2, SessionMade, SessionAdded
<1>11. LocalsOK(worker'[w], Known, runs', results', Len(sessions'))
  <2> DEFINE pc == "turn"
             outcome == l.outcome
             m == worker'[w]
  <2>1. n \in 1..n /\ r \in 0..Len(runs') /\ Len(sessions) <= n
        /\ (pc = "turn" => r # 0 /\ runs'[r] = None) /\ pc # "cleanup" /\ Begun(pc)
    BY <1>1, <1>2, <1>3, <1>4 DEF Begun
  <2>2. Stage(l, m, pc, l.items, n, r, outcome)
    BY <1>8
  <2> HIDE DEF l, pc, outcome, m
  <2>3. LocalsOK(m, Known, runs', results, n)
    BY <1>1, <1>6, <2>1, <2>2, StageOK
  <2> QED
    BY <1>5, <2>3 DEF m
<1>12. \A v \in Workers : v # w /\ worker[v].pc = "turn" => runs'[worker[v].run] = None
  <2> SUFFICES ASSUME NEW v \in Workers, worker[v].pc = "turn"
               PROVE  runs'[worker[v].run] = None
    OBVIOUS
  <2>1. worker[v].run \in 0..Len(runs) /\ worker[v].run # 0 /\ runs[worker[v].run] = None
    BY DEF Requests, LocalsOK
  <2>2. worker[v].run \in 1..Len(runs)
    BY <1>1, <2>1
  <2> QED
    BY <1>4, <2>1, <2>2
<1>13. BaseKept
  <2>1. /\ results' \in Seq(Result) /\ suite_runs' \in Seq(SuiteRun)
        /\ Len(sessions) <= Len(sessions') /\ PairsKept(results, results')
        /\ UNCHANGED definitions
    BY <1>1, <1>2, <1>5 DEF TypeOK
  <2> QED
    BY <1>4, <1>6, <1>8, <1>9, <1>10, <1>11, <1>12, <2>1, Gather
<1>14. Claims'
  <2>1. worker'[w].run = Len(runs) + 1
    BY <1>3, <1>8
  <2> QED
    BY <1>5, <1>8, <2>1, ClaimsFresh
<1> QED
  BY <1>10, <1>13, <1>14 DEF Kept

(* A request gets an outcome for its item, without a turn.                   *)
LEMMA ItemKeeps ==
  ASSUME Inv, NEW w \in Workers, worker[w].pc # "turn", Later,
         More(w) \/ Begun(worker[w].pc),
         NEW item \in Item,
         item.case = worker[w].case_ids[Len(worker[w].items) + 1],
         Verdict(item, runs, results), item.run \in {0, worker[w].run},
         worker' = [worker EXCEPT ![w] = WithItem(w, item)],
         UNCHANGED <<definitions, results, suite_runs, runs>>,
         used' \in Uses, Counted', sessions' \in Seq(Session),
         Len(sessions) <= Len(sessions'), SessionsOK'
  PROVE  Kept
<1> USE DEF Inv
<1> DEFINE l == worker[w]
           items == Append(l.items, item)
<1>1. /\ l \in Worker /\ l.items \in Seq(Item)
      /\ LocalsOK(l, Known, runs, results, Len(sessions))
      /\ Len(l.items) < Len(l.case_ids) /\ Len(sessions) \in Nat
      /\ RunsGrow(runs, runs) /\ PairsKept(results, results)
  BY AtItem
<1>2. Goes(w, "next", items, 0, 0, None)
  BY ItemGoes
<1>3. /\ worker'[w].items = items /\ worker'[w].run = 0
      /\ Others(w) /\ worker' \in [Workers -> Worker]
      /\ Stage(l, worker'[w], "next", items, 0, 0, None)
  BY <1>2 DEF Goes, Stage
<1>4. LocalsOK(worker'[w], Known, runs', results', Len(sessions'))
  <2>1. Len(sessions') \in Nat
    OBVIOUS
  <2>2. LocalsOK(worker'[w], Known, runs, results, Len(sessions'))
    BY <1>1, <1>3, <2>1, ItemAdded
  <2> QED
    BY <2>2
<1>5. BaseKept
  <2>1. /\ results' \in Seq(Result) /\ suite_runs' \in Seq(SuiteRun)
        /\ runs' \in Seq(Traces \cup {None})
        /\ PairsKept(results, results') /\ RunsGrow(runs, runs') /\ UNCHANGED definitions
    BY <1>1 DEF TypeOK
  <2>2. \A v \in Workers : v # w /\ worker[v].pc = "turn" => runs'[worker[v].run] = None
    BY TurnsRun
  <2> QED
    BY <1>3, <1>4, <2>1, <2>2, Gather
<1>6. Claims'
  BY <1>1, <1>3, ClaimsMoved
<1> QED
  BY <1>5, <1>6 DEF Kept

(* A request begins to delete its session, with or without an outcome.       *)
LEMMA OutcomeKeeps ==
  ASSUME Inv, NEW w \in Workers, More(w) \/ Begun(worker[w].pc),
         NEW pc \in {"cleanup", "cancelled"}, NEW session \in 1..Len(sessions'),
         NEW outcome \in Item \cup {None},
         pc = "cleanup" =>
           /\ outcome \in Item
           /\ outcome.case = worker[w].case_ids[Len(worker[w].items) + 1]
           /\ Verdict(outcome, runs', results') /\ outcome.run \in {0, worker[w].run},
         Goes(w, pc, worker[w].items, session, worker[w].run, outcome),
         UNCHANGED <<definitions, suite_runs>>,
         results' \in Seq(Result), PairsKept(results, results'),
         runs' \in Seq(Traces \cup {None}), RunsGrow(runs, runs'),
         \A v \in Workers : v # w /\ worker[v].pc = "turn" => runs'[worker[v].run] = None,
         used' \in Uses, Counted', sessions' \in Seq(Session),
         Len(sessions) <= Len(sessions'), SessionsOK'
  PROVE  Kept
<1> USE DEF Inv
<1> DEFINE l == worker[w]
           m == worker'[w]
           run == worker[w].run
           n2 == Len(sessions')
<1>1. /\ l \in Worker /\ l.items \in Seq(Item)
      /\ LocalsOK(l, Known, runs, results, Len(sessions))
      /\ Len(l.items) < Len(l.case_ids) /\ Len(sessions) \in Nat
  BY AtItem
<1>2. /\ m.items = l.items /\ m.run = run
      /\ Others(w) /\ worker' \in [Workers -> Worker]
      /\ Stage(l, m, pc, l.items, session, run, outcome)
  BY DEF Goes, Stage
<1>3. LocalsOK(m, Known, runs', results', n2)
  <2>1. n2 \in Nat /\ Len(sessions) <= n2 /\ session \in 1..n2
    OBVIOUS
  <2>2. Begun(pc) /\ pc # "turn"
    BY DEF Begun
  <2>3. run \in 0..Len(runs')
    BY <1>1 DEF LocalsOK, RunsGrow
  <2>4. pc = "cleanup" =>
          /\ outcome \in Item /\ outcome.case = l.case_ids[Len(l.items) + 1]
          /\ Verdict(outcome, runs', results') /\ outcome.run \in {0, run}
    OBVIOUS
  <2> HIDE DEF l, m, run, n2
  <2> QED
    BY <1>1, <1>2, <2>1, <2>2, <2>3, <2>4, StageOK
<1>4. BaseKept
  <2>1. suite_runs' \in Seq(SuiteRun) /\ UNCHANGED definitions
    BY DEF TypeOK
  <2> QED
    BY <1>2, <1>3, <2>1, Gather
<1>5. Claims'
  BY <1>2, ClaimsSame
<1> QED
  BY <1>4, <1>5 DEF Kept

(* The session of an item is not created: the item is an error.              *)
LEMMA CreateRaisesKeeps ==
  ASSUME Inv, NEW w \in Workers, CreateRaises(w)
  PROVE  Kept
<1> USE DEF Inv
<1> DEFINE item == ErrorItem(w)
<1>1. More(w) /\ worker[w].pc # "turn" /\ Fault
      /\ UNCHANGED <<definitions, results, suite_runs, runs>>
      /\ worker' = [worker EXCEPT ![w] = WithItem(w, item)]
  BY DEF CreateRaises, More
<1>2. /\ Len(worker[w].inputs) = Len(worker[w].case_ids)
      /\ Len(worker[w].items) < Len(worker[w].case_ids) /\ Len(sessions) \in Nat
  BY <1>1, AtItem
<1>3. /\ item \in Item /\ item.run \in {0, worker[w].run}
      /\ item.case = worker[w].case_ids[Len(worker[w].items) + 1]
      /\ Verdict(item, runs, results)
  BY <1>2, ErrorMade
<1> HIDE DEF item
<1>4. used' \in Uses /\ Counted' /\ Later /\ used'.faults # 0
      /\ used'.faults + used'.crashes # 0
  BY <1>1, UsedFault
<1>5. Others(w)
  BY <1>1 DEF Others, TypeOK
<1>6. sessions' \in Seq(Session) /\ Len(sessions) <= Len(sessions') /\ SessionsOK'
  <2>1. CASE UNCHANGED sessions
    BY <1>1, <1>2, <1>4, <1>5, <2>1, SessionsStay DEF TypeOK
  <2>2. CASE sessions' = Append(sessions, [NewSession EXCEPT !.stored = FALSE])
    <3> DEFINE x == [NewSession EXCEPT !.stored = FALSE]
    <3>1. PICK n : n = Len(sessions) + 1
      OBVIOUS
    <3>2. x \in Session /\ SessionOK(x, InTurn(n)', used')
      BY <1>4, SessionMade DEF SessionOK
    <3> HIDE DEF x
    <3>3. /\ sessions' \in Seq(Session) /\ Len(sessions') = Len(sessions) + 1
          /\ SessionsOK'
      BY <1>1, <1>4, <1>5, <2>2, <3>1, <3>2, SessionAdded DEF x
    <3> QED
      BY <1>2, <3>3
  <2> QED
    BY <2>1, <2>2 DEF CreateRaises
<1> QED
  BY <1>1, <1>3, <1>4, <1>6, ItemKeeps

(* The trace of a turn cannot be created: the item is an error, its session  *)
(* deleted next.                                                             *)
LEMMA NoTraceKeeps ==
  ASSUME Inv, NEW w \in Workers, NoTrace(w)
  PROVE  Kept
<1> USE DEF Inv
<1> DEFINE item == ErrorItem(w)
           x == DeleteBegun(NewSession, "runner")
<1>1. PICK n \in Nat : n = Len(sessions) + 1
  BY DEF TypeOK
<1>2. x \in Session /\ SessionOK(x, InTurn(n)', used')
  BY SessionMade, DeletionBegun DEF Deleters
<1>3. sessions' = Append(sessions, x)
  BY DEF NoTrace
<1> HIDE DEF x
<1>4. Len(sessions') = n
  BY <1>1, <1>2, <1>3, AppendFacts DEF TypeOK
<1>5. /\ More(w) /\ worker[w].pc # "turn" /\ Fault
      /\ UNCHANGED <<definitions, results, suite_runs, runs>>
      /\ worker' = [worker EXCEPT ![w].pc = "cleanup", ![w].session = n,
                                  ![w].outcome = item]
  BY <1>4 DEF NoTrace, More
<1>6. /\ Len(worker[w].inputs) = Len(worker[w].case_ids)
      /\ Len(worker[w].items) < Len(worker[w].case_ids) /\ Len(sessions) \in Nat
      /\ RunsGrow(runs, runs) /\ PairsKept(results, results)
  BY <1>5, AtItem
<1>7. /\ item \in Item /\ item.run \in {0, worker[w].run}
      /\ item.case = worker[w].case_ids[Len(worker[w].items) + 1]
      /\ Verdict(item, runs, results)
  BY <1>6, ErrorMade
<1> HIDE DEF item
<1>8. used' \in Uses /\ Counted' /\ Later
  BY <1>5, UsedFault
<1>9. Goes(w, "cleanup", worker[w].items, n, worker[w].run, item) /\ Others(w)
  BY <1>5, <1>7, SessionGoes DEF Pcs, Goes
<1>10. sessions' \in Seq(Session) /\ Len(sessions) <= Len(sessions') /\ SessionsOK'
  BY <1>1, <1>2, <1>3, <1>4, <1>5, <1>6, <1>8, <1>9, SessionAdded
<1>11. n \in 1..Len(sessions')
  BY <1>1, <1>4, <1>6
<1>12. /\ results' \in Seq(Result) /\ runs' \in Seq(Traces \cup {None})
       /\ RunsGrow(runs, runs') /\ PairsKept(results, results')
       /\ Verdict(item, runs', results')
       /\ \A v \in Workers : v # w /\ worker[v].pc = "turn" => runs'[worker[v].run] = None
  BY <1>5, <1>6, <1>7, TurnsRun DEF TypeOK
<1> DEFINE pc == "cleanup"
<1>13. Goes(w, pc, worker[w].items, n, worker[w].run, item) /\ pc \in {"cleanup", "cancelled"}
  BY <1>9
<1> HIDE DEF pc
<1> QED
  BY <1>5, <1>7, <1>8, <1>10, <1>11, <1>12, <1>13, OutcomeKeeps

(* A turn has ended, and its session begins to be deleted.                   *)
LEMMA CleanUpEffect ==
  ASSUME Inv, NEW w \in Workers, worker[w].pc = "turn", Later,
         NEW pc \in {"cleanup", "cancelled"}, NEW outcome \in Item \cup {None},
         CleanUp(w, pc, outcome)
  PROVE  /\ Goes(w, pc, worker[w].items, worker[w].session, worker[w].run, outcome)
         /\ worker[w].session \in 1..Len(sessions')
         /\ sessions' \in Seq(Session) /\ Len(sessions) <= Len(sessions')
         /\ SessionsOK' /\ UNCHANGED <<definitions, suite_runs>>
<1> USE DEF Inv
<1>1. PICK s : s = worker[w].session
  OBVIOUS
<1>2. s \in DOMAIN sessions /\ s \in 1..Len(sessions) /\ Len(sessions) \in Nat
  BY <1>1 DEF Requests, LocalsOK, Begun, TypeOK
<1> DEFINE x == DeleteBegun(sessions[s], "runner")
<1>3. sessions' = [sessions EXCEPT ![s] = x]
  BY <1>1 DEF CleanUp
<1>4. Goes(w, pc, worker[w].items, worker[w].session, worker[w].run, outcome)
  BY OutcomeGoes DEF CleanUp, Pcs
<1>5. sessions[s] \in Session /\ SessionOK(sessions[s], InTurn(s), used)
  BY <1>2 DEF TypeOK, SessionsOK
<1>6. x \in Session /\ SessionOK(x, InTurn(s)', used')
  BY <1>5, DeletionBegun DEF Deleters, SessionOK
<1> HIDE DEF x
<1>7. \A t \in DOMAIN sessions : t # s /\ InTurn(t) => InTurn(t)'
  BY <1>1, <1>4, InTurnKept DEF Goes
<1>8. sessions' \in Seq(Session) /\ Len(sessions') = Len(sessions) /\ SessionsOK'
  BY <1>2, <1>3, <1>6, <1>7, SessionChanged
<1> QED
  BY <1>1, <1>2, <1>4, <1>8 DEF CleanUp

(* A turn has a run of its own; when that ends the other turns go on.        *)
LEMMA RunEnds ==
  ASSUME Inv, NEW w \in Workers, worker[w].pc = "turn", NEW trace \in Traces,
         NEW r, r = worker[w].run, runs' = [runs EXCEPT ![r] = trace]
  PROVE  /\ r \in DOMAIN runs /\ r \in Nat /\ runs[r] = None
         /\ runs' \in Seq(Traces \cup {None}) /\ RunsGrow(runs, runs')
         /\ runs'[r] = trace /\ trace # None /\ r \in DOMAIN runs'
         /\ \A v \in Workers :
              v # w /\ worker[v].pc = "turn" => runs'[worker[v].run] = None
<1> USE DEF Inv
<1>1. runs \in Seq(Traces \cup {None}) /\ Len(runs) \in Nat /\ DOMAIN runs = 1..Len(runs)
  BY DEF TypeOK
<1>2. /\ r \in 0..Len(runs) /\ r # 0 /\ runs[r] = None
  BY DEF Requests, LocalsOK
<1>3. r \in DOMAIN runs /\ r \in Nat
  BY <1>1, <1>2
<1>4. /\ runs' \in Seq(Traces \cup {None}) /\ Len(runs') = Len(runs)
      /\ DOMAIN runs' = DOMAIN runs /\ runs'[r] = trace
      /\ \A q \in DOMAIN runs : q # r => runs'[q] = runs[q]
  BY <1>1, <1>3
<1>5. trace # None
  BY EvaluationsAssumption
<1>6. RunsGrow(runs, runs')
  BY <1>1, <1>2, <1>4 DEF RunsGrow
<1>7. ASSUME NEW v \in Workers, v # w, worker[v].pc = "turn"
      PROVE  runs'[worker[v].run] = None
  <2>1. worker[v].run \in 0..Len(runs) /\ worker[v].run # 0 /\ runs[worker[v].run] = None
    BY <1>7 DEF Requests, LocalsOK
  <2>2. worker[v].run # r
    <3>0. Len(worker[w].items) \in Nat /\ Len(worker[v].items) \in Nat
      <4>1. worker[w] \in Worker /\ worker[v] \in Worker
        BY DEF TypeOK
      <4> QED
        BY <4>1 DEF Worker
    <3>1. 0 \in Holders(worker[w]) /\ 0 \in Holders(worker[v])
      BY <3>0 DEF Holders
    <3>2. Held(worker[w], 0) = r /\ Held(worker[v], 0) = worker[v].run /\ Taken(r)
      BY <1>2 DEF Held, Taken
    <3> DEFINE zero == 0
    <3>3. /\ zero \in Holders(worker[w]) /\ zero \in Holders(worker[v])
          /\ Held(worker[w], zero) = r /\ Held(worker[v], zero) = worker[v].run
      BY <3>1, <3>2
    <3> HIDE DEF zero
    <3> QED
      BY <1>7, <3>2, <3>3, HeldOnce
  <2>3. worker[v].run \in DOMAIN runs
    BY <1>1, <2>1
  <2> QED
    BY <1>4, <2>1, <2>2, <2>3
<1> QED
  BY <1>2, <1>3, <1>4, <1>5, <1>6, <1>7

(* The turn ends, its trace is stored under the run the request held, and    *)
(* the result saved reproduces from it.                                      *)
LEMMA EndTurnKeeps ==
  ASSUME Inv, NEW w \in Workers, NEW trace \in Traces, EndTurn(w, trace)
  PROVE  Kept /\ Results'
<1> USE DEF Inv
<1>1. PICK r : r = worker[w].run
  OBVIOUS
<1> DEFINE c == ThisCase(w)
           row == Evaluated(c, r, trace)
           item == NewItem(w, r, row.passed, FALSE)
<1>2. /\ worker[w].pc = "turn" /\ runs' = [runs EXCEPT ![r] = trace]
      /\ results' = Saved(row) /\ CleanUp(w, "cleanup", item) /\ UNCHANGED used
  BY <1>1 DEF EndTurn
<1>3. /\ Len(worker[w].inputs) = Len(worker[w].case_ids)
      /\ Len(worker[w].items) < Len(worker[w].case_ids)
      /\ LocalsOK(worker[w], Known, runs, results, Len(sessions))
  BY <1>2, AtItem DEF Begun
<1>4. /\ r \in DOMAIN runs /\ r \in Nat
      /\ runs' \in Seq(Traces \cup {None}) /\ RunsGrow(runs, runs')
      /\ runs'[r] = trace /\ trace # None /\ r \in DOMAIN runs'
      /\ \A v \in Workers : v # w /\ worker[v].pc = "turn" => runs'[worker[v].run] = None
  BY <1>1, <1>2, RunEnds
<1>5. /\ c = worker[w].case_ids[Len(worker[w].items) + 1] /\ c \in Known
  BY <1>3, ItemMade DEF LocalsOK
<1>6. /\ row \in Result /\ row.case = c /\ row.run = r /\ row.input = cases[c]
      /\ row.score = Score(Checks(row.input.expectations, trace))
      /\ row.passed = Meets(row.score, row.input.pass_threshold)
  BY <1>4, <1>5, EvaluatedFacts
<1>7. row.passed \in BOOLEAN
  BY <1>6 DEF Result
<1> HIDE DEF row
<1>8. item \in Item /\ item.case = c /\ item.run = r /\ item.error = FALSE
  <2> DEFINE passed == row.passed
             error == FALSE
  <2>1. passed \in BOOLEAN /\ error \in BOOLEAN /\ item = NewItem(w, r, passed, error)
    BY <1>7
  <2> HIDE DEF item, passed, error
  <2>2. item \in Item /\ item.case = c /\ item.run = r /\ item.error = error
    BY <1>3, <1>4, <1>5, <2>1, ItemMade
  <2> QED
    BY <2>2 DEF error
<1> HIDE DEF c, item
<1>9. /\ Upserted(results', row) /\ results' \in Seq(Result) /\ PairsKept(results, results')
  BY <1>2, <1>6, RowSaved DEF Base
<1>10. Verdict(item, runs', results')
  <2>1. \E i \in DOMAIN results' : results'[i].case = c /\ results'[i].run = r
    BY <1>6, <1>9 DEF Upserted
  <2> QED
    BY <1>4, <1>8, <2>1 DEF Verdict, Judged
<1>11. used' \in Uses /\ Counted' /\ Later
  BY <1>2, UsedStays
<1> DEFINE pc == "cleanup"
<1>12. CleanUp(w, pc, item) /\ pc \in {"cleanup", "cancelled"}
  BY <1>2
<1> HIDE DEF pc
<1>13. /\ Goes(w, pc, worker[w].items, worker[w].session, worker[w].run, item)
       /\ worker[w].session \in 1..Len(sessions')
       /\ sessions' \in Seq(Session) /\ Len(sessions) <= Len(sessions')
       /\ SessionsOK' /\ UNCHANGED <<definitions, suite_runs>>
  BY <1>2, <1>8, <1>11, <1>12, CleanUpEffect
<1>14. Begun(worker[w].pc) /\ item.run \in {0, worker[w].run}
       /\ item.case = worker[w].case_ids[Len(worker[w].items) + 1]
  BY <1>1, <1>2, <1>5, <1>8 DEF Begun
<1>15. Kept
  BY <1>4, <1>8, <1>9, <1>10, <1>11, <1>12, <1>13, <1>14, OutcomeKeeps
<1>16. Reproduces(row, runs')
  BY <1>4, <1>6 DEF Reproduces
<1>17. \A i \in DOMAIN results' : Reproduces(results'[i], runs')
  <2> SUFFICES ASSUME NEW i \in DOMAIN results' PROVE Reproduces(results'[i], runs')
    OBVIOUS
  <2>1. CASE results'[i] = row
    BY <1>16, <2>1
  <2>2. CASE \E j \in DOMAIN results : results'[i] = results[j]
    <3>1. PICK j \in DOMAIN results : results'[i] = results[j]
      BY <2>2
    <3>2. Reproduces(results[j], runs)
      BY DEF Results
    <3> QED
      BY <1>4, <3>1, <3>2, ReproducesKept
  <2> QED
    BY <1>9, <2>1, <2>2 DEF Upserted
<1>18. OnePerPair(results')
  BY <1>9 DEF Upserted
<1> QED
  BY <1>15, <1>17, <1>18 DEF Results

(* Storing the end of the trace, or the result, raises: the item is an       *)
(* error, and no result is stored.                                           *)
LEMMA EndTurnRaisesKeeps ==
  ASSUME Inv, NEW w \in Workers, NEW trace \in Traces, EndTurnRaises(w, trace)
  PROVE  Kept /\ RunsGrow(runs, runs')
<1> USE DEF Inv
<1>1. PICK r : r = worker[w].run
  OBVIOUS
<1> DEFINE item == ErrorItem(w)
           pc == "cleanup"
<1>2. /\ worker[w].pc = "turn" /\ (runs' = runs \/ runs' = [runs EXCEPT ![r] = trace])
      /\ UNCHANGED results /\ CleanUp(w, pc, item) /\ Fault
      /\ pc \in {"cleanup", "cancelled"} /\ Begun(worker[w].pc)
  BY <1>1 DEF EndTurnRaises, Begun
<1>3. /\ Len(worker[w].inputs) = Len(worker[w].case_ids)
      /\ Len(worker[w].items) < Len(worker[w].case_ids)
      /\ RunsGrow(runs, runs) /\ PairsKept(results, results)
  BY <1>2, AtItem
<1>4. /\ runs' \in Seq(Traces \cup {None}) /\ RunsGrow(runs, runs')
      /\ \A v \in Workers : v # w /\ worker[v].pc = "turn" => runs'[worker[v].run] = None
  <2>1. CASE runs' = runs
    BY <1>3, <2>1, TurnsRun DEF TypeOK
  <2>2. CASE runs' = [runs EXCEPT ![r] = trace]
    BY <1>1, <1>2, <2>2, RunEnds
  <2> QED
    BY <1>2, <2>1, <2>2
<1>5. /\ item \in Item /\ item.run \in {0, worker[w].run}
      /\ item.case = worker[w].case_ids[Len(worker[w].items) + 1]
      /\ Verdict(item, runs', results')
  BY <1>3, ErrorMade
<1> HIDE DEF pc, item
<1>6. used' \in Uses /\ Counted' /\ Later
  BY <1>2, UsedFault
<1>7. /\ Goes(w, pc, worker[w].items, worker[w].session, worker[w].run, item)
      /\ worker[w].session \in 1..Len(sessions')
      /\ sessions' \in Seq(Session) /\ Len(sessions) <= Len(sessions')
      /\ SessionsOK' /\ UNCHANGED <<definitions, suite_runs>>
  BY <1>2, <1>5, <1>6, CleanUpEffect
<1>8. results' \in Seq(Result) /\ PairsKept(results, results')
  BY <1>2, <1>3 DEF TypeOK
<1> QED
  BY <1>2, <1>4, <1>5, <1>6, <1>7, <1>8, OutcomeKeeps

(* A request that is given up.                                               *)
LEMMA IdleKeeps ==
  ASSUME Inv, NEW w \in Workers, worker' = [worker EXCEPT ![w] = Idle],
         worker[w].pc # "turn",
         UNCHANGED <<definitions, results, suite_runs, runs, sessions>>,
         used' \in Uses, Counted', Later
  PROVE  Kept
<1> USE DEF Inv
<1>1. worker' \in [Workers -> Worker] /\ worker'[w] = Idle /\ Others(w)
  BY IdleTyped DEF TypeOK, Others
<1>2. /\ Len(sessions) \in Nat /\ Len(runs) \in Nat /\ RunsGrow(runs, runs)
      /\ PairsKept(results, results')
  BY SameGrown
<1>3. LocalsOK(worker'[w], Known, runs', results', Len(sessions'))
  BY <1>1, <1>2, IdleTyped
<1>4. BaseKept
  <2>1. /\ results' \in Seq(Result) /\ suite_runs' \in Seq(SuiteRun)
        /\ runs' \in Seq(Traces \cup {None}) /\ sessions' \in Seq(Session)
        /\ RunsGrow(runs, runs') /\ Len(sessions) <= Len(sessions') /\ UNCHANGED definitions
    BY <1>2 DEF TypeOK
  <2>2. \A v \in Workers : v # w /\ worker[v].pc = "turn" => runs'[worker[v].run] = None
    BY TurnsRun
  <2> QED
    BY <1>1, <1>2, <1>3, <2>1, <2>2, Gather
<1>5. SessionsOK'
  BY <1>1, SessionsStay
<1>6. Claims'
  BY <1>1, IdleTyped, ClaimsNothing
<1> QED
  BY <1>4, <1>5, <1>6 DEF Kept

(* The client gives up during the turn: the request only has its session to  *)
(* delete.                                                                   *)
LEMMA CancelKeeps ==
  ASSUME Inv, NEW w \in Workers, NEW trace \in Traces, Cancel(w, trace)
  PROVE  Kept /\ RunsGrow(runs, runs')
<1> USE DEF Inv
<1>1. Happens /\ UNCHANGED results
  BY DEF Cancel
<1>2. used' \in Uses /\ Counted' /\ Later
  BY <1>1, UsedEvent
<1>3. CASE /\ worker[w].pc = "turn"
           /\ runs' = [runs EXCEPT ![worker[w].run] = trace]
           /\ CleanUp(w, "cancelled", None)
  <2>1. PICK r : r = worker[w].run
    OBVIOUS
  <2> DEFINE pc == "cancelled"
  <2>2. /\ pc \in {"cleanup", "cancelled"} /\ pc # "cleanup" /\ Begun(worker[w].pc)
        /\ CleanUp(w, pc, None) /\ worker[w].pc = "turn"
    BY <1>3 DEF Begun
  <2> HIDE DEF pc
  <2>3. /\ runs' \in Seq(Traces \cup {None}) /\ RunsGrow(runs, runs')
        /\ \A v \in Workers : v # w /\ worker[v].pc = "turn" => runs'[worker[v].run] = None
    BY <1>3, <2>1, RunEnds
  <2>4. /\ Goes(w, pc, worker[w].items, worker[w].session, worker[w].run, None)
        /\ worker[w].session \in 1..Len(sessions')
        /\ sessions' \in Seq(Session) /\ Len(sessions) <= Len(sessions')
        /\ SessionsOK' /\ UNCHANGED <<definitions, suite_runs>>
    BY <1>2, <2>2, CleanUpEffect
  <2>5. results' \in Seq(Result) /\ PairsKept(results, results')
    BY <1>1, SameGrown DEF TypeOK
  <2> QED
    BY <1>2, <2>2, <2>3, <2>4, <2>5, OutcomeKeeps
<1>4. CASE /\ worker[w].pc \in {"cleanup", "cancelled"}
           /\ worker' = [worker EXCEPT ![w] = Idle]
           /\ UNCHANGED <<definitions, suite_runs, runs, sessions>>
  BY <1>1, <1>2, <1>4, IdleKeeps, SameGrown
<1> QED
  BY <1>3, <1>4 DEF Cancel

(* The session is deleted, or the deletion gave up: the item is filed, or    *)
(* the request is over.                                                      *)
LEMMA CleanupReturnsKeeps ==
  ASSUME Inv, NEW w \in Workers, CleanupReturns(w)
  PROVE  Kept
<1> USE DEF Inv
<1> DEFINE item == IF sessions[worker[w].session].raised THEN ErrorItem(w)
                   ELSE worker[w].outcome
<1>1. /\ worker[w].pc \in {"cleanup", "cancelled"} /\ worker[w].pc # "turn"
      /\ Begun(worker[w].pc)
      /\ UNCHANGED <<definitions, results, suite_runs, runs, sessions, used>>
      /\ worker' = [worker EXCEPT ![w] = IF worker[w].pc = "cancelled" THEN Idle
                                         ELSE WithItem(w, item)]
  BY DEF CleanupReturns, Begun
<1>2. used' \in Uses /\ Counted' /\ Later
  BY <1>1, UsedStays
<1>3. CASE worker[w].pc = "cancelled"
  BY <1>1, <1>2, <1>3, IdleKeeps
<1>4. CASE worker[w].pc = "cleanup"
  <2>1. /\ Len(worker[w].inputs) = Len(worker[w].case_ids)
        /\ Len(worker[w].items) < Len(worker[w].case_ids) /\ Len(sessions) \in Nat
        /\ OutcomeOK(worker[w], runs, results)
    BY <1>1, <1>4, AtItem DEF LocalsOK
  <2>2. /\ item \in Item /\ item.run \in {0, worker[w].run}
        /\ item.case = worker[w].case_ids[Len(worker[w].items) + 1]
        /\ Verdict(item, runs, results)
    <3>1. CASE item = ErrorItem(w)
      BY <2>1, <3>1, ErrorMade
    <3>2. CASE item = worker[w].outcome
      BY <2>1, <3>2 DEF OutcomeOK
    <3> QED
      BY <3>1, <3>2
  <2> HIDE DEF item
  <2>3. worker' = [worker EXCEPT ![w] = WithItem(w, item)]
    BY <1>1, <1>4
  <2>4. Others(w)
    BY <2>3 DEF Others, TypeOK
  <2>5. sessions' \in Seq(Session) /\ Len(sessions) <= Len(sessions') /\ SessionsOK'
    BY <1>1, <1>2, <2>1, <2>4, SessionsStay DEF TypeOK
  <2> QED
    BY <1>1, <1>2, <2>2, <2>3, <2>5, ItemKeeps
<1> QED
  BY <1>1, <1>3, <1>4

(* How a suite run counts its items.                                         *)
LEMMA ItemsCounted ==
  ASSUME NEW items \in Seq(Item),
         \A i \in DOMAIN items : items[i].error => ~items[i].passed
  PROVE  /\ Passed(items) \in Nat /\ Errors(items) \in Nat /\ Failed(items) \in Nat
         /\ SuitePasses(items) <=> \A i \in DOMAIN items : items[i].passed
<1> DEFINE n == Len(items)
           P == {i \in DOMAIN items : items[i].passed}
           E == {i \in DOMAIN items : items[i].error}
<1>1. n \in Nat /\ DOMAIN items = 1..n
  OBVIOUS
<1>2. Passed(items) = Cardinality(P) /\ Errors(items) = Cardinality(E)
  BY DEF Passed, Errors, Count
<1>3. P \subseteq 1..n /\ E \subseteq 1..n /\ P \cap E = {}
      /\ (P = 1..n <=> \A i \in DOMAIN items : items[i].passed)
  BY <1>1
<1> HIDE DEF n, P, E
<1>4. IsFiniteSet(1..n) /\ Cardinality(1..n) = n
  BY <1>1, FS_Interval
<1>5. /\ IsFiniteSet(P) /\ IsFiniteSet(E)
      /\ Cardinality(P) \in Nat /\ Cardinality(E) \in Nat
      /\ Cardinality(P) <= n /\ (Cardinality(P) = n => P = 1..n)
  <2>1. IsFiniteSet(P) /\ Cardinality(P) <= Cardinality(1..n)
        /\ (Cardinality(P) = Cardinality(1..n) => P = 1..n)
    BY <1>3, <1>4, FS_Subset
  <2>2. IsFiniteSet(E)
    BY <1>3, <1>4, FS_Subset
  <2> QED
    BY <1>4, <2>1, <2>2, FS_CardinalityType
<1>6. Cardinality(P \cup E) = Cardinality(P) + Cardinality(E)
  <2>1. Cardinality(P \cap E) = 0
    BY <1>3, FS_EmptySet
  <2>2. Cardinality(P \cup E) = Cardinality(P) + Cardinality(E) - Cardinality(P \cap E)
    BY <1>5, FS_Union
  <2> QED
    BY <1>5, <2>1, <2>2
<1>7. Cardinality(P \cup E) <= n
  <2>1. P \cup E \in SUBSET (1..n)
    BY <1>3
  <2>2. Cardinality(P \cup E) <= Cardinality(1..n)
    BY <1>4, <2>1, FS_Subset
  <2> QED
    BY <1>4, <2>2
<1>8. Failed(items) = n - Cardinality(P) - Cardinality(E)
  BY <1>2 DEF Failed, n
<1>9. Failed(items) \in Nat
  BY <1>1, <1>5, <1>6, <1>7, <1>8
<1>10. SuitePasses(items) <=> Cardinality(P) = n
  BY <1>2 DEF SuitePasses, n
<1> QED
  BY <1>2, <1>3, <1>4, <1>5, <1>9, <1>10

(* A request that has all its items, and what it files of them.              *)
LEMMA AllItems ==
  ASSUME TypeOK, Requests, NEW w \in Workers, Done(w)
  PROVE  /\ worker[w].pc # "turn" /\ worker[w] \in Worker
         /\ worker[w].items \in Seq(Item) /\ worker[w].case_ids \in Seq(Cases)
         /\ Len(worker[w].items) = Len(worker[w].case_ids)
         /\ ItemsFor(worker[w].items, worker[w].case_ids, runs, results)
         /\ \A i \in DOMAIN worker[w].items :
              worker[w].items[i].error => ~worker[w].items[i].passed
<1>1. worker[w] \in Worker /\ worker[w].items \in Seq(Item)
      /\ worker[w].case_ids \in Seq(Cases)
  BY DEF TypeOK, Worker
<1>2. ItemsFor(worker[w].items, worker[w].case_ids, runs, results)
  BY DEF Requests, LocalsOK
<1>3. Len(worker[w].items) = Len(worker[w].case_ids)
  BY <1>1, <1>2 DEF ItemsFor, Done, Position
<1>4. \A i \in DOMAIN worker[w].items :
        worker[w].items[i].error => ~worker[w].items[i].passed
  BY <1>2 DEF ItemsFor, Verdict
<1> QED
  BY <1>1, <1>2, <1>3, <1>4 DEF Done

(* The suite run made of a request that is done: an item for every case, and *)
(* a verdict that is theirs.                                                 *)
LEMMA SuiteRunMade ==
  ASSUME TypeOK, Requests, NEW w \in Workers, Done(w), worker[w].suite # None
  PROVE  /\ SuiteRunOf(w) \in SuiteRun /\ SuiteRunOf(w).items = worker[w].items
         /\ SuiteRunOK(SuiteRunOf(w), runs, results)
<1> DEFINE items == worker[w].items
           case_ids == worker[w].case_ids
           suite == worker[w].suite
           run == SuiteRunOf(w)
           a == Passed(items)
           b == Failed(items)
           c == Errors(items)
           d == SuitePasses(items)
<1>1. /\ worker[w] \in Worker /\ items \in Seq(Item) /\ case_ids \in Seq(Cases)
      /\ Len(items) = Len(case_ids) /\ ItemsFor(items, case_ids, runs, results)
      /\ \A i \in DOMAIN items : items[i].error => ~items[i].passed
  BY AllItems
<1>2. suite \in Suites
  BY <1>1 DEF Worker
<1>3. run = [suite |-> suite, case_ids |-> case_ids, items |-> items,
             passed_count |-> a, failed_count |-> b, error_count |-> c, passed |-> d]
  BY DEF SuiteRunOf
<1> HIDE DEF items, run
<1>4. a \in Nat /\ b \in Nat /\ c \in Nat
      /\ (d <=> \A i \in DOMAIN items : items[i].passed)
  BY <1>1, ItemsCounted
<1>5. d \in BOOLEAN
  BY DEF SuitePasses
<1> HIDE DEF case_ids, suite, a, b, c, d
<1>6. run \in SuiteRun
  BY <1>1, <1>2, <1>3, <1>4, <1>5 DEF SuiteRun
<1>7. run.items = items /\ run.case_ids = case_ids /\ run.passed = d
  BY <1>3
<1>8. SuiteRunOK(run, runs, results)
  BY <1>1, <1>4, <1>7 DEF SuiteRunOK
<1> QED
  BY <1>6, <1>7, <1>8 DEF run, items

(* It is stored: the runs the request held are now filed, once each.         *)
LEMMA SaveSuiteRunKeeps ==
  ASSUME Inv, NEW w \in Workers, SaveSuiteRun(w)
  PROVE  Kept /\ SuiteRuns'
<1> USE DEF Inv
<1>1. /\ Done(w) /\ worker' = [worker EXCEPT ![w] = Idle]
      /\ UNCHANGED <<definitions, results, runs, sessions, used>>
  BY DEF SaveSuiteRun, Return
<1>2. used' \in Uses /\ Counted' /\ Later
  BY <1>1, UsedStays
<1>3. worker[w].pc # "turn"
  BY <1>1, AllItems
<1>4. CASE worker[w].suite = None
  <2>1. suite_runs' = suite_runs
    BY <1>4 DEF SaveSuiteRun
  <2>2. Kept
    BY <1>1, <1>2, <1>3, <2>1, IdleKeeps
  <2>3. SuiteRuns'
    BY <1>1, <2>1 DEF SuiteRuns
  <2> QED
    BY <2>2, <2>3
<1>5. CASE worker[w].suite # None
  <2> DEFINE run == SuiteRunOf(w)
  <2>1. suite_runs' = Append(suite_runs, run)
    BY <1>5 DEF SaveSuiteRun
  <2>2. run \in SuiteRun /\ run.items = worker[w].items /\ SuiteRunOK(run, runs, results)
    BY <1>1, <1>5, SuiteRunMade
  <2> HIDE DEF run
  <2>3. /\ suite_runs' \in Seq(SuiteRun) /\ DOMAIN suite_runs = 1..Len(suite_runs)
        /\ DOMAIN suite_runs' = 1..(Len(suite_runs) + 1)
        /\ \A k \in 1..Len(suite_runs) : suite_runs'[k] = suite_runs[k]
        /\ suite_runs'[Len(suite_runs) + 1] = run
    BY <2>1, <2>2, AppendFacts DEF TypeOK
  <2>4. worker' \in [Workers -> Worker] /\ worker'[w] = Idle /\ Others(w)
    BY <1>1, IdleTyped DEF TypeOK, Others
  <2>5. /\ Len(sessions) \in Nat /\ Len(runs) \in Nat /\ RunsGrow(runs, runs)
        /\ PairsKept(results, results')
    BY <1>1, SameGrown
  <2>6. LocalsOK(worker'[w], Known, runs', results', Len(sessions'))
    BY <1>1, <2>4, <2>5, IdleTyped
  <2>7. BaseKept
    <3>1. /\ results' \in Seq(Result)
          /\ runs' \in Seq(Traces \cup {None}) /\ sessions' \in Seq(Session)
          /\ RunsGrow(runs, runs') /\ Len(sessions) <= Len(sessions')
          /\ UNCHANGED definitions
      BY <1>1, <2>5 DEF TypeOK
    <3>2. \A v \in Workers : v # w /\ worker[v].pc = "turn" => runs'[worker[v].run] = None
      BY <1>1, TurnsRun
    <3> QED
      BY <1>2, <2>3, <2>4, <2>5, <2>6, <3>1, <3>2, Gather
  <2>8. SessionsOK'
    BY <1>1, <1>2, <1>3, <2>4, SessionsStay
  <2>9. Claims'
    BY <2>1, <2>2, <2>4, IdleTyped, ClaimsFiled
  <2>10. SuiteRuns'
    <3> SUFFICES ASSUME NEW k \in DOMAIN suite_runs'
                 PROVE  SuiteRunOK(suite_runs'[k], runs, results)
      BY <1>1 DEF SuiteRuns
    <3>1. CASE k \in 1..Len(suite_runs)
      BY <2>3, <3>1 DEF SuiteRuns
    <3>2. CASE k = Len(suite_runs) + 1
      BY <2>2, <2>3, <3>2
    <3> QED
      BY <2>3, <3>1, <3>2
  <2> QED
    BY <2>7, <2>8, <2>9, <2>10 DEF Kept
<1> QED
  BY <1>4, <1>5

(* Storing it raises: the runs the request held are filed nowhere.           *)
LEMMA SaveSuiteRunRaisesKeeps ==
  ASSUME Inv, NEW w \in Workers, SaveSuiteRunRaises(w)
  PROVE  Kept
<1> USE DEF Inv
<1>1. /\ Done(w) /\ worker' = [worker EXCEPT ![w] = Idle] /\ Fault
      /\ UNCHANGED <<definitions, results, suite_runs, runs, sessions>>
  BY DEF SaveSuiteRunRaises, Return
<1> QED
  BY <1>1, AllItems, UsedFault, IdleKeeps

(* Only the sessions change.                                                 *)
LEMMA OnlySessions ==
  ASSUME Inv, UNCHANGED <<definitions, results, suite_runs, runs, worker>>,
         used' \in Uses, Counted', sessions' \in Seq(Session),
         Len(sessions') = Len(sessions), SessionsOK'
  PROVE  Kept
<1> USE DEF Inv
<1>1. Definitions' /\ Known' = Known /\ cases' = cases /\ suites' = suites
  BY DefinitionsStay
<1>2. TypeOK'
  BY <1>1 DEF TypeOK, Uses
<1>3. Grown
  BY <1>1, SameGrown DEF Grown
<1>4. Requests'
  BY <1>3, RequestsStay
<1>5. Claims'
  BY DEF Claims
<1> QED
  BY <1>1, <1>2, <1>3, <1>4, <1>5 DEF Kept, BaseKept

(* A client deletes a session by itself, a temporary one included.           *)
LEMMA ClientDeleteKeeps ==
  ASSUME Inv, NEW s \in DOMAIN sessions, ClientDelete(s)
  PROVE  Kept
<1> USE DEF Inv
<1> DEFINE x == DeleteBegun(sessions[s], "client")
<1>1. /\ sessions' = [sessions EXCEPT ![s] = x] /\ Happens
      /\ UNCHANGED <<definitions, results, suite_runs, runs, worker>>
  BY DEF ClientDelete
<1>2. used' \in Uses /\ Counted' /\ Later
  BY <1>1, UsedEvent
<1>3. sessions[s] \in Session /\ SessionOK(sessions[s], InTurn(s), used)
  BY DEF TypeOK, SessionsOK
<1>4. x \in Session /\ SessionOK(x, InTurn(s)', used')
  BY <1>3, DeletionBegun DEF Deleters, SessionOK
<1> HIDE DEF x
<1>5. \A t \in DOMAIN sessions : t # s /\ InTurn(t) => InTurn(t)'
  BY <1>1 DEF InTurn
<1>6. sessions' \in Seq(Session) /\ Len(sessions') = Len(sessions) /\ SessionsOK'
  BY <1>1, <1>2, <1>4, <1>5, SessionChanged
<1> QED
  BY <1>1, <1>2, <1>6, OnlySessions

(* A deletion that returns, or raises: whoever was to close the session has. *)
Deleted(session, d) ==
  [session EXCEPT !.deleting = session.deleting \ {d}, !.stored = FALSE,
                  !.open = session.open /\ session.closer # d]
NotDeleted(session, d) ==
  [session EXCEPT !.deleting = session.deleting \ {d},
                  !.raised = session.raised \/ d = "runner",
                  !.open = session.open /\ session.closer # d]

(* What a deletion that returned leaves of a session.                        *)
LEMMA DeletedFacts ==
  ASSUME NEW session \in Session, NEW d \in Deleters
  PROVE  LET x == Deleted(session, d)
         IN /\ x \in Session /\ (x.live <=> session.live) /\ ~x.stored
            /\ (x.open => session.open /\ session.closer # d)
            /\ x.closer = session.closer /\ x.deleting = session.deleting \ {d}
<1> DEFINE deleting == session.deleting \ {d}
           open == session.open /\ session.closer # d
           a == [session EXCEPT !.deleting = deleting]
           b == [a EXCEPT !.stored = FALSE]
           c == [b EXCEPT !.open = open]
<1>1. deleting \in SUBSET Deleters /\ open \in BOOLEAN
  BY DEF Session
<1>2. Deleted(session, d) = c
  BY DEF Deleted
<1> HIDE DEF deleting, open
<1>3. /\ a \in Session /\ a.live = session.live /\ a.closer = session.closer
      /\ a.deleting = deleting
  BY <1>1 DEF Session
<1> HIDE DEF a
<1>4. /\ b \in Session /\ b.live = a.live /\ b.closer = a.closer /\ b.deleting = a.deleting
      /\ ~b.stored
  BY <1>3 DEF Session
<1> HIDE DEF b
<1>5. /\ c \in Session /\ c.live = b.live /\ c.closer = b.closer /\ c.deleting = b.deleting
      /\ c.stored = b.stored /\ c.open = open
  BY <1>1, <1>4 DEF Session
<1> HIDE DEF c
<1> QED
  BY <1>2, <1>3, <1>4, <1>5 DEF deleting, open

(* What a deletion that raised leaves of it: the row may stay, and the fault *)
(* is counted.                                                               *)
LEMMA NotDeletedFacts ==
  ASSUME NEW session \in Session, NEW d \in Deleters
  PROVE  LET x == NotDeleted(session, d)
         IN /\ x \in Session /\ (x.live <=> session.live)
            /\ (x.open => session.open /\ session.closer # d)
            /\ x.closer = session.closer /\ x.deleting = session.deleting \ {d}
<1> DEFINE deleting == session.deleting \ {d}
           raised == session.raised \/ d = "runner"
           open == session.open /\ session.closer # d
           a == [session EXCEPT !.deleting = deleting]
           b == [a EXCEPT !.raised = raised]
           c == [b EXCEPT !.open = open]
<1>1. deleting \in SUBSET Deleters /\ open \in BOOLEAN /\ raised \in BOOLEAN
  BY DEF Session
<1>2. NotDeleted(session, d) = c
  BY DEF NotDeleted
<1> HIDE DEF deleting, open, raised
<1>3. /\ a \in Session /\ a.live = session.live /\ a.closer = session.closer
      /\ a.deleting = deleting
  BY <1>1 DEF Session
<1> HIDE DEF a
<1>4. /\ b \in Session /\ b.live = a.live /\ b.closer = a.closer /\ b.deleting = a.deleting
  BY <1>1, <1>3 DEF Session
<1> HIDE DEF b
<1>5. /\ c \in Session /\ c.live = b.live /\ c.closer = b.closer /\ c.deleting = b.deleting
      /\ c.open = open
  BY <1>1, <1>4 DEF Session
<1> HIDE DEF c
<1> QED
  BY <1>2, <1>3, <1>4, <1>5 DEF deleting, open

(* A deletion ends, of a client or of a request.                             *)
LEMMA DeleteReturnsKeeps ==
  ASSUME Inv, NEW s \in DOMAIN sessions, NEW d \in Deleters, DeleteReturns(s, d)
  PROVE  Kept
<1> USE DEF Inv
<1>1. sessions[s] \in Session /\ SessionOK(sessions[s], InTurn(s), used)
  BY DEF TypeOK, SessionsOK
<1>2. /\ UNCHANGED <<definitions, results, suite_runs, runs, worker>>
      /\ \A t \in DOMAIN sessions : InTurn(t) => InTurn(t)'
      /\ InTurn(s)' = InTurn(s)
  BY DEF DeleteReturns, InTurn
<1>3. \/ sessions' = [sessions EXCEPT ![s] = Deleted(sessions[s], d)] /\ UNCHANGED used
      \/ sessions' = [sessions EXCEPT ![s] = NotDeleted(sessions[s], d)] /\ Fault
  BY DEF DeleteReturns, Deleted, NotDeleted
<1>4. CASE sessions' = [sessions EXCEPT ![s] = Deleted(sessions[s], d)] /\ UNCHANGED used
  <2> DEFINE x == Deleted(sessions[s], d)
  <2>1. used' \in Uses /\ Counted' /\ Later
    BY <1>4, UsedStays
  <2> DEFINE session == sessions[s]
  <2>0. /\ x \in Session /\ (x.live <=> session.live) /\ ~x.stored
        /\ (x.open => session.open /\ session.closer # d)
        /\ x.closer = session.closer /\ x.deleting = session.deleting \ {d}
    BY <1>1, DeletedFacts
  <2> HIDE DEF x, session
  <2>2. x \in Session /\ SessionOK(x, InTurn(s)', used')
    <3>1. /\ (used.faults = 0 /\ session.live => InTurn(s))
          /\ (session.open => session.live \/ session.closer \in session.deleting)
      BY <1>1 DEF SessionOK, session
    <3>2. used'.faults = 0 /\ x.live => InTurn(s)'
      BY <1>2, <2>0, <2>1, <3>1 DEF Later
    <3>3. x.open => x.live \/ x.closer \in x.deleting
      BY <2>0, <3>1
    <3> QED
      BY <2>0, <3>2, <3>3 DEF SessionOK
  <2>3. sessions' \in Seq(Session) /\ Len(sessions') = Len(sessions) /\ SessionsOK'
    BY <1>2, <1>4, <2>1, <2>2, SessionChanged DEF x
  <2> QED
    BY <1>2, <2>1, <2>3, OnlySessions
<1>5. CASE sessions' = [sessions EXCEPT ![s] = NotDeleted(sessions[s], d)] /\ Fault
  <2> DEFINE x == NotDeleted(sessions[s], d)
  <2>1. /\ used' \in Uses /\ Counted' /\ Later /\ used'.faults # 0
        /\ used'.faults + used'.crashes # 0
    BY <1>5, UsedFault
  <2> DEFINE session == sessions[s]
  <2>0. /\ x \in Session /\ (x.live <=> session.live)
        /\ (x.open => session.open /\ session.closer # d)
        /\ x.closer = session.closer /\ x.deleting = session.deleting \ {d}
    BY <1>1, NotDeletedFacts
  <2> HIDE DEF x, session
  <2>2. x \in Session /\ SessionOK(x, InTurn(s)', used')
    <3>1. session.open => session.live \/ session.closer \in session.deleting
      BY <1>1 DEF SessionOK, session
    <3>2. x.open => x.live \/ x.closer \in x.deleting
      BY <2>0, <3>1
    <3> QED
      BY <2>0, <2>1, <3>2 DEF SessionOK
  <2>3. sessions' \in Seq(Session) /\ Len(sessions') = Len(sessions) /\ SessionsOK'
    BY <1>2, <1>5, <2>1, <2>2, SessionChanged DEF x
  <2> QED
    BY <1>2, <2>1, <2>3, OnlySessions
<1> QED
  BY <1>3, <1>4, <1>5

(* The process dies: requests and live sessions are gone, the tables stay.   *)
LEMMA CrashKeeps ==
  ASSUME Inv, Crash
  PROVE  Kept
<1> USE DEF Inv
<1>1. /\ worker' = [w \in Workers |-> Idle]
      /\ sessions' = [s \in DOMAIN sessions |->
           [sessions[s] EXCEPT !.live = FALSE, !.open = FALSE, !.deleting = {}]]
      /\ UNCHANGED <<definitions, results, suite_runs, runs>>
  BY DEF Crash
<1>2. used' \in Uses /\ Counted' /\ used'.faults + used'.crashes # 0
  BY CrashCounted
<1>3. sessions \in Seq(Session) /\ Len(sessions) \in Nat
  BY DEF TypeOK
<1>4. ASSUME NEW s \in DOMAIN sessions
      PROVE  sessions'[s] \in Session /\ ~sessions'[s].live /\ ~sessions'[s].open
  <2> DEFINE a == [sessions[s] EXCEPT !.live = FALSE]
             b == [a EXCEPT !.open = FALSE]
             c == [b EXCEPT !.deleting = {}]
  <2>1. sessions'[s] = c
    BY <1>1
  <2>2. sessions[s] \in Session
    BY <1>3
  <2>3. a \in Session /\ ~a.live
    BY <2>2 DEF Session
  <2> HIDE DEF a
  <2>4. b \in Session /\ ~b.live /\ ~b.open
    BY <2>3 DEF Session
  <2> HIDE DEF b
  <2>5. c \in Session /\ ~c.live /\ ~c.open
    BY <2>4 DEF Session
  <2> HIDE DEF c
  <2> QED
    BY <2>1, <2>5
<1>5. /\ sessions' \in Seq(Session) /\ Len(sessions') = Len(sessions)
      /\ DOMAIN sessions' = DOMAIN sessions
  <2>0. DOMAIN sessions' = DOMAIN sessions
    BY <1>1
  <2>1. DOMAIN sessions' = 1..Len(sessions) /\ DOMAIN sessions = 1..Len(sessions)
    BY <1>3, <2>0
  <2>2. sessions' = [s \in 1..Len(sessions) |-> sessions'[s]]
    BY <1>1, <2>1
  <2>3. sessions' \in [1..Len(sessions) -> Session]
    BY <1>4, <2>1, <2>2
  <2>4. sessions' \in Seq(Session)
    BY <1>3, <2>3
  <2> QED
    BY <1>3, <2>1, <2>4
<1>6. SessionsOK'
  <2> SUFFICES ASSUME NEW s \in DOMAIN sessions'
               PROVE  SessionOK(sessions'[s], InTurn(s)', used')
    BY DEF SessionsOK
  <2> QED
    BY <1>2, <1>4, <1>5 DEF SessionOK
<1>7. Definitions' /\ Known' = Known /\ cases' = cases /\ suites' = suites
  BY <1>1, DefinitionsStay
<1>8. worker' \in [Workers -> Worker]
  BY <1>1, IdleTyped
<1>9. TypeOK'
  BY <1>1, <1>2, <1>5, <1>7, <1>8 DEF TypeOK, Uses
<1>10. Grown
  <2>1. RunsGrow(runs, runs') /\ PairsKept(results, results')
    BY <1>1, SameGrown
  <2>2. Len(sessions') \in Nat /\ Len(sessions) <= Len(sessions')
    BY <1>3, <1>5
  <2> QED
    BY <1>3, <1>7, <2>1, <2>2 DEF Grown
<1>11. Requests'
  <2> SUFFICES ASSUME NEW w \in Workers
               PROVE  LocalsOK(worker'[w], Known', runs', results', Len(sessions'))
    BY DEF Requests
  <2>1. Len(runs') \in Nat /\ Len(sessions') \in Nat
    BY <1>1, <1>3, <1>5, SameGrown
  <2> QED
    BY <1>1, <2>1, IdleTyped
<1>12. Claims'
  BY <1>1, ClaimsDropped
<1> QED
  BY <1>2, <1>6, <1>7, <1>9, <1>10, <1>11, <1>12 DEF Kept, BaseKept

-----------------------------------------------------------------------------
(* The invariant.                                                            *)

(* Results stay reproducible when runs end, and suite runs stay complete.    *)
LEMMA ResultsStay ==
  ASSUME Results, UNCHANGED results, RunsGrow(runs, runs')
  PROVE  Results'
  BY ReproducesKept DEF Results

(* Suite runs that no step writes stay complete.                             *)
LEMMA SuiteRunsStay ==
  ASSUME SuiteRuns, UNCHANGED suite_runs, Grown
  PROVE  SuiteRuns'
  BY SuiteRunKept DEF SuiteRuns, Grown

(* The invariant from its parts.                                             *)
LEMMA Inductive ==
  ASSUME Kept, Results', SuiteRuns'
  PROVE  Inv'
  BY DEF Kept, BaseKept, Inv

(* The tables of results and suite runs are left alone.                      *)
LEMMA NothingStored ==
  ASSUME Inv, Kept, UNCHANGED <<results, suite_runs>>
  PROVE  Inv'
  BY ResultsStay, SuiteRunsStay, Inductive DEF Inv, Kept, BaseKept, Grown

(* A definition is edited or a run evaluated: no request and no session      *)
(* changes.                                                                  *)
LEMMA RequestsUnmoved ==
  ASSUME Inv, BaseKept, Happens, UNCHANGED <<worker, sessions, suite_runs>>
  PROVE  Kept
<1> USE DEF Inv
<1>1. Later
  BY UsedEvent
<1>2. \A s \in DOMAIN sessions' : InTurn(s) => InTurn(s)'
  BY DEF InTurn
<1>3. SessionsOK'
  BY <1>1, <1>2, SessionsFollow
<1>4. Claims'
  BY DEF Claims
<1> QED
  BY <1>3, <1>4 DEF Kept

(* A request for a case or a suite begins.                                   *)
LEMMA BeginInv ==
  ASSUME Inv, NEW w \in Workers, NEW suite \in Suites \cup {None},
         NEW case_ids \in Seq(Cases), \A i \in DOMAIN case_ids : case_ids[i] \in Known,
         Begin(w, suite, case_ids)
  PROVE  Inv'
<1> USE DEF Inv
<1>1. /\ BaseKept /\ Others(w) /\ worker[w].pc = "idle"
      /\ worker'[w].items = <<>> /\ worker'[w].run = 0
      /\ UNCHANGED <<used.faults, used.crashes>>
  BY BeginKeeps DEF Base
<1>2. UNCHANGED <<results, suite_runs, sessions>>
  BY DEF Begin
<1>3. Later
  BY <1>1 DEF Later
<1>4. SessionsOK'
  BY <1>1, <1>2, <1>3, SessionsStay
<1>5. Claims'
  BY <1>1, <1>2, ClaimsNothing
<1> QED
  BY <1>1, <1>2, <1>4, <1>5, NothingStored DEF Kept

(* A result is saved by hand.                                                *)
LEMMA EvaluateRunInv ==
  ASSUME Inv, NEW c \in Cases, NEW r \in DOMAIN runs, EvaluateRun(c, r)
  PROVE  Inv'
<1> USE DEF Inv
<1> DEFINE row == Evaluated(c, r, runs[r])
<1>1. /\ results' = Saved(row) /\ c \in Known /\ runs[r] # None /\ Happens
      /\ UNCHANGED <<suite_runs, runs, sessions, worker>>
  BY DEF EvaluateRun
<1>2. BaseKept
  BY EvaluateRunKeeps DEF Base
<1>3. Kept
  BY <1>1, <1>2, RequestsUnmoved
<1>4. /\ row \in Result /\ row.run = r
      /\ row.score = Score(Checks(row.input.expectations, runs[r]))
      /\ row.passed = Meets(row.score, row.input.pass_threshold)
  <2>1. r \in Nat
    BY DEF TypeOK
  <2> QED
    BY <1>1, <2>1, EvaluatedFacts
<1> HIDE DEF row
<1>5. Upserted(results', row)
  BY <1>1, <1>4, RowSaved DEF Base
<1>6. Reproduces(row, runs)
  BY <1>1, <1>4 DEF Reproduces
<1>7. \A i \in DOMAIN results' : Reproduces(results'[i], runs)
  BY <1>5, <1>6 DEF Upserted, Results
<1>8. Results'
  BY <1>1, <1>5, <1>7 DEF Results, Upserted
<1>9. SuiteRuns'
  BY <1>1, <1>2, SuiteRunsStay DEF BaseKept
<1> QED
  BY <1>3, <1>8, <1>9, Inductive

(* The invariant holds at the start.                                         *)
LEMMA InitInv == Init => Inv
<1> SUFFICES ASSUME Init PROVE Inv
  OBVIOUS
<1>1. /\ results = <<>> /\ suite_runs = <<>> /\ runs = <<>> /\ sessions = <<>>
      /\ worker = [w \in Workers |-> Idle]
      /\ used = [runs |-> 0, events |-> 0, faults |-> 0, crashes |-> 0]
  BY DEF Init
<1>2. /\ cases \in [Cases -> Inputs \cup {None}]
      /\ \A c \in Known : ValidExpectations(cases[c].expectations)
  BY DEF Init, Known
<1>3. ASSUME NEW s \in Suites
      PROVE  /\ suites[s] \in Seq(Cases)
             /\ \A i \in DOMAIN suites[s] : suites[s][i] \in Known
  <2>1. CASE suites[s] = <<>>
    BY <2>1
  <2>2. CASE suites[s] # <<>>
    <3>1. suites[s] \in CaseIds(Known)
      BY <2>2 DEF Init, Known
    <3>2. Known \in SUBSET Cases
      BY DEF Known
    <3> QED
      BY <3>1, <3>2, CaseIdsFacts
  <2> QED
    BY <2>1, <2>2
<1>4. suites \in [Suites -> Seq(Cases)]
  BY <1>3 DEF Init
<1>5. TypeOK
  <2>1. used \in [runs: 0..MaxRuns, events: 0..MaxEvents, faults: 0..MaxEvents,
                  crashes: 0..MaxEvents]
    BY <1>1, EvaluationsAssumption
  <2>2. worker \in [Workers -> Worker]
    BY <1>1, IdleTyped
  <2>3. /\ results \in Seq(Result) /\ suite_runs \in Seq(SuiteRun)
        /\ runs \in Seq(Traces \cup {None}) /\ sessions \in Seq(Session)
    BY <1>1
  <2> QED
    BY <1>2, <1>4, <2>1, <2>2, <2>3 DEF TypeOK
<1>6. Counted
  BY <1>1 DEF Counted
<1>7. Definitions
  BY <1>2, <1>3 DEF Definitions
<1>8. SessionsOK
  BY <1>1 DEF SessionsOK
<1>9. Requests
  <2>1. Len(runs) \in Nat /\ Len(sessions) \in Nat
    BY <1>1
  <2> QED
    BY <1>1, <2>1, IdleTyped DEF Requests
<1>10. Claims
  <2>1. \A w \in Workers : \A i \in Holders(worker[w]) : ~Taken(Held(worker[w], i))
    BY <1>1, IdleTyped DEF Holders, Held, Taken
  <2>2. DOMAIN suite_runs = {}
    BY <1>1
  <2> QED
    BY <2>1, <2>2 DEF Claims
<1>11. Results /\ SuiteRuns
  BY <1>1 DEF Results, SuiteRuns, OnePerPair
<1> QED
  BY <1>5, <1>6, <1>7, <1>8, <1>9, <1>10, <1>11 DEF Inv

(* Every step keeps the invariant.                                           *)
LEMMA NextInv == Inv /\ [Next]_vars => Inv'
<1> SUFFICES ASSUME Inv, [Next]_vars PROVE Inv'
  OBVIOUS
<1> USE DEF Inv
<1>1. ASSUME NEW c \in Cases, NEW input \in Inputs, PutCase(c, input) PROVE Inv'
  <2>1. BaseKept
    BY <1>1, PutCaseKeeps DEF Base
  <2>2. Happens /\ UNCHANGED <<worker, sessions, suite_runs, results>>
    BY <1>1 DEF PutCase, Edited
  <2> QED
    BY <2>1, <2>2, RequestsUnmoved, NothingStored
<1>2. ASSUME NEW s \in Suites, NEW case_ids \in CaseIds(Known), PutSuite(s, case_ids)
      PROVE  Inv'
  <2>1. BaseKept
    BY <1>2, PutSuiteKeeps DEF Base
  <2>2. Happens /\ UNCHANGED <<worker, sessions, suite_runs, results>>
    BY <1>2 DEF PutSuite, Edited
  <2> QED
    BY <2>1, <2>2, RequestsUnmoved, NothingStored
<1>3. ASSUME NEW c \in Cases, NEW r \in DOMAIN runs, EvaluateRun(c, r) PROVE Inv'
  BY <1>3, EvaluateRunInv
<1>4. ASSUME NEW w \in Workers, NEW c \in Cases, ExecuteCase(w, c) PROVE Inv'
  <2>1. <<c>> \in Seq(Cases) /\ (\A i \in DOMAIN <<c>> : <<c>>[i] \in Known)
        /\ Begin(w, None, <<c>>)
    BY <1>4 DEF ExecuteCase
  <2> QED
    BY <2>1, BeginInv
<1>5. ASSUME NEW w \in Workers, NEW s \in Suites, ExecuteSuite(w, s) PROVE Inv'
  <2>1. suites[s] \in Seq(Cases) /\ (\A i \in DOMAIN suites[s] : suites[s][i] \in Known)
        /\ Begin(w, s, suites[s])
    BY <1>5 DEF ExecuteSuite, TypeOK, Definitions
  <2> QED
    BY <2>1, BeginInv
<1>6. ASSUME NEW w \in Workers, StartTurn(w) PROVE Inv'
  <2>1. UNCHANGED <<results, suite_runs>>
    BY <1>6 DEF StartTurn
  <2> QED
    BY <1>6, <2>1, StartTurnKeeps, NothingStored
<1>7. ASSUME NEW w \in Workers, CreateRaises(w) PROVE Inv'
  <2>1. UNCHANGED <<results, suite_runs>>
    BY <1>7 DEF CreateRaises
  <2> QED
    BY <1>7, <2>1, CreateRaisesKeeps, NothingStored
<1>8. ASSUME NEW w \in Workers, NoTrace(w) PROVE Inv'
  <2>1. UNCHANGED <<results, suite_runs>>
    BY <1>8 DEF NoTrace
  <2> QED
    BY <1>8, <2>1, NoTraceKeeps, NothingStored
<1>9. ASSUME NEW w \in Workers, NEW trace \in Traces, EndTurn(w, trace) PROVE Inv'
  <2>1. UNCHANGED suite_runs
    BY <1>9 DEF EndTurn, CleanUp
  <2>2. Kept /\ Results'
    BY <1>9, EndTurnKeeps
  <2>3. SuiteRuns'
    BY <2>1, <2>2, SuiteRunsStay DEF Kept, BaseKept
  <2> QED
    BY <2>2, <2>3, Inductive
<1>10. ASSUME NEW w \in Workers, NEW trace \in Traces, EndTurnRaises(w, trace) PROVE Inv'
  <2>1. UNCHANGED <<results, suite_runs>>
    BY <1>10 DEF EndTurnRaises, CleanUp
  <2> QED
    BY <1>10, <2>1, EndTurnRaisesKeeps, NothingStored
<1>11. ASSUME NEW w \in Workers, NEW trace \in Traces, Cancel(w, trace) PROVE Inv'
  <2>1. UNCHANGED <<results, suite_runs>>
    BY <1>11 DEF Cancel, CleanUp
  <2> QED
    BY <1>11, <2>1, CancelKeeps, NothingStored
<1>12. ASSUME NEW w \in Workers, CleanupReturns(w) PROVE Inv'
  <2>1. UNCHANGED <<results, suite_runs>>
    BY <1>12 DEF CleanupReturns
  <2> QED
    BY <1>12, <2>1, CleanupReturnsKeeps, NothingStored
<1>13. ASSUME NEW w \in Workers, SaveSuiteRun(w) PROVE Inv'
  <2>1. UNCHANGED results
    BY <1>13 DEF SaveSuiteRun, Return
  <2>2. Kept /\ SuiteRuns'
    BY <1>13, SaveSuiteRunKeeps
  <2>3. Results'
    BY <2>1, <2>2, ResultsStay DEF Kept, BaseKept, Grown
  <2> QED
    BY <2>2, <2>3, Inductive
<1>14. ASSUME NEW w \in Workers, SaveSuiteRunRaises(w) PROVE Inv'
  <2>1. UNCHANGED <<results, suite_runs>>
    BY <1>14 DEF SaveSuiteRunRaises, Return
  <2> QED
    BY <1>14, <2>1, SaveSuiteRunRaisesKeeps, NothingStored
<1>15. ASSUME NEW s \in DOMAIN sessions, ClientDelete(s) PROVE Inv'
  <2>1. UNCHANGED <<results, suite_runs>>
    BY <1>15 DEF ClientDelete
  <2> QED
    BY <1>15, <2>1, ClientDeleteKeeps, NothingStored
<1>16. ASSUME NEW s \in DOMAIN sessions, NEW d \in Deleters, DeleteReturns(s, d)
       PROVE  Inv'
  <2>1. UNCHANGED <<results, suite_runs>>
    BY <1>16 DEF DeleteReturns
  <2> QED
    BY <1>16, <2>1, DeleteReturnsKeeps, NothingStored
<1>17. ASSUME Crash PROVE Inv'
  <2>1. UNCHANGED <<results, suite_runs>>
    BY <1>17 DEF Crash
  <2> QED
    BY <1>17, <2>1, CrashKeeps, NothingStored
<1>18. ASSUME UNCHANGED vars PROVE Inv'
  <2>1. UNCHANGED <<cases, suites, results, suite_runs, runs, sessions, worker, used>>
    BY <1>18 DEF vars, definitions
  <2>2. TypeOK' /\ Counted'
    BY <2>1 DEF TypeOK, Counted
  <2>3. Definitions' /\ Requests'
    BY <2>1 DEF Definitions, Requests, Known
  <2>4. SessionsOK'
    BY <2>1 DEF SessionsOK, InTurn
  <2>5. Claims'
    BY <2>1 DEF Claims
  <2>6. Results' /\ SuiteRuns'
    BY <2>1 DEF Results, SuiteRuns
  <2> QED
    BY <2>2, <2>3, <2>4, <2>5, <2>6
<1> QED
  BY <1>1, <1>2, <1>3, <1>4, <1>5, <1>6, <1>7, <1>8, <1>9, <1>10, <1>11, <1>12, <1>13,
     <1>14, <1>15, <1>16, <1>17, <1>18 DEF Next

(* The invariant holds in every state.                                       *)
THEOREM InvariantHolds == Spec => []Inv
<1> QED
  BY InitInv, NextInv, PTL DEF Spec

(* The tables of definitions, results, runs, sessions and suite runs, and    *)
(* the locals of the requests, are what the code writes into them.           *)
THEOREM TypesHold == Spec => []TypeOK
<1>1. Inv => TypeOK
  BY DEF Inv
<1> QED
  BY <1>1, InvariantHolds, PTL

(* EVAL-006 and EVAL-007: a stored result is what its case said of the trace *)
(* of its run, for ever, and a case has one result for a run.                *)
THEOREM ReproducibleResults == Spec => []ResultsAreReproducible
<1>1. Inv => ResultsAreReproducible
  BY DEF Inv, Results, OnePerPair, SamePair, Reproduces, ResultsAreReproducible
<1> QED
  BY <1>1, InvariantHolds, PTL

(* EVALSUITE-004 to EVALSUITE-006 and EVALSUITE-010: a stored suite run has  *)
(* an item for each of its cases, each with a run of its own and a result,   *)
(* or an error, and a true verdict.                                          *)
THEOREM CompleteSuiteRuns == Spec => []SuiteRunsAreComplete
<1>1. ASSUME Inv PROVE SuiteRunsAreComplete
  <2> USE <1>1 DEF Inv
  <2> SUFFICES ASSUME NEW k \in DOMAIN suite_runs
               PROVE  LET items == suite_runs[k].items
         IN /\ [i \in DOMAIN items |-> items[i].case] = suite_runs[k].case_ids
            /\ suite_runs[k].passed <=> \A i \in DOMAIN items :
                                          items[i].passed /\ ~items[i].error
            /\ \A i \in DOMAIN items :
                 \/ items[i].error
                 \/ /\ \E row \in ToSet(results) :
                         row.case = items[i].case /\ row.run = items[i].run
                    /\ \A l \in DOMAIN suite_runs : \A j \in DOMAIN suite_runs[l].items :
                         suite_runs[l].items[j].run = items[i].run => <<l, j>> = <<k, i>>
    BY DEF SuiteRunsAreComplete
  <2> DEFINE items == suite_runs[k].items
             case_ids == suite_runs[k].case_ids
  <2>1. items \in Seq(Item) /\ case_ids \in Seq(Cases)
    <3>1. suite_runs[k] \in SuiteRun
      BY DEF TypeOK
    <3> QED
      BY <3>1 DEF SuiteRun
  <2>2. /\ Len(items) = Len(case_ids) /\ ItemsFor(items, case_ids, runs, results)
        /\ suite_runs[k].passed <=> \A i \in DOMAIN items : items[i].passed /\ ~items[i].error
    BY DEF SuiteRuns, SuiteRunOK
  <2>3. [i \in DOMAIN items |-> items[i].case] = case_ids
    <3>1. DOMAIN items = DOMAIN case_ids /\ case_ids = [i \in DOMAIN case_ids |-> case_ids[i]]
      BY <2>1, <2>2
    <3>2. \A i \in DOMAIN items : items[i].case = case_ids[i]
      BY <2>2 DEF ItemsFor
    <3> HIDE DEF items, case_ids
    <3> QED
      BY <3>1, <3>2
  <2>4. ASSUME NEW i \in DOMAIN items, ~items[i].error
        PROVE  /\ \E row \in ToSet(results) :
                    row.case = items[i].case /\ row.run = items[i].run
               /\ \A l \in DOMAIN suite_runs : \A j \in DOMAIN suite_runs[l].items :
                    suite_runs[l].items[j].run = items[i].run => <<l, j>> = <<k, i>>
    <3>1. Judged(items[i].case, items[i].run, runs, results)
      BY <2>2, <2>4 DEF ItemsFor, Verdict
    <3>2. \E row \in ToSet(results) : row.case = items[i].case /\ row.run = items[i].run
      BY <3>1 DEF Judged, ToSet
    <3>3. items[i].run \in DOMAIN runs
      BY <3>1 DEF Judged
    <3>4. PICK r : r = items[i].run
      OBVIOUS
    <3>5. Taken(r)
      BY <3>3, <3>4 DEF Taken, TypeOK
    <3>6. ASSUME NEW l \in DOMAIN suite_runs, NEW j \in DOMAIN suite_runs[l].items,
                 suite_runs[l].items[j].run = items[i].run
          PROVE  l = k /\ j = i
      <4>1. /\ j \in Places(suite_runs[l]) /\ r = Filed(suite_runs[l], j)
            /\ i \in Places(suite_runs[k]) /\ r = Filed(suite_runs[k], i)
        BY <3>4, <3>6 DEF Places, Filed
      <4> QED
        BY <3>5, <4>1, FiledOnce
    <3> QED
      BY <3>2, <3>6
  <2> QED
    BY <2>2, <2>3, <2>4
<1> QED
  BY <1>1, InvariantHolds, PTL

(* EVALEXEC-002: nothing of a temporary session stays behind unless the      *)
(* database refused or the process crashed, whoever deletes it and however   *)
(* its request ended.                                                        *)
THEOREM RemovedTemporaries == Spec => []TemporaryIsRemoved
<1>1. ASSUME Inv PROVE TemporaryIsRemoved
  <2> SUFFICES ASSUME NEW s \in DOMAIN sessions, ~InUse(s)
               PROVE  /\ used.faults = 0 => ~sessions[s].live /\ ~sessions[s].open
                      /\ used.faults + used.crashes = 0 => ~sessions[s].stored
    BY DEF TemporaryIsRemoved
  <2>1. sessions[s].deleting = {} /\ ~InTurn(s)
    BY DEF InUse, InTurn
  <2>2. SessionOK(sessions[s], InTurn(s), used)
    BY <1>1 DEF Inv, SessionsOK
  <2> QED
    BY <2>1, <2>2 DEF SessionOK
<1> QED
  BY <1>1, InvariantHolds, PTL

(* MEMEVAL-004 and EVAL-005: a stored case has a score, and no check on the  *)
(* injected memories passes without usable evidence of them.                 *)
THEOREM BadEvidence == Spec => []BadEvidenceFails
<1>1. ASSUME Inv PROVE BadEvidenceFails
  <2> SUFFICES ASSUME NEW r \in DOMAIN runs, NEW c \in Known, runs[r] # None
               PROVE  LET checks == Checks(cases[c].expectations, runs[r])
         IN /\ checks # {}
            /\ Cardinality({i \in DOMAIN runs[r].injections :
                              runs[r].injections[i].well_formed}) # 1
                 \/ Len(runs[r].injections) # 1
               => \A check \in checks : check.id[1] \in ContextKinds => ~check.passed
    BY DEF BadEvidenceFails
  <2> DEFINE expected == cases[c].expectations
             trace == runs[r]
             formed == {i \in DOMAIN trace.injections : trace.injections[i].well_formed}
  <2>1. IsExpectations(expected) /\ ValidExpectations(expected)
    <3>1. cases[c] \in Inputs
      BY <1>1 DEF Inv, TypeOK, Known
    <3> QED
      BY <1>1, <3>1, EvaluationsAssumption DEF Inv, Definitions
  <2>2. trace \in Traces
    BY <1>1 DEF Inv, TypeOK
  <2>3. DOMAIN trace.injections = 1..Len(trace.injections)
    BY <2>2, EvaluationsAssumption
  <2> HIDE DEF expected, trace
  <2>4. Checks(expected, trace) # {}
    BY <2>1, CaseHasChecks
  <2>5. ASSUME Cardinality(formed) # 1 \/ Len(trace.injections) # 1
        PROVE  ~ContextObservation(trace).valid
    <3>1. CASE Len(trace.injections) = 1 /\ trace.injections[1].well_formed
      <4>1. formed = {1}
        BY <2>3, <3>1
      <4>2. Cardinality(formed) = 1
        BY <4>1, FS_Singleton
      <4> QED
        BY <2>5, <3>1, <4>2
    <3>2. CASE ~(Len(trace.injections) = 1 /\ trace.injections[1].well_formed)
      BY <3>2 DEF ContextObservation
    <3> QED
      BY <3>1, <3>2
  <2>6. ASSUME ~ContextObservation(trace).valid, NEW check \in Checks(expected, trace),
               check.id[1] \in ContextKinds
        PROVE  ~check.passed
    BY <2>6, EvidenceNeeded
  <2> HIDE DEF formed
  <2>7. Cardinality(formed) # 1 \/ Len(trace.injections) # 1
          => \A check \in Checks(expected, trace) :
               check.id[1] \in ContextKinds => ~check.passed
    BY <2>5, <2>6
  <2> QED
    BY <2>4, <2>7 DEF formed, expected, trace
<1> QED
  BY <1>1, InvariantHolds, PTL

=============================================================================
