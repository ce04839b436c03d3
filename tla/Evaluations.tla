---------------------------- MODULE Evaluations ----------------------------
(*****************************************************************************)
(* Evaluation cases, suites and their execution: evaluations/repository.py,  *)
(* TraceEvaluator.evaluate (service.py), EvaluationRunner (runner.py) and    *)
(* EvaluationSuiteRunner (suites.py), with what they use of the chat         *)
(* session manager and of the traces.                                        *)
(*                                                                           *)
(* A worker is one request that executes a case or a suite.  It suspends     *)
(* while the model works on its turn ("turn") and while it waits for the     *)
(* shielded deletion of its temporary session ("cleanup", or "cancelled"     *)
(* when the request was).  At "next" it does not suspend, so nothing else    *)
(* runs then.  A turn is one step: Tracing and ChatSessions have its parts.  *)
(*                                                                           *)
(* Names, prompts and wall-clock times are left out; results is kept in the  *)
(* order of evaluated_at, and a row's id is its (case, run) pair.            *)
(*****************************************************************************)
EXTENDS Scoring, SequencesExt

CONSTANTS
  Cases, Suites, Workers,
  Inputs,     \* the EvaluationCaseInput values clients send
  Traces,     \* what the trace of a finished turn may look like
  MaxRuns,    \* bound: turns
  MaxEvents   \* bound: edits, evaluate and DELETE requests, cancellations,
              \* refused transactions and crashes, taken together

ASSUME EvaluationsAssumption ==
  /\ None \notin Cases \cup Suites \cup Inputs \cup Traces
  /\ IsFiniteSet(Cases)
  /\ \A input \in Inputs : /\ IsExpectations(input.expectations)
                           /\ input.pass_threshold \in Nat \X (Nat \ {0})
  /\ \A trace \in Traces : DOMAIN trace.injections = 1..Len(trace.injections)
  /\ MaxRuns \in Nat /\ MaxEvents \in Nat

VARIABLES
  cases,       \* evaluation_cases
  suites,      \* evaluation_suites and evaluation_suite_cases; <<>>: no suite
  results,     \* evaluation_results
  suite_runs,  \* evaluation_suite_runs
  runs,        \* agent_runs: the trace, or None while it is "running"
  sessions,    \* the temporary chat sessions
  worker,      \* locals of each request in execute()
  used

definitions == <<cases, suites>>
vars == <<definitions, results, suite_runs, runs, sessions, worker, used>>

Known == {c \in Cases : cases[c] # None}

Fraction == Nat \X Nat
Result == [case: Cases, run: Nat, input: Inputs, score: Fraction,
           passed: BOOLEAN, previous_score: Fraction \cup {None},
           regression: BOOLEAN]
Item == [case: Cases, input: Inputs, run: Nat, passed: BOOLEAN, error: BOOLEAN]
SuiteRun == [suite: Suites, case_ids: Seq(Cases), items: Seq(Item),
             passed_count: Nat, failed_count: Nat, error_count: Nat,
             passed: BOOLEAN]

Deleters == {"client", "runner"}
Session == [live: BOOLEAN,    \* in the manager's map
            stored: BOOLEAN,  \* has a row in chat_sessions
            open: BOOLEAN,    \* its adapter is not closed
            deleting: SUBSET Deleters,      \* delete() calls under way
            closer: Deleters \cup {None},   \* the one that took it from the map
            raised: BOOLEAN]                \* the runner's call raised
Worker == [pc: {"idle", "next", "turn", "cleanup", "cancelled"},
           suite: Suites \cup {None},  \* None: a single case
           case_ids: Seq(Cases), inputs: Seq(Inputs), items: Seq(Item),
           session: Nat, run: Nat, outcome: Item \cup {None}]

Idle == [pc |-> "idle", suite |-> None, case_ids |-> <<>>, inputs |-> <<>>,
         items |-> <<>>, session |-> 0, run |-> 0, outcome |-> None]

TypeOK ==
  /\ cases \in [Cases -> Inputs \cup {None}]
  /\ suites \in [Suites -> Seq(Cases)]
  /\ results \in Seq(Result) /\ suite_runs \in Seq(SuiteRun)
  /\ runs \in Seq(Traces \cup {None})
  /\ sessions \in Seq(Session)
  /\ worker \in [Workers -> Worker]
  /\ used \in [runs: 0..MaxRuns, events: 0..MaxEvents, faults: 0..MaxEvents,
               crashes: 0..MaxEvents]

(* What a suite may name: distinct cases that exist.                         *)
CaseIds(known) == SetToAllKPermutations(known) \ {<<>>}

(* The database may hold definitions of an earlier process.                  *)
Init ==
  /\ cases \in [Cases -> {None} \cup
                  {input \in Inputs : ValidExpectations(input.expectations)}]
  /\ suites \in [Suites -> {<<>>} \cup CaseIds({c \in Cases : cases[c] # None})]
  /\ results = <<>> /\ suite_runs = <<>> /\ runs = <<>> /\ sessions = <<>>
  /\ worker = [w \in Workers |-> Idle]
  /\ used = [runs |-> 0, events |-> 0, faults |-> 0, crashes |-> 0]

Suspended == \A w \in Workers : worker[w].pc # "next"

Happens == /\ used.events < MaxEvents
           /\ used' = [used EXCEPT !.events = @ + 1]

(* A transaction that raises.                                                *)
Fault == /\ used.events < MaxEvents
         /\ used' = [used EXCEPT !.events = @ + 1, !.faults = @ + 1]

-----------------------------------------------------------------------------
(* create_case and update_case; create_suite and update_suite.               *)
Edited == /\ Happens
          /\ UNCHANGED <<suite_runs, runs, sessions, worker>>

\* fault: the case a result is shown with is the case as it is now
PutCaseRewrites(c, input) ==
  /\ Suspended
  /\ ValidExpectations(input.expectations)
  /\ cases' = [cases EXCEPT ![c] = input]
  /\ Edited
  /\ results' = [i \in DOMAIN results |->
                   IF results[i].case = c THEN [results[i] EXCEPT !.input = input]
                                          ELSE results[i]]
  /\ UNCHANGED suites

PutCase(c, input) ==
  /\ Suspended
  /\ ValidExpectations(input.expectations)
  /\ cases' = [cases EXCEPT ![c] = input]
  /\ Edited
  /\ UNCHANGED <<suites, results>>

PutSuite(s, case_ids) ==
  /\ Suspended
  /\ case_ids \in CaseIds(Known)
  /\ suites' = [suites EXCEPT ![s] = case_ids]
  /\ Edited
  /\ UNCHANGED <<cases, results>>

-----------------------------------------------------------------------------
(* evaluate: the case as it is now against a run that has ended, compared    *)
(* with the latest result of the case on another run.                        *)
Evaluated(c, r, trace) ==
  LET score == Score(Checks(cases[c].expectations, trace))
      others == {i \in DOMAIN results : results[i].case = c /\ results[i].run # r}
      previous == IF others = {} THEN None ELSE results[Max(others)].score
  IN [case |-> c, run |-> r, input |-> cases[c], score |-> score,
      passed |-> Meets(score, cases[c].pass_threshold),
      previous_score |-> previous,
      regression |-> previous # None /\ Lower(score, previous)]

(* save_result: the row of the pair is replaced, and is the newest.          *)
Saved(row) ==
  LET old == {i \in DOMAIN results : results[i].case = row.case /\ results[i].run = row.run}
  IN Append(IF old = {} THEN results ELSE RemoveAt(results, CHOOSE i \in old : TRUE),
            row)

EvaluateRun(c, r) ==
  /\ Suspended
  /\ Happens
  /\ c \in Known /\ runs[r] # None
  /\ results' = Saved(Evaluated(c, r, runs[r]))
  /\ UNCHANGED <<definitions, suite_runs, runs, sessions, worker>>

-----------------------------------------------------------------------------
(* execute of either runner, up to its first item: a suite keeps the cases   *)
(* as they are when it starts.                                               *)
Begin(w, suite, case_ids) ==
  /\ Suspended
  /\ worker[w].pc = "idle"
  /\ used.runs + Len(case_ids) <= MaxRuns
  /\ used' = [used EXCEPT !.runs = @ + Len(case_ids)]
  /\ worker' = [worker EXCEPT ![w] =
       [Idle EXCEPT !.pc = "next", !.suite = suite, !.case_ids = case_ids,
                    !.inputs = [i \in DOMAIN case_ids |-> cases[case_ids[i]]]]]
  /\ UNCHANGED <<definitions, results, suite_runs, runs, sessions>>

ExecuteCase(w, c) == c \in Known /\ Begin(w, None, <<c>>)
ExecuteSuite(w, s) == suites[s] # <<>> /\ Begin(w, s, suites[s])

Position(w) == Len(worker[w].items) + 1
More(w) == worker[w].pc = "next" /\ Position(w) <= Len(worker[w].case_ids)
ThisCase(w) == worker[w].case_ids[Position(w)]

NewItem(w, run, passed, error) ==
  [case |-> ThisCase(w), input |-> worker[w].inputs[Position(w)],
   run |-> run, passed |-> passed, error |-> error]
ErrorItem(w) == NewItem(w, 0, FALSE, TRUE)

WithItem(w, item) ==
  [worker[w] EXCEPT !.pc = "next", !.items = Append(@, item),
                    !.session = 0, !.run = 0, !.outcome = None]

NewSession == [live |-> TRUE, stored |-> TRUE, open |-> TRUE,
               deleting |-> {}, closer |-> None, raised |-> FALSE]

(* delete() up to its first suspension: whoever finds the session in the map *)
(* takes it out and will close it.                                           *)
DeleteBegun(session, d) ==
  [session EXCEPT !.live = FALSE,
                  !.deleting = @ \cup {d},
                  !.closer = IF session.live THEN d ELSE @]

(* EvaluationRunner.execute up to the model: a session, and in it a run.     *)
StartTurn(w) ==
  /\ More(w)
  /\ sessions' = Append(sessions, NewSession)
  /\ runs' = Append(runs, None)
  /\ worker' = [worker EXCEPT ![w].pc = "turn", ![w].session = Len(sessions'),
                              ![w].run = Len(runs')]
  /\ UNCHANGED <<definitions, results, suite_runs, used>>

(* create() raises, with nothing made or, when it is its checkpoint that     *)
(* raises, with a session that is registered and that nobody will delete.    *)
CreateRaises(w) ==
  /\ More(w)
  /\ Fault
  /\ \/ UNCHANGED sessions
     \/ sessions' = Append(sessions, [NewSession EXCEPT !.stored = FALSE])
  /\ worker' = [worker EXCEPT ![w] = WithItem(w, ErrorItem(w))]
  /\ UNCHANGED <<definitions, results, suite_runs, runs>>

\* fault: it is not noticed that there is no run to evaluate
NoTraceUnnoticed(w) ==
  /\ More(w)
  /\ Fault
  /\ sessions' = Append(sessions, DeleteBegun(NewSession, "runner"))
  /\ worker' = [worker EXCEPT ![w].pc = "cleanup", ![w].session = Len(sessions')]
  /\ UNCHANGED <<definitions, results, suite_runs, runs>>

(* create_run raises: no trace, EvaluationExecutionError.                    *)
NoTrace(w) ==
  /\ More(w)
  /\ Fault
  /\ sessions' = Append(sessions, DeleteBegun(NewSession, "runner"))
  /\ worker' = [worker EXCEPT ![w].pc = "cleanup", ![w].session = Len(sessions'),
                              ![w].outcome = ErrorItem(w)]
  /\ UNCHANGED <<definitions, results, suite_runs, runs>>

(* The turn ends, however it does; the runner evaluates its run and begins   *)
(* to delete the session, with no other task in between.  A checkpoint that  *)
(* raises is an exception of the turn like any other; while a cancellation   *)
(* unwinds it takes its place, and the aborted run is evaluated.             *)
CleanUp(w, pc, outcome) ==
  /\ sessions' = [sessions EXCEPT ![worker[w].session] = DeleteBegun(@, "runner")]
  /\ worker' = [worker EXCEPT ![w].pc = pc, ![w].outcome = outcome]
  /\ UNCHANGED <<definitions, suite_runs>>

EndTurn(w, trace) ==
  LET r == worker[w].run
      row == Evaluated(ThisCase(w), r, trace)
  IN /\ Suspended
     /\ worker[w].pc = "turn"
     /\ runs' = [runs EXCEPT ![r] = trace]
     /\ results' = Saved(row)
     /\ CleanUp(w, "cleanup", NewItem(w, r, row.passed, FALSE))
     /\ UNCHANGED used

(* finish_run raises and the run counts as running, or save_result raises.   *)
(* (It, too, may raise while a cancellation unwinds, and takes its place.)   *)
EndTurnRaises(w, trace) ==
  /\ Suspended
  /\ worker[w].pc = "turn"
  /\ Fault
  /\ runs' \in {runs, [runs EXCEPT ![worker[w].run] = trace]}
  /\ CleanUp(w, "cleanup", ErrorItem(w))
  /\ UNCHANGED results

\* fault: the session is deleted only when the execution was not cancelled
CancelKeepsSession(w, trace) ==
  /\ Suspended
  /\ Happens
  /\ trace.status = "aborted"
  /\ worker[w].pc = "turn"
  /\ runs' = [runs EXCEPT ![worker[w].run] = trace]
  /\ worker' = [worker EXCEPT ![w] = Idle]
  /\ UNCHANGED <<definitions, results, suite_runs, sessions>>

(* The request is cancelled, and nothing raises on the way out: in the turn, *)
(* whose run ends aborted, the session is still deleted; while that is       *)
(* waited for, the shielded deletion goes on by itself.                      *)
Cancel(w, trace) ==
  /\ Suspended
  /\ Happens
  /\ trace.status = "aborted"
  /\ \/ /\ worker[w].pc = "turn"
        /\ runs' = [runs EXCEPT ![worker[w].run] = trace]
        /\ CleanUp(w, "cancelled", None)
     \/ /\ worker[w].pc \in {"cleanup", "cancelled"}
        /\ worker' = [worker EXCEPT ![w] = Idle]
        /\ UNCHANGED <<definitions, suite_runs, runs, sessions>>
  /\ UNCHANGED results

CleanupReturns(w) ==
  /\ Suspended
  /\ worker[w].pc \in {"cleanup", "cancelled"}
  /\ LET session == sessions[worker[w].session]
     IN /\ "runner" \notin session.deleting
        /\ worker' = [worker EXCEPT ![w] =
             IF worker[w].pc = "cancelled" THEN Idle
             ELSE WithItem(w, IF session.raised THEN ErrorItem(w) ELSE @.outcome)]
  /\ UNCHANGED <<definitions, results, suite_runs, runs, sessions, used>>

(* All items have an outcome: the aggregate of a suite is saved.             *)
Count(items, Holds(_)) == Cardinality({i \in DOMAIN items : Holds(items[i])})
Passed(items) == Count(items, LAMBDA item : item.passed)
Errors(items) == Count(items, LAMBDA item : item.error)
Failed(items) == Len(items) - Passed(items) - Errors(items)

\* fault: a suite passes when none of its results failed
SuitePassesNoFailure(items) == Failed(items) = 0

SuitePasses(items) == Passed(items) = Len(items)

SuiteRunOf(w) ==
  LET items == worker[w].items
  IN [suite |-> worker[w].suite, case_ids |-> worker[w].case_ids, items |-> items,
      passed_count |-> Passed(items), failed_count |-> Failed(items),
      error_count |-> Errors(items), passed |-> SuitePasses(items)]

Done(w) == worker[w].pc = "next" /\ Position(w) > Len(worker[w].case_ids)
Return(w) == /\ Done(w)
             /\ worker' = [worker EXCEPT ![w] = Idle]
             /\ UNCHANGED <<definitions, results, runs, sessions>>

SaveSuiteRun(w) ==
  /\ Return(w)
  /\ suite_runs' = IF worker[w].suite = None THEN suite_runs
                   ELSE Append(suite_runs, SuiteRunOf(w))
  /\ UNCHANGED used

SaveSuiteRunRaises(w) ==
  /\ Return(w) /\ worker[w].suite # None
  /\ Fault
  /\ UNCHANGED suite_runs

-----------------------------------------------------------------------------
(* Anybody may delete a session the list shows, the temporary ones included. *)
ClientDelete(s) ==
  /\ Suspended
  /\ Happens
  /\ sessions[s].live \/ sessions[s].stored
  /\ "client" \notin sessions[s].deleting
  /\ sessions' = [sessions EXCEPT ![s] = DeleteBegun(@, "client")]
  /\ UNCHANGED <<definitions, results, suite_runs, runs, worker>>

(* The rest of delete(): close() of a session taken from the map waits for   *)
(* its turn and closes the adapter; then the row goes, unless one of these   *)
(* writes raises.                                                            *)
Busy(s) == \E w \in Workers : worker[w].pc = "turn" /\ worker[w].session = s

DeleteReturns(s, d) ==
  /\ Suspended
  /\ d \in sessions[s].deleting
  /\ sessions[s].closer = d => ~Busy(s)
  /\ \/ /\ sessions' = [sessions EXCEPT
             ![s].deleting = @ \ {d}, ![s].stored = FALSE,
             ![s].open = @ /\ sessions[s].closer # d]
        /\ UNCHANGED used
     \/ /\ Fault
        /\ sessions' = [sessions EXCEPT
             ![s].deleting = @ \ {d}, ![s].raised = @ \/ d = "runner",
             ![s].open = @ /\ sessions[s].closer # d]
  /\ UNCHANGED <<definitions, results, suite_runs, runs, worker>>

(* The process dies and starts again: the tables stay.                       *)
Crash ==
  /\ Suspended
  /\ used.events < MaxEvents
  /\ used' = [used EXCEPT !.events = @ + 1, !.crashes = @ + 1]
  /\ worker' = [w \in Workers |-> Idle]
  /\ sessions' = [s \in DOMAIN sessions |->
       [sessions[s] EXCEPT !.live = FALSE, !.open = FALSE, !.deleting = {}]]
  /\ UNCHANGED <<definitions, results, suite_runs, runs>>

Next ==
  \/ \E c \in Cases, input \in Inputs : PutCase(c, input)
  \/ \E s \in Suites, case_ids \in CaseIds(Known) : PutSuite(s, case_ids)
  \/ \E c \in Cases, r \in DOMAIN runs : EvaluateRun(c, r)
  \/ \E w \in Workers :
       \/ \E c \in Cases : ExecuteCase(w, c)
       \/ \E s \in Suites : ExecuteSuite(w, s)
       \/ StartTurn(w) \/ CreateRaises(w) \/ NoTrace(w)
       \/ \E trace \in Traces :
            EndTurn(w, trace) \/ EndTurnRaises(w, trace) \/ Cancel(w, trace)
       \/ CleanupReturns(w) \/ SaveSuiteRun(w) \/ SaveSuiteRunRaises(w)
  \/ \E s \in DOMAIN sessions :
       ClientDelete(s) \/ \E d \in Deleters : DeleteReturns(s, d)
  \/ Crash

Spec == Init /\ [][Next]_vars

-----------------------------------------------------------------------------
(* EVAL-006 and EVAL-007: whatever is edited, executed or evaluated again, a *)
(* stored result is what the case it was stored with says of the trace of    *)
(* its run, and a case has one result for a run.                             *)
ResultsAreReproducible ==
  \A i \in DOMAIN results :
    LET row == results[i]
    IN /\ runs[row.run] # None
       /\ row.score = Score(Checks(row.input.expectations, runs[row.run]))
       /\ row.passed = Meets(row.score, row.input.pass_threshold)
       /\ \A j \in DOMAIN results :
            results[j].case = row.case /\ results[j].run = row.run => j = i

(* EVALSUITE-004 to EVALSUITE-006 and EVALSUITE-010: a stored suite run has  *)
(* an item for each of its cases in order, each with an error or with a      *)
(* result on a run of its own, and passes only if each of them did.          *)
SuiteRunsAreComplete ==
  \A k \in DOMAIN suite_runs :
    LET items == suite_runs[k].items
    IN /\ [i \in DOMAIN items |-> items[i].case] = suite_runs[k].case_ids
       /\ suite_runs[k].passed <=> \A i \in DOMAIN items :
                                     items[i].passed /\ ~items[i].error
       /\ \A i \in DOMAIN items :
            \/ items[i].error
            \/ /\ \E row \in ToSet(results) :
                    row.case = items[i].case /\ row.run = items[i].run
               /\ \A l \in DOMAIN suite_runs : \A j \in DOMAIN suite_runs[l].items :
                    suite_runs[l].items[j].run = items[i].run => <<l, j>> = <<k, i>>

(* EVALEXEC-002: a temporary session is closed and removed after completion, *)
(* failure and cancellation, also when a client deletes it meanwhile; only a *)
(* database that refuses, or a crash, leaves something behind.               *)
InUse(s) ==
  \/ sessions[s].deleting # {}
  \/ \E w \in Workers : worker[w].session = s
TemporaryIsRemoved ==
  \A s \in DOMAIN sessions : ~InUse(s) =>
    /\ used.faults = 0 => ~sessions[s].live /\ ~sessions[s].open
    /\ used.faults + used.crashes = 0 => ~sessions[s].stored

(* MEMEVAL-004 and EVAL-005: a case that may be stored gives at least one    *)
(* check, so it has a score; and evidence of the injected memories that is   *)
(* missing, repeated or malformed passes none of the checks on it.           *)
ContextKinds == {"context_status", "required_memory", "forbidden_memory",
                 "context_item_limit"}
BadEvidenceFails ==
  \A r \in DOMAIN runs, c \in Known : runs[r] # None =>
    LET checks == Checks(cases[c].expectations, runs[r])
    IN /\ checks # {}
       /\ Cardinality({i \in DOMAIN runs[r].injections :
                         runs[r].injections[i].well_formed}) # 1
            \/ Len(runs[r].injections) # 1
          => \A check \in checks : check.id[1] \in ContextKinds => ~check.passed

-----------------------------------------------------------------------------
(* docs/specs/0011-evaluation-suites/spec.md, EVALSUITE-003: a suite runs    *)
(* "every snapshotted case": what an item reports is the verdict of the case *)
(* it shows.                                                                 *)
ItemsFollowSnapshot ==
  \A k \in DOMAIN suite_runs : \A item \in ToSet(suite_runs[k].items) :
    ~item.error =>
      item.passed = Meets(Score(Checks(item.input.expectations, runs[item.run])),
                          item.input.pass_threshold)
=============================================================================
