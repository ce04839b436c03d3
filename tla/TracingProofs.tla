--------------------------- MODULE TracingProofs ---------------------------
(* What traces/runtime.py and traces/repository.py keep true of the recorded *)
(* runs, for any number of runs, calls, entries, failing transactions and    *)
(* crashes, and any interleaving of streams with get_entries; and of what    *)
(* traces/parity.py compares of them.                                        *)
EXTENDS Parity, RecursionLemmas

-----------------------------------------------------------------------------
(* One run.  Its tool rows are what a replay of its timeline gives.          *)
StartsOf(run, c) ==
  {i \in DOMAIN run.events :
     run.events[i].type = "tool_execution_start" /\ run.events[i].call = c}
EndsOf(run, c) ==
  {i \in DOMAIN run.events :
     run.events[i].type = "tool_execution_end" /\ run.events[i].call = c}

Replayed(run) ==
  \A c \in Calls : run.tools[c] = RowOf(StartsOf(run, c), EndsOf(run, c))
Once(run) ==
  \A i, j \in DOMAIN run.events :
    run.events[i].key # 0 /\ run.events[i].key = run.events[j].key => i = j
OnlyEntries(run) == \A i \in DOMAIN run.events : run.events[i].key # 0
Settled(run) == \E i \in DOMAIN run.events : run.events[i].type = "agent_settled"
NoFailure(run) == \A i \in DOMAIN run.events : run.events[i].status = "completed"
Earned(run) ==
  run.status = "completed" => OnlyEntries(run) \/ (Settled(run) /\ NoFailure(run))
Sound(run) == Replayed(run) /\ Once(run) /\ Earned(run)

(* The run that is being recorded: the last one, still running, and what     *)
(* stream() remembers of it is what its timeline says.                       *)
Recording ==
  Streaming =>
    /\ stream.run = last
    /\ runs[last].status = "running"
    /\ stream.settled => Settled(runs[last])
    /\ stream.status = "completed" => NoFailure(runs[last])

Inv ==
  /\ TypeOK
  /\ \A r \in DOMAIN runs : Sound(runs[r])
  /\ Recording
  /\ RunsAreFinished

-----------------------------------------------------------------------------
(* The last of some positions, when one after all of them is added.          *)
LEMMA LastIsNewest ==
  ASSUME NEW n \in Nat, NEW S, S \subseteq 1..n
  PROVE  LastOf(S \cup {n + 1}) = n + 1
<1> DEFINE T == (S \cup {n + 1}) \cup {0}
<1>1. n + 1 \in T /\ \A y \in T : n + 1 >= y
  OBVIOUS
<1>2. \A x \in T : (\A y \in T : x >= y) => x = n + 1
  OBVIOUS
<1> HIDE DEF T
<1>3. Max(T) = n + 1
  BY <1>1, <1>2 DEF Max
<1> QED
  BY <1>3 DEF T, LastOf

(* Of no positions it is 0.                                                  *)
LEMMA LastOfNone == LastOf({}) = 0
<1>1. \A x \in {} \cup {0} : x = 0
  OBVIOUS
<1> QED
  BY <1>1 DEF LastOf, Max

(* The first of some positions stays the first when a later one is added.    *)
LEMMA FirstStays ==
  ASSUME NEW n \in Nat, NEW S, S \subseteq 1..n
  PROVE  /\ Min({n + 1}) = n + 1
         /\ S # {} => /\ Min(S) \in 1..n /\ Min(S) < n + 1
                      /\ Min(S \cup {n + 1}) = Min(S)
<1> DEFINE T == S \cup {n + 1}
<1>1. S \in SUBSET Nat /\ {n + 1} \in SUBSET Nat /\ T \in SUBSET Nat /\ T # {}
  OBVIOUS
<1>2. Min({n + 1}) \in {n + 1}
  BY <1>1, MinExists
<1>3. Min(T) \in T /\ \A i \in T : Min(T) <= i
  <2> HIDE DEF T
  <2> QED
    BY <1>1, MinExists
<1>4. ASSUME S # {} PROVE Min(S) \in 1..n /\ Min(T) = Min(S)
  <2>1. PICK a, b : a = Min(S) /\ b = Min(T)
    OBVIOUS
  <2>2. a \in S /\ \A i \in S : a <= i
    BY <1>1, <1>4, <2>1, MinExists
  <2>3. b \in T /\ \A i \in T : b <= i
    BY <1>3, <2>1
  <2>4. a \in 1..n /\ b <= a
    BY <2>2, <2>3
  <2>5. b \in S
    BY <2>3, <2>4
  <2>6. a <= b
    BY <2>2, <2>5
  <2>7. a = b
    BY <2>4, <2>5, <2>6
  <2> QED
    BY <2>1, <2>4, <2>7
<1> QED
  BY <1>2, <1>4

(* The last of some positions is one of them.                                *)
LEMMA LastIsOne ==
  ASSUME NEW n \in Nat, NEW S, S \subseteq 1..n, S # {}
  PROVE  LastOf(S) \in S
<1> DEFINE T == S \cup {0}
<1>1. T \in SUBSET (0..n) /\ T # {}
  OBVIOUS
<1>2. Max(T) \in T /\ \A i \in T : i <= Max(T)
  <2> HIDE DEF T
  <2> QED
    BY <1>1, MaxExists
<1>3. Max(T) # 0
  <2>1. PICK i \in S : TRUE
    OBVIOUS
  <2>2. i \in T /\ i \in 1..n
    BY <2>1
  <2> PICK m : m = Max(T)
    OBVIOUS
  <2>3. m \in T /\ i <= m
    BY <1>2, <2>2
  <2>4. m # 0
    BY <2>2, <2>3
  <2> QED
    BY <2>4
<1> QED
  BY <1>2, <1>3 DEF LastOf

(* How a row moves with the events of its call; it is empty only if there is *)
(* none.                                                                     *)
RowMoved(n, S, E) ==
  /\ RowOf(S, E).started = 0 <=> S = {} /\ E = {}
  /\ RowOf(S, E) = [started |-> 0, ended |-> 0] <=> S = {} /\ E = {}
  /\ RowOf(S \cup {n + 1}, E) = [started |-> n + 1, ended |-> RowOf(S, E).ended]
  /\ RowOf(S, E \cup {n + 1}) =
       [started |-> IF RowOf(S, E).started = 0 THEN n + 1 ELSE RowOf(S, E).started,
        ended |-> n + 1]

(* So every row does.                                                        *)
LEMMA RowMoves ==
  ASSUME NEW n \in Nat, NEW S, S \subseteq 1..n, NEW E, E \subseteq 1..n
  PROVE  RowMoved(n, S, E)
<1>1. LastOf(S \cup {n + 1}) = n + 1 /\ LastOf(E \cup {n + 1}) = n + 1 /\ LastOf({}) = 0
  BY LastIsNewest, LastOfNone
<1>2. S # {} => LastOf(S) # 0
  <2>1. ASSUME S # {} PROVE LastOf(S) \in S
    BY <2>1, LastIsOne
  <2>2. 0 \notin S
    OBVIOUS
  <2> QED
    BY <2>1, <2>2
<1>3. /\ FirstOf({}) = 0 /\ FirstOf({} \cup {n + 1}) = n + 1
      /\ E # {} => FirstOf(E) # 0 /\ FirstOf(E \cup {n + 1}) = FirstOf(E)
  <2>1. Min({n + 1}) = n + 1 /\ {} \cup {n + 1} = {n + 1}
    BY FirstStays
  <2>2. E # {} => Min(E) \in 1..n /\ Min(E \cup {n + 1}) = Min(E) /\ E \cup {n + 1} # {}
    BY FirstStays
  <2>3. E # {} => FirstOf(E) = Min(E) /\ FirstOf(E \cup {n + 1}) = Min(E \cup {n + 1})
    BY <2>2 DEF FirstOf
  <2>4. FirstOf({}) = 0 /\ FirstOf({n + 1}) = Min({n + 1})
    BY DEF FirstOf
  <2> QED
    BY <2>1, <2>2, <2>3, <2>4
<1>4. RowOf(S, E).started = 0 <=> S = {} /\ E = {}
  BY <1>2, <1>3 DEF RowOf
<1>5. RowOf(S, E) = [started |-> 0, ended |-> 0] <=> S = {} /\ E = {}
  BY <1>1, <1>3, <1>4 DEF RowOf
<1>6. RowOf(S \cup {n + 1}, E) = [started |-> n + 1, ended |-> RowOf(S, E).ended]
  BY <1>1 DEF RowOf
<1>7. RowOf(S, E \cup {n + 1}) =
        [started |-> IF RowOf(S, E).started = 0 THEN n + 1 ELSE RowOf(S, E).started,
         ended |-> n + 1]
  <2>1. CASE S # {}
    BY <1>1, <1>2, <2>1 DEF RowOf
  <2>2. CASE S = {} /\ E = {}
    BY <1>1, <1>3, <2>2 DEF RowOf
  <2>3. CASE S = {} /\ E # {}
    BY <1>1, <1>3, <2>3 DEF RowOf
  <2> QED
    BY <2>1, <2>2, <2>3
<1> QED
  BY <1>4, <1>5, <1>6, <1>7 DEF RowMoved

(* create_run: nothing has happened.                                         *)
LEMMA NewRunSound ==
  ASSUME NEW status \in RunStatuses
  PROVE  /\ NewRun(status) \in Run /\ Replayed(NewRun(status)) /\ Once(NewRun(status))
         /\ NewRun(status).events = <<>> /\ NewRun(status).status = status
         /\ OnlyEntries(NewRun(status)) /\ NoFailure(NewRun(status))
<1> DEFINE run == NewRun(status)
<1>1. /\ run \in Run /\ run.events = <<>> /\ run.status = status
      /\ \A c \in Calls : run.tools[c] = [started |-> 0, ended |-> 0]
  BY DEF NewRun, Run, ToolRow
<1> HIDE DEF run
<1>2. \A c \in Calls : StartsOf(run, c) = {} /\ EndsOf(run, c) = {}
  BY <1>1 DEF StartsOf, EndsOf
<1>3. Replayed(run)
  <2>1. RowOf({}, {}) = [started |-> 0, ended |-> 0]
    <3>1. 0 \in Nat /\ {} \subseteq 1..0
      OBVIOUS
    <3>2. RowMoved(0, {}, {})
      BY <3>1, RowMoves
    <3> QED
      BY <3>2 DEF RowMoved
  <2>2. ASSUME NEW c \in Calls PROVE run.tools[c] = RowOf(StartsOf(run, c), EndsOf(run, c))
    BY <1>1, <1>2, <2>1
  <2> QED
    BY <2>2 DEF Replayed
<1>4. Once(run) /\ OnlyEntries(run) /\ NoFailure(run)
  BY <1>1 DEF Once, OnlyEntries, NoFailure
<1> QED
  BY <1>1, <1>3, <1>4 DEF run

(* finish_run changes the status alone.                                      *)
LEMMA FinishedKeeps ==
  ASSUME NEW run \in Run, NEW status \in RunStatuses, NEW ok \in BOOLEAN
  PROVE  /\ Finished(run, status, ok) \in Run
         /\ Finished(run, status, ok).events = run.events
         /\ Finished(run, status, ok).tools = run.tools
         /\ Finished(run, status, ok).status = IF ok THEN status ELSE run.status
  BY DEF Finished, Run

(* All that is said of a run but its status is said of its events and rows.  *)
LEMMA SameTimeline ==
  ASSUME NEW a, NEW b, a.events = b.events, a.tools = b.tools
  PROVE  /\ Replayed(a) <=> Replayed(b)
         /\ Once(a) <=> Once(b)
         /\ OnlyEntries(a) <=> OnlyEntries(b)
         /\ Settled(a) <=> Settled(b)
         /\ NoFailure(a) <=> NoFailure(b)
  BY DEF Replayed, StartsOf, EndsOf, Once, OnlyEntries, Settled, NoFailure

(* What an event makes of the row of a call.                                 *)
RowAfter(row, event, c, n) ==
  IF event.call # c THEN row
  ELSE CASE event.type = "tool_execution_start" -> [started |-> n, ended |-> row.ended]
         [] event.type = "tool_execution_end" ->
              [started |-> IF row.started = 0 THEN n ELSE row.started, ended |-> n]
         [] OTHER -> row

(* What append_event makes of the timeline: one event more.                  *)
LEMMA WithEventAppends ==
  ASSUME NEW run \in Run, NEW event \in Event,
         event.type \in {"tool_execution_start", "tool_execution_end"} => event.call \in Calls
  PROVE  /\ WithEvent(run, event) \in Run
         /\ WithEvent(run, event).status = run.status
         /\ Len(WithEvent(run, event).events) = Len(run.events) + 1
         /\ \A i \in DOMAIN run.events : WithEvent(run, event).events[i] = run.events[i]
         /\ WithEvent(run, event).events[Len(run.events) + 1] = event
         /\ \A c \in Calls :
              WithEvent(run, event).tools[c] =
                RowAfter(run.tools[c], event, c, Len(run.events) + 1)
<1> DEFINE n == Len(run.events) + 1
           tools == ToolsAfter(run.tools, event, n)
           new == WithEvent(run, event)
<1>1. /\ run.events \in Seq(Event) /\ run.tools \in [Calls -> ToolRow]
      /\ run.status \in RunStatuses /\ n \in Nat
  BY DEF Run
<1>2. /\ tools \in [Calls -> ToolRow]
      /\ \A c \in Calls : tools[c] = RowAfter(run.tools[c], event, c, n)
  <2> HIDE DEF n
  <2>1. \A c \in Calls : run.tools[c] \in ToolRow
    BY <1>1
  <2>2. ASSUME NEW row \in ToolRow
        PROVE  /\ [row EXCEPT !.started = n] = [started |-> n, ended |-> row.ended]
               /\ [row EXCEPT !.started = IF @ = 0 THEN n ELSE @, !.ended = n]
                    = [started |-> IF row.started = 0 THEN n ELSE row.started, ended |-> n]
    <3>1. PICK a, b : row = [started |-> a, ended |-> b]
      BY DEF ToolRow
    <3>2. [row EXCEPT !.started = n] = [started |-> n, ended |-> b]
      BY <3>1
    <3>3. ASSUME NEW x PROVE [row EXCEPT !.started = x, !.ended = n] = [started |-> x, ended |-> n]
      <4>1. PICK first : first = [row EXCEPT !.started = x]
        OBVIOUS
      <4>2. first = [started |-> x, ended |-> b]
        BY <3>1, <4>1
      <4>3. [first EXCEPT !.ended = n] = [started |-> x, ended |-> n]
        BY <4>2
      <4> QED
        BY <4>1, <4>3
    <3>4. [row EXCEPT !.started = IF @ = 0 THEN n ELSE @, !.ended = n]
            = [started |-> IF a = 0 THEN n ELSE a, ended |-> n]
      BY <3>1, <3>3
    <3> QED
      BY <3>1, <3>2, <3>4
  <2>3. \A c \in Calls : RowAfter(run.tools[c], event, c, n) \in ToolRow
    BY <1>1, <2>1 DEF RowAfter, ToolRow
  <2>4. CASE event.type \in {"tool_execution_start", "tool_execution_end"}
    <3>1. event.call \in Calls
      BY <2>4
    <3>2. tools = [run.tools EXCEPT ![event.call] = RowAfter(@, event, event.call, n)]
      BY <1>1, <2>1, <2>2, <2>4, <3>1 DEF ToolsAfter, RowAfter
    <3>3. \A c \in Calls : c # event.call => RowAfter(run.tools[c], event, c, n) = run.tools[c]
      BY DEF RowAfter
    <3> QED
      BY <1>1, <2>3, <3>1, <3>2, <3>3
  <2>5. CASE event.type \notin {"tool_execution_start", "tool_execution_end"}
    <3>1. tools = run.tools
      BY <2>5 DEF ToolsAfter
    <3>2. \A c \in Calls : RowAfter(run.tools[c], event, c, n) = run.tools[c]
      BY <2>5 DEF RowAfter
    <3> QED
      BY <1>1, <3>1, <3>2
  <2> QED
    BY <2>4, <2>5
<1> HIDE DEF tools
<1>3. new = [run EXCEPT !.events = Append(run.events, event), !.tools = tools]
  BY DEF WithEvent, tools
<1>4. /\ new.events = Append(run.events, event) /\ new.tools = tools
      /\ new.status = run.status
      /\ new \in Run
  <2>1. Append(run.events, event) \in Seq(Event)
    BY <1>1
  <2> DEFINE events == Append(run.events, event)
  <2> HIDE DEF events
  <2>2. new = [run EXCEPT !.events = events, !.tools = tools]
    BY <1>3 DEF events
  <2>3. /\ new.events = events /\ new.tools = tools /\ new.status = run.status
        /\ new \in Run
    BY <1>2, <2>1, <2>2 DEF Run, events
  <2> QED
    BY <2>3 DEF events
<1> HIDE DEF new
<1>5. /\ Len(new.events) = n
      /\ \A i \in DOMAIN run.events : new.events[i] = run.events[i]
      /\ new.events[n] = event
  BY <1>1, <1>4
<1> QED
  BY <1>2, <1>4, <1>5 DEF new

(* A recorded event keeps the replay: the row of its call names it, and      *)
(* every other row what it did.                                              *)
LEMMA EventReplayed ==
  ASSUME NEW run \in Run, NEW event \in Event, Replayed(run),
         event.type \in {"tool_execution_start", "tool_execution_end"} => event.call \in Calls
  PROVE  Replayed(WithEvent(run, event))
<1> DEFINE new == WithEvent(run, event)
           n == Len(run.events)
<1>1. /\ Len(new.events) = n + 1
      /\ \A i \in DOMAIN run.events : new.events[i] = run.events[i]
      /\ new.events[n + 1] = event
      /\ \A c \in Calls : new.tools[c] = RowAfter(run.tools[c], event, c, n + 1)
      /\ new \in Run
  BY WithEventAppends
<1> HIDE DEF new
<1>2. /\ n \in Nat /\ DOMAIN run.events = 1..n /\ DOMAIN new.events = 1..(n + 1)
  BY <1>1 DEF Run
<1> HIDE DEF n
<1>3. ASSUME NEW c \in Calls
      PROVE  /\ StartsOf(new, c) = IF event.type = "tool_execution_start" /\ event.call = c
                                   THEN StartsOf(run, c) \cup {n + 1} ELSE StartsOf(run, c)
             /\ EndsOf(new, c) = IF event.type = "tool_execution_end" /\ event.call = c
                                 THEN EndsOf(run, c) \cup {n + 1} ELSE EndsOf(run, c)
             /\ StartsOf(run, c) \subseteq 1..n /\ EndsOf(run, c) \subseteq 1..n
  <2>1. \A i \in DOMAIN new.events : i \in DOMAIN run.events \/ i = n + 1
    BY <1>2
  <2>2. \A i \in DOMAIN run.events : i \in DOMAIN new.events
    BY <1>2
  <2>3. n + 1 \in DOMAIN new.events
    BY <1>2
  <2> QED
    BY <1>1, <1>2, <2>1, <2>2, <2>3 DEF StartsOf, EndsOf
<1>4. ASSUME NEW c \in Calls
      PROVE  new.tools[c] = RowOf(StartsOf(new, c), EndsOf(new, c))
  <2>1. PICK S, E : S = StartsOf(run, c) /\ E = EndsOf(run, c)
    OBVIOUS
  <2>2. PICK row : row = run.tools[c] /\ row = RowOf(S, E)
    BY <2>1 DEF Replayed
  <2>3. new.tools[c] = RowAfter(row, event, c, n + 1)
    BY <1>1, <2>2
  <2>4. /\ RowOf(S \cup {n + 1}, E) = [started |-> n + 1, ended |-> RowOf(S, E).ended]
        /\ RowOf(S, E \cup {n + 1}) =
             [started |-> IF RowOf(S, E).started = 0 THEN n + 1 ELSE RowOf(S, E).started,
              ended |-> n + 1]
    <3>1. RowMoved(n, S, E)
      BY <1>2, <1>3, <2>1, RowMoves
    <3> QED
      BY <3>1 DEF RowMoved
  <2>5. CASE event.type = "tool_execution_start" /\ event.call = c
    <3>1. new.tools[c] = [started |-> n + 1, ended |-> row.ended]
      BY <2>3, <2>5 DEF RowAfter
    <3>2. StartsOf(new, c) = S \cup {n + 1} /\ EndsOf(new, c) = E
      BY <1>3, <2>1, <2>5
    <3> QED
      BY <2>2, <2>4, <3>1, <3>2
  <2>6. CASE event.type = "tool_execution_end" /\ event.call = c
    <3>1. new.tools[c] = [started |-> IF row.started = 0 THEN n + 1 ELSE row.started,
                          ended |-> n + 1]
      BY <2>3, <2>6 DEF RowAfter
    <3>2. StartsOf(new, c) = S /\ EndsOf(new, c) = E \cup {n + 1}
      BY <1>3, <2>1, <2>6
    <3> QED
      BY <2>2, <2>4, <3>1, <3>2
  <2>7. CASE /\ ~(event.type = "tool_execution_start" /\ event.call = c)
             /\ ~(event.type = "tool_execution_end" /\ event.call = c)
    <3>1. new.tools[c] = row
      BY <2>3, <2>7 DEF RowAfter
    <3>2. StartsOf(new, c) = S /\ EndsOf(new, c) = E
      BY <1>3, <2>1, <2>7
    <3> QED
      BY <2>2, <3>1, <3>2
  <2> QED
    BY <2>5, <2>6, <2>7
<1> QED
  BY <1>4 DEF Replayed, new

(* What else a recorded event does to its run.                               *)
LEMMA EventRecorded ==
  ASSUME NEW run \in Run, NEW event \in Event, Once(run), event.key = 0,
         event.type \in {"tool_execution_start", "tool_execution_end"} => event.call \in Calls
  PROVE  /\ Once(WithEvent(run, event))
         /\ Settled(run) \/ event.type = "agent_settled" => Settled(WithEvent(run, event))
         /\ NoFailure(run) /\ event.status = "completed" => NoFailure(WithEvent(run, event))
<1> DEFINE new == WithEvent(run, event)
           n == Len(run.events)
<1>1. /\ Len(new.events) = n + 1
      /\ \A i \in DOMAIN run.events : new.events[i] = run.events[i]
      /\ new.events[n + 1] = event
      /\ new \in Run
  BY WithEventAppends
<1> HIDE DEF new
<1>2. n \in Nat /\ DOMAIN run.events = 1..n /\ DOMAIN new.events = 1..(n + 1)
  BY <1>1 DEF Run
<1> HIDE DEF n
<1>3. /\ \A i \in DOMAIN new.events : i \in DOMAIN run.events \/ i = n + 1
      /\ \A i \in DOMAIN run.events : i \in DOMAIN new.events
      /\ n + 1 \in DOMAIN new.events
  BY <1>2
<1>4. Once(new)
  BY <1>1, <1>3 DEF Once
<1>5. /\ Settled(run) \/ event.type = "agent_settled" => Settled(new)
      /\ NoFailure(run) /\ event.status = "completed" => NoFailure(new)
  BY <1>1, <1>3 DEF Settled, NoFailure
<1> QED
  BY <1>4, <1>5 DEF new

(* A function on 1..n is a sequence.                                         *)
LEMMA ArrayIsSeq ==
  ASSUME NEW S, NEW n \in Nat, NEW f \in [1..n -> S]
  PROVE  f \in Seq(S)
  OBVIOUS

(* Entries in order: no two are the same, and all are among those given.     *)
LEMMA InOrderIsInjective ==
  ASSUME NEW entries \in SUBSET (1..MaxEntries), NEW filed \in InOrder(entries)
  PROVE  /\ filed \in Seq(1..MaxEntries)
         /\ \A i \in DOMAIN filed : filed[i] \in entries
         /\ \A i, j \in DOMAIN filed : filed[i] = filed[j] => i = j
<1>1. MaxEntries \in Int /\ IsFiniteSet(1..MaxEntries)
  BY TracingAssumption, FS_Interval
<1>2. Cardinality(entries) \in Nat
  BY <1>1, FS_Subset, FS_CardinalityType
<1>3. /\ filed \in [1..Cardinality(entries) -> entries]
      /\ \A i, j \in DOMAIN filed : i < j => filed[i] < filed[j]
  BY DEF InOrder
<1>4. \A e \in entries : e \in Nat
  BY <1>1
<1> DEFINE k == Cardinality(entries)
<1> HIDE DEF k
<1>5. filed \in [1..k -> entries] /\ k \in Nat
  BY <1>2, <1>3 DEF k
<1>6. ASSUME NEW i \in DOMAIN filed, NEW j \in DOMAIN filed, filed[i] = filed[j]
      PROVE  i = j
  <2>1. i \in 1..k /\ j \in 1..k
    BY <1>5
  <2>2. filed[i] \in entries /\ filed[j] \in entries
    BY <1>5, <2>1
  <2>3. i \in Nat /\ j \in Nat /\ filed[i] \in Nat /\ filed[j] \in Nat
    <3>1. i \in Nat /\ j \in Nat
      BY <1>5, <2>1
    <3>2. filed[i] \in Nat /\ filed[j] \in Nat
      BY <1>4, <2>2
    <3> QED
      BY <3>1, <3>2
  <2>4. ~(i < j) /\ ~(j < i)
    BY <1>3, <1>6, <2>3
  <2> QED
    BY <2>3, <2>4
<1>7. \A i \in DOMAIN filed : filed[i] \in entries
  BY <1>5
<1>8. filed \in [1..k -> 1..MaxEntries]
  <2>1. \A i \in 1..k : filed[i] \in 1..MaxEntries
    BY <1>5, <1>7
  <2> QED
    BY <1>5, <2>1
<1>9. filed \in Seq(1..MaxEntries)
  BY <1>5, <1>8, ArrayIsSeq
<1> QED
  BY <1>6, <1>7, <1>9

(* Two sequences one after the other.                                        *)
Joined(u, s, t) ==
  /\ DOMAIN u = 1..(Len(s) + Len(t)) /\ Len(u) = Len(s) + Len(t)
  /\ \A i \in 1..Len(s) : u[i] = s[i]
  /\ \A i \in 1..Len(t) : u[Len(s) + i] = t[i]

(* A concatenation joins its two parts.                                      *)
LEMMA ConcatJoins ==
  ASSUME NEW E, NEW s \in Seq(E), NEW t \in Seq(E)
  PROVE  s \o t \in Seq(E) /\ Joined(s \o t, s, t)
<1>1. Len(s) \in Nat /\ Len(t) \in Nat
  OBVIOUS
<1>2. s \o t \in Seq(E) /\ Len(s \o t) = Len(s) + Len(t)
  OBVIOUS
<1>3. DOMAIN (s \o t) = 1..(Len(s) + Len(t))
  BY <1>2
<1>4. \A i \in 1..Len(s) : (s \o t)[i] = s[i]
  BY <1>1
<1>5. \A i \in 1..Len(t) : (s \o t)[Len(s) + i] = t[i]
  BY <1>1
<1> QED
  BY <1>2, <1>3, <1>4, <1>5 DEF Joined

(* ingest_entries: entries the run does not have, once each; nothing else is *)
(* said of the run than before.                                              *)
LEMMA EntriesFiled ==
  ASSUME NEW run \in Run, Replayed(run), Once(run),
         NEW filed \in Seq(1..MaxEntries),
         \A i, j \in DOMAIN filed : filed[i] = filed[j] => i = j,
         \A i \in DOMAIN filed : ~HasEntry(run, filed[i])
  PROVE  /\ Ingested(run, filed) \in Run
         /\ Ingested(run, filed).status = run.status
         /\ Replayed(Ingested(run, filed)) /\ Once(Ingested(run, filed))
         /\ OnlyEntries(run) => OnlyEntries(Ingested(run, filed))
         /\ Settled(run) => Settled(Ingested(run, filed))
         /\ NoFailure(run) => NoFailure(Ingested(run, filed))
<1> DEFINE new == Ingested(run, filed)
           tail == [i \in DOMAIN filed |-> EntryEvent(filed[i])]
           n == Len(run.events)
           m == Len(filed)
<1>1. /\ n \in Nat /\ m \in Nat /\ run.events \in Seq(Event) /\ DOMAIN run.events = 1..n
      /\ DOMAIN filed = 1..m /\ MaxEntries \in Nat
  BY TracingAssumption DEF Run
<1>2. /\ tail \in Seq(Event) /\ Len(tail) = m
      /\ \A i \in 1..m : /\ tail[i].type = "message" /\ tail[i].key = filed[i]
                         /\ tail[i].status = "completed" /\ tail[i].key # 0
  <2>1. \A i \in 1..m : filed[i] \in 0..MaxEntries /\ filed[i] # 0
    BY <1>1
  <2>2. \A i \in 1..m : tail[i] \in Event
    BY <1>1, <2>1 DEF EntryEvent, Event, Types, Outcomes, RunStatuses
  <2>3. tail \in [1..m -> Event]
    BY <1>1, <2>2
  <2>4. tail \in Seq(Event) /\ Len(tail) = m
    BY <1>1, <2>3
  <2> QED
    BY <1>1, <2>1, <2>4 DEF EntryEvent
<1> DEFINE events == run.events \o tail
<1>3. new = [run EXCEPT !.events = events]
  BY DEF Ingested
<1> HIDE DEF tail, new
<1>4. events \in Seq(Event) /\ Joined(events, run.events, tail)
  BY <1>1, <1>2, ConcatJoins
<1> HIDE DEF events
<1>5. /\ new.events = events /\ new.tools = run.tools
      /\ new.status = run.status /\ new \in Run
  BY <1>3, <1>4 DEF Run
<1>6. /\ \A i \in (n + 1)..(n + m) : i - n \in 1..m /\ i = n + (i - n)
      /\ \A i \in 1..n : i \in 1..(n + m)
      /\ \A i \in 1..(n + m) : i \in 1..n \/ i \in (n + 1)..(n + m)
  BY <1>1
<1>7. /\ DOMAIN new.events = 1..(n + m) /\ Len(new.events) = n + m
      /\ \A i \in 1..n : new.events[i] = run.events[i]
      /\ \A i \in 1..m : new.events[n + i] = tail[i]
  BY <1>2, <1>4, <1>5 DEF Joined
<1> HIDE DEF n, m
<1>8. ASSUME NEW i \in (n + 1)..(n + m)
      PROVE  /\ new.events[i].type = "message" /\ new.events[i].key = filed[i - n]
             /\ new.events[i].key # 0 /\ new.events[i].status = "completed"
  <2>1. i - n \in 1..m /\ new.events[i] = tail[i - n]
    BY <1>6, <1>7
  <2> QED
    BY <1>2, <2>1
<1>9. /\ \A i \in DOMAIN run.events : i \in DOMAIN new.events /\ new.events[i] = run.events[i]
      /\ \A i \in DOMAIN new.events :
           \/ i \in DOMAIN run.events
           \/ /\ new.events[i].type = "message" /\ new.events[i].key # 0
              /\ new.events[i].status = "completed"
  <2>1. \A i \in 1..(n + m) :
          \/ i \in 1..n
          \/ /\ new.events[i].type = "message" /\ new.events[i].key # 0
             /\ new.events[i].status = "completed"
    BY <1>6, <1>8
  <2> QED
    BY <1>1, <1>6, <1>7, <2>1
<1>10. Replayed(new)
  <2>1. \A c \in Calls : StartsOf(new, c) = StartsOf(run, c) /\ EndsOf(new, c) = EndsOf(run, c)
    BY <1>9 DEF StartsOf, EndsOf
  <2> QED
    BY <1>5, <2>1 DEF Replayed
<1>11. Once(new)
  <2> SUFFICES ASSUME NEW i \in 1..(n + m), NEW j \in 1..(n + m),
                      new.events[i].key # 0, new.events[i].key = new.events[j].key
               PROVE  i = j
    BY <1>7 DEF Once
  <2>1. CASE i \in 1..n /\ j \in 1..n
    BY <1>1, <1>7, <2>1, ZenonT(60) DEF Once
  <2>2. CASE i \in (n + 1)..(n + m) /\ j \in (n + 1)..(n + m)
    <3>1. i - n \in DOMAIN filed /\ j - n \in DOMAIN filed /\ filed[i - n] = filed[j - n]
      BY <1>1, <1>6, <1>7, <1>8, <2>2
    <3>2. i - n = j - n
      BY <3>1
    <3> QED
      BY <1>1, <3>2
  <2>3. CASE i \in 1..n /\ j \in (n + 1)..(n + m)
    <3>1. j - n \in DOMAIN filed /\ run.events[i].key = filed[j - n] /\ i \in DOMAIN run.events
      BY <1>1, <1>6, <1>7, <1>8, <2>3
    <3> QED
      BY <3>1 DEF HasEntry
  <2>4. CASE i \in (n + 1)..(n + m) /\ j \in 1..n
    <3>1. i - n \in DOMAIN filed /\ run.events[j].key = filed[i - n] /\ j \in DOMAIN run.events
      BY <1>1, <1>6, <1>7, <1>8, <2>4
    <3> QED
      BY <3>1 DEF HasEntry
  <2> QED
    BY <1>6, <2>1, <2>2, <2>3, <2>4
<1>12. /\ OnlyEntries(run) => OnlyEntries(new)
       /\ NoFailure(run) => NoFailure(new)
  BY <1>9 DEF OnlyEntries, NoFailure
<1>13. Settled(run) => Settled(new)
  BY <1>9 DEF Settled
<1> QED
  BY <1>5, <1>10, <1>11, <1>12, <1>13 DEF new

-----------------------------------------------------------------------------
(* How a step may change the table of runs: one more run, or another value   *)
(* of one of them.                                                           *)
Added(run) ==
  /\ runs' \in Seq(Run) /\ Len(runs') = Len(runs) + 1
  /\ \A r \in DOMAIN runs' : r \in DOMAIN runs \/ r = Len(runs) + 1
  /\ \A r \in DOMAIN runs : r \in DOMAIN runs' /\ runs'[r] = runs[r]
  /\ Len(runs) + 1 \in DOMAIN runs' /\ Len(runs) + 1 \notin DOMAIN runs
  /\ runs'[Len(runs) + 1] = run
Changed(at, run) ==
  /\ runs' \in Seq(Run) /\ Len(runs') = Len(runs) /\ DOMAIN runs' = DOMAIN runs
  /\ \A r \in DOMAIN runs : r # at => runs'[r] = runs[r]
  /\ runs'[at] = run

(* Appending a run adds it.                                                  *)
LEMMA AppendAdds ==
  ASSUME TypeOK, NEW run \in Run, runs' = Append(runs, run)
  PROVE  Added(run)
<1>1. runs \in Seq(Run) /\ Len(runs) \in Nat /\ DOMAIN runs = 1..Len(runs)
  BY DEF TypeOK
<1>2. /\ runs' \in Seq(Run) /\ Len(runs') = Len(runs) + 1
      /\ DOMAIN runs' = 1..(Len(runs) + 1)
      /\ \A r \in 1..Len(runs) : runs'[r] = runs[r]
      /\ runs'[Len(runs) + 1] = run
  BY <1>1
<1> QED
  BY <1>1, <1>2 DEF Added

(* Writing a run changes it alone.                                           *)
LEMMA ExceptChanges ==
  ASSUME TypeOK, NEW run \in Run, NEW at \in DOMAIN runs,
         runs' = [runs EXCEPT ![at] = run]
  PROVE  Changed(at, run)
  BY DEF TypeOK, Changed

(* A run that is made and then written is added as it was written.           *)
LEMMA AddedThenChanged ==
  ASSUME TypeOK, NEW first \in Run, NEW run \in Run,
         runs' = [Append(runs, first) EXCEPT ![Len(runs) + 1] = run]
  PROVE  Added(run)
<1>1. runs \in Seq(Run) /\ Len(runs) \in Nat /\ DOMAIN runs = 1..Len(runs)
  BY DEF TypeOK
<1> DEFINE longer == Append(runs, first)
<1>2. /\ longer \in Seq(Run) /\ Len(longer) = Len(runs) + 1
      /\ DOMAIN longer = 1..(Len(runs) + 1)
      /\ \A r \in 1..Len(runs) : longer[r] = runs[r]
  BY <1>1
<1> HIDE DEF longer
<1>3. runs' = [longer EXCEPT ![Len(runs) + 1] = run]
  BY DEF longer
<1>4. /\ runs' \in Seq(Run) /\ Len(runs') = Len(runs) + 1
      /\ DOMAIN runs' = 1..(Len(runs) + 1)
      /\ \A r \in 1..Len(runs) : runs'[r] = longer[r]
      /\ runs'[Len(runs) + 1] = run
  BY <1>1, <1>2, <1>3
<1> QED
  BY <1>1, <1>2, <1>4 DEF Added

(* The runs that a crash or a fault has to answer for.                       *)
Unfinished == {r \in DOMAIN runs : runs[r].status = "running" /\ r # stream.run}

(* The unfinished runs can be counted.                                       *)
LEMMA UnfinishedIsFinite ==
  ASSUME TypeOK
  PROVE  IsFiniteSet(Unfinished) /\ Cardinality(Unfinished) \in Nat
<1>1. Len(runs) \in Nat /\ DOMAIN runs = 1..Len(runs)
  BY DEF TypeOK
<1>2. IsFiniteSet(DOMAIN runs)
  BY <1>1, FS_Interval
<1>3. IsFiniteSet(Unfinished)
  BY <1>2, FS_Subset DEF Unfinished
<1> QED
  BY <1>3, FS_CardinalityType

(* No run more to answer for; or one, and a failure that answers for it.     *)
LEMMA NoneLeftRunning ==
  ASSUME TypeOK, TypeOK', RunsAreFinished, Unfinished' \subseteq Unfinished,
         used'.failures >= used.failures
  PROVE  RunsAreFinished'
<1>1. IsFiniteSet(Unfinished) /\ Cardinality(Unfinished) \in Nat
  BY UnfinishedIsFinite
<1>2. Cardinality(Unfinished') <= Cardinality(Unfinished) /\ Cardinality(Unfinished') \in Nat
  BY <1>1, FS_Subset, FS_CardinalityType
<1>3. Cardinality(Unfinished) <= used.failures
  BY DEF RunsAreFinished, Unfinished
<1>4. used.failures \in Nat /\ used'.failures \in Nat
  BY TracingAssumption DEF TypeOK
<1>5. Cardinality(Unfinished') <= used'.failures
  BY <1>1, <1>2, <1>3, <1>4
<1> QED
  BY <1>5 DEF RunsAreFinished, Unfinished

(* A fault that leaves at most one more run running is one that counts.      *)
LEMMA OneLeftRunning ==
  ASSUME TypeOK, TypeOK', RunsAreFinished, NEW r, Unfinished' \subseteq Unfinished \cup {r},
         used'.failures >= used.failures + 1
  PROVE  RunsAreFinished'
<1>1. IsFiniteSet(Unfinished) /\ Cardinality(Unfinished) \in Nat
  BY UnfinishedIsFinite
<1>2. /\ IsFiniteSet(Unfinished \cup {r})
      /\ Cardinality(Unfinished \cup {r}) \in Nat
      /\ Cardinality(Unfinished \cup {r}) <= Cardinality(Unfinished) + 1
  <2>1. /\ IsFiniteSet(Unfinished \cup {r})
        /\ \/ Cardinality(Unfinished \cup {r}) = Cardinality(Unfinished)
           \/ Cardinality(Unfinished \cup {r}) = Cardinality(Unfinished) + 1
    BY <1>1, FS_AddElement
  <2> QED
    BY <1>1, <2>1
<1>3. /\ Cardinality(Unfinished') <= Cardinality(Unfinished \cup {r})
      /\ Cardinality(Unfinished') \in Nat
  BY <1>2, FS_Subset, FS_CardinalityType
<1>4. Cardinality(Unfinished) <= used.failures
  BY DEF RunsAreFinished, Unfinished
<1>5. used.failures \in Nat /\ used'.failures \in Nat
  BY TracingAssumption DEF TypeOK
<1>6. Cardinality(Unfinished') <= used'.failures
  BY <1>1, <1>2, <1>3, <1>4, <1>5
<1> QED
  BY <1>6 DEF RunsAreFinished, Unfinished

-----------------------------------------------------------------------------
(* The types of everything but the runs: what each group of steps keeps.     *)
LEMMA StreamCloses ==
  ASSUME TypeOK PROVE NoStream \in Stream /\ NoStream.run = 0
  BY DEF NoStream, Stream, Outcomes, RunStatuses

(* A counted failure stays within the bound.                                 *)
LEMMA FailuresCounted ==
  ASSUME TypeOK, NEW n \in Nat, Failing(n)
  PROVE  /\ used'.failures = used.failures + n /\ used'.bound = used.bound
         /\ used.failures \in Nat /\ used'.failures \in Nat
         /\ used' \in [failures: 0..MaxFailures, events: Nat, bound: Instances]
<1>1. /\ used \in [failures: 0..MaxFailures, events: Nat, bound: Instances]
      /\ MaxFailures \in Nat /\ used.failures \in Nat
  BY TracingAssumption DEF TypeOK
<1> DEFINE k == used.failures + n
<1>2. k \in 0..MaxFailures /\ used' = [used EXCEPT !.failures = k]
  BY <1>1 DEF Failing
<1> HIDE DEF k
<1>3. /\ used'.failures = k /\ used'.bound = used.bound
      /\ used' \in [failures: 0..MaxFailures, events: Nat, bound: Instances]
  BY <1>1, <1>2
<1> QED
  BY <1>1, <1>2, <1>3 DEF k

(* While nothing is recorded and no run changes, the table stays sound; a    *)
(* crash leaves at most the run it interrupts.                               *)
LEMMA WaitingKeeps ==
  ASSUME Inv, \/ UNCHANGED vars \/ Finalize \/ Compact \/ NothingFetched \/ Crash
              \/ \E since \in 0..MaxEntries : Fetch(since)
  PROVE  Inv'
<1>1. TypeOK /\ Recording /\ RunsAreFinished /\ \A r \in DOMAIN runs : Sound(runs[r])
  BY DEF Inv
<1>2. /\ runs' = runs
      /\ \/ last' = last /\ stream' = stream /\ used' = used
         \/ last' = 0 /\ stream' = NoStream /\ Failing(1)
      /\ \/ log' = log
         \/ log < MaxEntries /\ log' = log + 1
      /\ inner' = inner \/ inner' = "idle"
      /\ sync' = sync \/ sync' = NoSync
         \/ \E since \in 0..log : sync' = [on |-> TRUE, entries |-> (since + 1)..log]
  BY DEF vars, Finalize, Compact, NothingFetched, Crash, Fetch
<1>3. log \in 0..MaxEntries /\ MaxEntries \in Nat /\ MaxFailures \in Nat /\ 0 \in 0..Len(runs)
  BY <1>1, TracingAssumption DEF TypeOK
<1>4. /\ used' \in [failures: 0..MaxFailures, events: Nat, bound: Instances]
      /\ used'.bound = used.bound
  <2>1. CASE used' = used
    BY <1>1, <2>1 DEF TypeOK
  <2>2. CASE Failing(1)
    BY <1>1, <2>2, FailuresCounted
  <2> QED
    BY <1>2, <2>1, <2>2
<1>5. log' \in 0..MaxEntries
  BY <1>2, <1>3
<1>6. sync' \in [on: BOOLEAN, entries: SUBSET (1..MaxEntries)]
  <2>1. NoSync \in [on: BOOLEAN, entries: SUBSET (1..MaxEntries)]
    BY DEF NoSync
  <2>2. \A since \in 0..log : (since + 1)..log \subseteq 1..MaxEntries
    BY <1>3
  <2>3. CASE \E since \in 0..log : sync' = [on |-> TRUE, entries |-> (since + 1)..log]
    <3>1. PICK since \in 0..log : sync' = [on |-> TRUE, entries |-> (since + 1)..log]
      BY <2>3
    <3>2. (since + 1)..log \in SUBSET (1..MaxEntries)
      BY <2>2
    <3> QED
      BY <3>1, <3>2
  <2>4. sync \in [on: BOOLEAN, entries: SUBSET (1..MaxEntries)]
    BY <1>1 DEF TypeOK
  <2> QED
    BY <1>2, <2>1, <2>3, <2>4
<1>7. TypeOK'
  BY <1>1, <1>2, <1>3, <1>4, <1>5, <1>6, StreamCloses DEF TypeOK
<1>8. Recording'
  BY <1>1, <1>2, StreamCloses DEF Recording, Streaming
<1>9. RunsAreFinished'
  <2>1. CASE stream' = stream /\ used' = used
    <3>1. Unfinished' \subseteq Unfinished
      BY <1>2, <2>1 DEF Unfinished
    <3>2. used'.failures >= used.failures
      BY <1>1, <2>1 DEF TypeOK
    <3> QED
      BY <1>1, <1>7, <3>1, <3>2, NoneLeftRunning
  <2>2. CASE stream' = NoStream /\ Failing(1)
    <3>1. Unfinished' \subseteq Unfinished \cup {stream.run}
      BY <1>2, <2>2 DEF Unfinished
    <3>2. used'.failures >= used.failures + 1
      BY <1>1, <2>2, FailuresCounted
    <3> QED
      BY <1>1, <1>7, <3>1, <3>2, OneLeftRunning
  <2> QED
    BY <1>2, <2>1, <2>2
<1> QED
  BY <1>1, <1>2, <1>7, <1>8, <1>9 DEF Inv

(* A new run, recorded or refused at once.                                   *)
LEMMA BeginKeeps ==
  ASSUME Inv, BeginStream \/ \E ok \in BOOLEAN : BeginRefused(ok)
  PROVE  Inv'
<1>1. TypeOK /\ Recording /\ RunsAreFinished /\ \A r \in DOMAIN runs : Sound(runs[r])
  BY DEF Inv
<1>2. /\ Len(runs) \in Nat /\ DOMAIN runs = 1..Len(runs) /\ stream.run = 0
      /\ Len(runs) < used.bound.runs /\ used.bound.runs \in Nat
  <2>1. used.bound \in [calls: SUBSET Calls, runs: Nat, events: Nat]
    BY <1>1, TracingAssumption DEF TypeOK
  <2> QED
    BY <1>1, <2>1 DEF TypeOK, BeginStream, BeginRefused, Streaming
<1>3. PICK run \in Run :
        /\ runs' = Append(runs, run) /\ Sound(run)
        /\ \/ /\ run = NewRun("running") /\ last' = Len(runs')
              /\ inner' = "active" /\ used' = used
              /\ stream' = [NoStream EXCEPT !.run = Len(runs')]
           \/ /\ last' = Len(runs') /\ UNCHANGED <<inner, stream>>
              /\ run.status \in {"running", "failed"}
              /\ \/ used' = used /\ run.status = "failed"
                 \/ Failing(1)
                 \/ Failing(0) /\ run.status = "failed"
  <2> DEFINE new == NewRun("running")
  <2>1. /\ new \in Run /\ Replayed(new) /\ Once(new) /\ new.status = "running"
    BY NewRunSound DEF RunStatuses
  <2> HIDE DEF new
  <2>2. CASE BeginStream
    <3>1. Sound(new)
      BY <2>1 DEF Sound, Earned
    <3> QED
      BY <2>1, <2>2, <3>1 DEF BeginStream, new
  <2>3. ASSUME NEW ok \in BOOLEAN, BeginRefused(ok)
        PROVE  \E run \in Run :
                 /\ runs' = Append(runs, run) /\ Sound(run)
                 /\ last' = Len(runs') /\ UNCHANGED <<inner, stream>>
                 /\ run.status \in {"running", "failed"}
                 /\ \/ Failing(1)
                    \/ Failing(0) /\ run.status = "failed"
    <3> DEFINE run == Finished(new, "failed", ok)
    <3>1. /\ run \in Run /\ run.events = new.events /\ run.tools = new.tools
          /\ run.status = IF ok THEN "failed" ELSE "running"
      <4>1. "failed" \in RunStatuses
        BY DEF RunStatuses
      <4>2. /\ run \in Run /\ run.events = new.events /\ run.tools = new.tools
            /\ run.status = IF ok THEN "failed" ELSE new.status
        BY <2>1, <4>1, FinishedKeeps
      <4> QED
        BY <2>1, <4>2
    <3>2. /\ runs' = Append(runs, run) /\ last' = Len(runs') /\ Failing(FaultIf(ok))
          /\ UNCHANGED <<inner, stream>>
      BY <2>3 DEF BeginRefused, new
    <3> HIDE DEF run
    <3>3. Sound(run)
      <4>1. Replayed(run) /\ Once(run)
        BY <2>1, <3>1, SameTimeline
      <4>2. Earned(run)
        BY <3>1 DEF Earned
      <4> QED
        BY <4>1, <4>2 DEF Sound
    <3>4. Failing(1) \/ (Failing(0) /\ run.status = "failed")
      BY <3>1, <3>2 DEF FaultIf
    <3> QED
      BY <3>1, <3>2, <3>3, <3>4
  <2> QED
    BY <2>2, <2>3
<1>4. Added(run)
  BY <1>1, <1>3, AppendAdds
<1>5. last' = Len(runs) + 1 /\ Len(runs) + 1 \in Nat /\ Len(runs) + 1 # 0
  BY <1>2, <1>3, <1>4 DEF Added
<1>6. /\ stream'.run \in {0, Len(runs) + 1} /\ stream' \in Stream
      /\ stream'.run # 0 => /\ run = NewRun("running") /\ ~stream'.settled
                            /\ used' = used
      /\ inner' \in {"idle", "active", "orphaned"}
  <2>1. NoStream \in Stream /\ NoStream.run = 0
    BY <1>1, StreamCloses
  <2>2. CASE stream' = [NoStream EXCEPT !.run = Len(runs')]
    <3>1. stream' = [NoStream EXCEPT !.run = Len(runs) + 1]
      BY <1>4, <2>2 DEF Added
    <3>2. stream' \in Stream /\ stream'.run = Len(runs) + 1 /\ ~stream'.settled
      BY <1>5, <2>1, <3>1 DEF NoStream, Stream
    <3>3. (run = NewRun("running") /\ used' = used /\ inner' = "active") \/ UNCHANGED stream
      BY <1>3
    <3>4. stream.run # Len(runs) + 1
      BY <1>2
    <3> QED
      BY <3>2, <3>3, <3>4
  <2>3. CASE UNCHANGED <<inner, stream>>
    BY <1>1, <1>2, <2>3 DEF TypeOK
  <2> QED
    BY <1>1, <1>3, <2>2, <2>3
<1>7. /\ used' \in [failures: 0..MaxFailures, events: Nat, bound: Instances]
      /\ used'.bound = used.bound /\ used'.failures >= used.failures
      /\ run.status = "running" /\ stream'.run = 0 => used'.failures >= used.failures + 1
  <2>1. CASE used' = used
    <3>1. used.failures \in Nat
      BY <1>1, TracingAssumption DEF TypeOK
    <3>2. run.status = "running" => stream'.run # 0
      BY <1>3, <1>4, <1>5, <2>1, <3>1, <1>1, FailuresCounted DEF Added, NoStream
    <3> QED
      BY <1>1, <2>1, <3>1, <3>2 DEF TypeOK
  <2>2. CASE Failing(1)
    BY <1>1, <2>2, FailuresCounted
  <2>3. CASE Failing(0) /\ run.status = "failed"
    BY <1>1, <2>3, FailuresCounted
  <2> QED
    BY <1>3, <2>1, <2>2, <2>3
<1>8. log' = log /\ sync' = sync
  BY DEF BeginStream, BeginRefused
<1>9. TypeOK'
  <2>1. runs' \in Seq(Run) /\ Len(runs') <= used'.bound.runs /\ last' \in 0..Len(runs')
    BY <1>2, <1>4, <1>5, <1>7 DEF Added
  <2> QED
    BY <1>1, <1>6, <1>7, <1>8, <2>1 DEF TypeOK
<1>10. \A r \in DOMAIN runs' : Sound(runs'[r])
  BY <1>1, <1>3, <1>4 DEF Added
<1>11. Recording'
  <2>1. CASE stream'.run # 0
    <3>1. stream'.run = last' /\ runs'[last'] = NewRun("running")
      BY <1>4, <1>5, <1>6, <2>1 DEF Added
    <3>2. NewRun("running").status = "running" /\ NoFailure(NewRun("running"))
      BY NewRunSound DEF RunStatuses
    <3> QED
      BY <1>6, <2>1, <3>1, <3>2 DEF Recording
  <2> QED
    BY <2>1 DEF Recording, Streaming
<1>12. RunsAreFinished'
  <2>1. CASE run.status = "running" /\ stream'.run = 0
    <3>1. Unfinished' \subseteq Unfinished \cup {Len(runs) + 1}
      BY <1>2, <1>4, <2>1 DEF Unfinished, Added
    <3> QED
      BY <1>1, <1>7, <1>9, <2>1, <3>1, OneLeftRunning
  <2>2. CASE ~(run.status = "running" /\ stream'.run = 0)
    <3>1. stream.run \notin DOMAIN runs
      BY <1>2
    <3>2. Unfinished' \subseteq Unfinished
      BY <1>2, <1>4, <1>6, <2>2, <3>1 DEF Unfinished, Added
    <3> QED
      BY <1>1, <1>7, <1>9, <3>2, NoneLeftRunning
  <2> QED
    BY <2>1, <2>2
<1> QED
  BY <1>9, <1>10, <1>11, <1>12 DEF Inv

(* What is known of the run being recorded.                                  *)
LEMMA RecordedRun ==
  ASSUME Inv, Streaming
  PROVE  /\ stream.run = last /\ last \in DOMAIN runs /\ runs[last] \in Run
         /\ Sound(runs[last]) /\ runs[last].status = "running"
         /\ stream.settled => Settled(runs[last])
         /\ stream.status = "completed" => NoFailure(runs[last])
<1>1. TypeOK /\ Recording /\ \A r \in DOMAIN runs : Sound(runs[r])
  BY DEF Inv
<1>2. /\ stream.run = last /\ last # 0 /\ runs[last].status = "running"
      /\ stream.settled => Settled(runs[last])
      /\ stream.status = "completed" => NoFailure(runs[last])
  BY <1>1 DEF Recording, Streaming
<1>3. last \in DOMAIN runs /\ runs[last] \in Run
  BY <1>1, <1>2 DEF TypeOK
<1> QED
  BY <1>1, <1>2, <1>3

(* The stream is left, on whatever way: completed only if its turn settled   *)
(* and failed nowhere, and still running only if the database refused.       *)
LEMMA LeavingKeeps ==
  ASSUME Inv, Streaming,
         NEW status \in Outcomes, NEW ok \in BOOLEAN, NEW n \in Nat, ~ok => n > 0,
         status = "completed" => stream.settled /\ stream.status = "completed",
         runs' = [runs EXCEPT ![stream.run] = Finished(@, status, ok)],
         stream' = NoStream, Failing(n), UNCHANGED <<last, sync>>,
         log' \in 0..MaxEntries, inner' \in {"idle", "active", "orphaned"}
  PROVE  Inv'
<1>1. TypeOK /\ RunsAreFinished /\ \A r \in DOMAIN runs : Sound(runs[r])
  BY DEF Inv
<1>2. /\ stream.run = last /\ last \in DOMAIN runs /\ runs[last] \in Run
      /\ Sound(runs[last]) /\ runs[last].status = "running"
      /\ stream.settled => Settled(runs[last])
      /\ stream.status = "completed" => NoFailure(runs[last])
  BY RecordedRun
<1> DEFINE old == runs[last]
           run == Finished(old, status, ok)
<1>3. /\ run \in Run /\ run.events = old.events /\ run.tools = old.tools
      /\ run.status = IF ok THEN status ELSE old.status
  <2>1. status \in RunStatuses
    BY DEF Outcomes
  <2> QED
    BY <1>2, <2>1, FinishedKeeps
<1>4. runs' = [runs EXCEPT ![last] = run]
  BY <1>2
<1> HIDE DEF run
<1>5. Changed(last, run)
  BY <1>1, <1>2, <1>3, <1>4, ExceptChanges
<1>6. Sound(run)
  <2>1. Replayed(run) /\ Once(run)
    BY <1>2, <1>3, SameTimeline DEF Sound
  <2>2. run.status = "completed" => Settled(run) /\ NoFailure(run)
    <3>1. SUFFICES ASSUME run.status = "completed" PROVE Settled(run) /\ NoFailure(run)
      OBVIOUS
    <3>2. Settled(old) /\ NoFailure(old)
      BY <1>2, <1>3, <3>1
    <3> QED
      BY <1>3, <3>2, SameTimeline
  <2> QED
    BY <2>1, <2>2 DEF Sound, Earned
<1>7. /\ used'.failures = used.failures + n /\ used'.bound = used.bound
      /\ used.failures \in Nat /\ used'.failures \in Nat
      /\ used' \in [failures: 0..MaxFailures, events: Nat, bound: Instances]
  BY <1>1, FailuresCounted
<1>8. NoStream \in Stream /\ NoStream.run = 0
  BY <1>1, StreamCloses
<1>9. TypeOK'
  BY <1>1, <1>5, <1>7, <1>8 DEF TypeOK, Changed
<1>10. \A r \in DOMAIN runs' : Sound(runs'[r])
  BY <1>1, <1>5, <1>6 DEF Changed
<1>11. Recording'
  BY <1>8 DEF Recording, Streaming
<1>12. RunsAreFinished'
  <2>1. CASE ok
    <3>1. run.status # "running"
      BY <1>3, <2>1 DEF Outcomes
    <3>2. Unfinished' \subseteq Unfinished
      BY <1>2, <1>5, <3>1 DEF Unfinished, Changed
    <3>3. used'.failures >= used.failures
      BY <1>7
    <3> QED
      BY <1>1, <1>9, <3>2, <3>3, NoneLeftRunning
  <2>2. CASE ~ok
    <3>1. Unfinished' \subseteq Unfinished \cup {last}
      BY <1>2, <1>5 DEF Unfinished, Changed
    <3>2. used'.failures >= used.failures + 1
      BY <1>7, <2>2
    <3> QED
      BY <1>1, <1>9, <3>1, <3>2, OneLeftRunning
  <2> QED
    BY <2>1, <2>2
<1> QED
  BY <1>9, <1>10, <1>11, <1>12 DEF Inv

(* What the wrapped runtime yields is an event of a run.                     *)
LEMMA YieldedEvent ==
  ASSUME TypeOK, NEW event, Yields(event),
         event.type \in Types, event.call \in used.bound.calls \cup {NoCall},
         event.status \in Outcomes, event.key = 0,
         event = [type |-> event.type, call |-> event.call, status |-> event.status,
                  key |-> event.key]
  PROVE  /\ event \in Event
         /\ event.type \in ToolTypes <=> event.call \in Calls
         /\ StatusAfter(event) \in Outcomes
         /\ StatusAfter(event) = "completed" =>
              stream.status = "completed" /\ event.status = "completed"
         /\ log' \in 0..MaxEntries
<1>1. used.bound.calls \subseteq Calls /\ MaxEntries \in Nat
  BY TracingAssumption DEF TypeOK
<1>2. event \in Event
  BY <1>1 DEF Event
<1>3. MayYield(event) /\ log' \in 0..MaxEntries
  BY DEF Yields
<1>4. event.type \in ToolTypes <=> event.call \in Calls
  BY <1>1, <1>3, TracingAssumption DEF MayYield
<1>5. event.type \notin ClosingTypes => event.status = "completed"
  BY <1>3 DEF MayYield
<1>6. stream.status \in Outcomes
  BY DEF TypeOK, Stream
<1>7. /\ StatusAfter(event) \in Outcomes
      /\ StatusAfter(event) = "completed" =>
           stream.status = "completed" /\ event.status = "completed"
  BY <1>5, <1>6 DEF StatusAfter
<1> QED
  BY <1>2, <1>3, <1>4, <1>7

(* An event is recorded: its run stays sound, and what stream() remembers    *)
(* stays what the timeline says.                                             *)
LEMMA RecordKeeps ==
  ASSUME Inv, NEW event, Record(event),
         event.type \in Types, event.call \in used.bound.calls \cup {NoCall},
         event.status \in Outcomes, event.key = 0,
         event = [type |-> event.type, call |-> event.call, status |-> event.status,
                  key |-> event.key]
  PROVE  Inv'
<1>1. TypeOK /\ RunsAreFinished /\ Streaming /\ \A r \in DOMAIN runs : Sound(runs[r])
  BY DEF Inv, Record, Yields
<1>2. /\ stream.run = last /\ last \in DOMAIN runs /\ runs[last] \in Run
      /\ Sound(runs[last]) /\ runs[last].status = "running"
      /\ stream.settled => Settled(runs[last])
      /\ stream.status = "completed" => NoFailure(runs[last])
  BY <1>1, RecordedRun
<1>3. /\ event \in Event
      /\ event.type \in ToolTypes <=> event.call \in Calls
      /\ StatusAfter(event) \in Outcomes
      /\ StatusAfter(event) = "completed" =>
           stream.status = "completed" /\ event.status = "completed"
      /\ log' \in 0..MaxEntries
  BY <1>1, YieldedEvent DEF Record
<1>4. stream \in Stream
  BY <1>1 DEF TypeOK
<1>5. event.type \in {"tool_execution_start", "tool_execution_end"} => event.call \in Calls
  BY <1>3 DEF ToolTypes
<1> DEFINE run == WithEvent(runs[last], event)
<1>6. run \in Run /\ run.status = "running"
  BY <1>2, <1>3, <1>5, WithEventAppends
<1>7. Replayed(run)
  BY <1>2, <1>3, <1>5, EventReplayed DEF Sound
<1>8. /\ Once(run)
      /\ Settled(runs[last]) \/ event.type = "agent_settled" => Settled(run)
      /\ NoFailure(runs[last]) /\ event.status = "completed" => NoFailure(run)
  BY <1>2, <1>3, <1>5, EventRecorded DEF Sound
<1>9. runs' = [runs EXCEPT ![last] = run]
  BY <1>2 DEF Record
<1> HIDE DEF run
<1>10. Changed(last, run)
  BY <1>1, <1>2, <1>6, <1>9, ExceptChanges
<1>11. Sound(run)
  BY <1>6, <1>7, <1>8 DEF Sound, Earned
<1>12. /\ stream' \in Stream /\ stream'.run = last
       /\ stream'.settled => stream.settled \/ event.type = "agent_settled"
       /\ stream'.status = StatusAfter(event)
  <2> DEFINE settled == stream.settled \/ event.type = "agent_settled"
             status == StatusAfter(event)
  <2>1. stream' = [stream EXCEPT !.settled = settled, !.status = status]
    BY DEF Record
  <2>2. settled \in BOOLEAN /\ status \in Outcomes
    BY <1>3, <1>4 DEF Stream
  <2> HIDE DEF settled, status
  <2>3. /\ stream' \in Stream /\ stream'.run = stream.run /\ stream'.settled = settled
        /\ stream'.status = status
    BY <1>4, <2>1, <2>2 DEF Stream
  <2> QED
    BY <1>2, <2>3 DEF settled, status
<1>13. /\ used' \in [failures: 0..MaxFailures, events: Nat, bound: Instances]
       /\ used'.bound = used.bound /\ used'.failures = used.failures /\ used.failures \in Nat
  <2>1. /\ used \in [failures: 0..MaxFailures, events: Nat, bound: Instances]
        /\ MaxFailures \in Nat /\ used.events \in Nat
        /\ used' = [used EXCEPT !.events = used.events + 1]
    BY <1>1, TracingAssumption DEF TypeOK, Record
  <2>2. used.events + 1 \in Nat
    BY <2>1
  <2> QED
    BY <2>1, <2>2
<1>14. TypeOK'
  BY <1>1, <1>3, <1>10, <1>12, <1>13 DEF TypeOK, Record, Changed
<1>15. \A r \in DOMAIN runs' : Sound(runs'[r])
  BY <1>1, <1>10, <1>11 DEF Changed
<1>16. Recording'
  <2>1. stream'.run = last' /\ runs'[last'] = run
    BY <1>10, <1>12 DEF Record, Changed
  <2>2. stream'.settled => Settled(run)
    BY <1>2, <1>8, <1>12
  <2>3. stream'.status = "completed" => NoFailure(run)
    BY <1>2, <1>3, <1>8, <1>12
  <2> QED
    BY <1>6, <1>12, <2>1, <2>2, <2>3 DEF Recording
<1>17. RunsAreFinished'
  <2>1. Unfinished' \subseteq Unfinished
    BY <1>2, <1>6, <1>10, <1>12 DEF Unfinished, Changed
  <2>2. used'.failures >= used.failures
    BY <1>13
  <2> QED
    BY <1>1, <1>14, <2>1, <2>2, NoneLeftRunning
<1> QED
  BY <1>14, <1>15, <1>16, <1>17 DEF Inv

(* Entries are filed: in the last run, or in one made for them.              *)
LEMMA IngestKeeps ==
  ASSUME Inv, NEW ok \in BOOLEAN, Ingest(ok)
  PROVE  Inv'
<1>1. TypeOK /\ RunsAreFinished /\ Recording /\ \A r \in DOMAIN runs : Sound(runs[r])
  BY DEF Inv
<1>2. /\ Len(runs) \in Nat /\ DOMAIN runs = 1..Len(runs) /\ last \in 0..Len(runs)
      /\ sync.entries \in SUBSET (1..MaxEntries)
  BY <1>1 DEF TypeOK
<1> DEFINE first == NewRun("running")
           before == SyncTarget[SyncRun]
<1>3. /\ before \in Run /\ Sound(before)
      /\ last = 0 => before = first /\ first \in Run /\ SyncRun = Len(runs) + 1
      /\ last # 0 => before = runs[last] /\ SyncRun = last /\ last \in DOMAIN runs
  <2>1. CASE last = 0
    <3>1. first \in Run /\ Replayed(first) /\ Once(first) /\ first.status = "running"
      BY NewRunSound DEF RunStatuses
    <3>2. SyncTarget = Append(runs, first) /\ SyncRun = Len(runs) + 1
      BY <2>1 DEF SyncTarget, SyncRun
    <3> HIDE DEF first
    <3>3. Append(runs, first)[Len(runs) + 1] = first
      BY <1>1, <3>1 DEF TypeOK
    <3>4. Sound(first)
      BY <3>1 DEF Sound, Earned
    <3> QED
      BY <2>1, <3>1, <3>2, <3>3, <3>4 DEF first
  <2>2. CASE last # 0
    <3>1. last \in DOMAIN runs /\ SyncTarget = runs /\ SyncRun = last
      BY <1>2, <2>2 DEF SyncTarget, SyncRun
    <3> QED
      BY <1>1, <2>2, <3>1 DEF TypeOK
  <2> QED
    BY <2>1, <2>2
<1>4. PICK upto \in 0..MaxEntries :
        \E filed \in InOrder({e \in NewEntries(before, sync.entries) : e <= upto}) :
          runs' = [SyncTarget EXCEPT ![SyncRun] =
                     IF last = 0 THEN Finished(Ingested(before, filed), "completed", ok)
                     ELSE Ingested(before, filed)]
  BY DEF Ingest
<1> DEFINE chosen == {e \in NewEntries(before, sync.entries) : e <= upto}
<1>5. PICK filed \in InOrder(chosen) :
        runs' = [SyncTarget EXCEPT ![SyncRun] =
                   IF last = 0 THEN Finished(Ingested(before, filed), "completed", ok)
                   ELSE Ingested(before, filed)]
  BY <1>4
<1>6. /\ chosen \in SUBSET (1..MaxEntries)
      /\ \A e \in chosen : ~HasEntry(before, e)
  BY <1>2 DEF NewEntries
<1> HIDE DEF chosen, before
<1>7. /\ filed \in Seq(1..MaxEntries)
      /\ \A i \in DOMAIN filed : filed[i] \in chosen
      /\ \A i, j \in DOMAIN filed : filed[i] = filed[j] => i = j
  BY <1>6, InOrderIsInjective
<1>8. \A i \in DOMAIN filed : ~HasEntry(before, filed[i])
  BY <1>6, <1>7
<1> DEFINE run == Ingested(before, filed)
<1>9. /\ run \in Run /\ run.status = before.status /\ Replayed(run) /\ Once(run)
      /\ OnlyEntries(before) => OnlyEntries(run)
      /\ Settled(before) => Settled(run)
      /\ NoFailure(before) => NoFailure(run)
  <2>1. Replayed(before) /\ Once(before)
    BY <1>3 DEF Sound
  <2> QED
    BY <1>3, <1>7, <1>8, <2>1, EntriesFiled
<1> HIDE DEF run
<1>10. /\ used'.failures = used.failures + FaultIf(ok) /\ used'.bound = used.bound
       /\ used.failures \in Nat /\ used'.failures \in Nat
       /\ used' \in [failures: 0..MaxFailures, events: Nat, bound: Instances]
  <2>1. FaultIf(ok) \in Nat /\ Failing(FaultIf(ok))
    BY DEF FaultIf, Ingest
  <2> QED
    BY <1>1, <2>1, FailuresCounted
<1>11. /\ last' = SyncRun /\ sync' = NoSync /\ UNCHANGED <<log, inner, stream>>
       /\ Len(SyncTarget) <= used.bound.runs
       /\ NoSync \in [on: BOOLEAN, entries: SUBSET (1..MaxEntries)]
  BY DEF Ingest, NoSync
<1>12. CASE last # 0
  <2>1. runs' = [runs EXCEPT ![last] = run] /\ last' = last
    BY <1>3, <1>5, <1>11, <1>12 DEF SyncTarget, SyncRun, run
  <2>2. Changed(last, run)
    BY <1>1, <1>3, <1>9, <1>12, <2>1, ExceptChanges
  <2>3. Sound(run)
    BY <1>3, <1>9 DEF Sound, Earned
  <2>4. TypeOK'
    BY <1>1, <1>10, <1>11, <2>1, <2>2 DEF TypeOK, Changed
  <2>5. \A r \in DOMAIN runs' : Sound(runs'[r])
    BY <1>1, <2>2, <2>3 DEF Changed
  <2>6. Recording'
    <3>1. runs'[last] = run /\ run.status = runs[last].status
      BY <1>3, <1>9, <1>12, <2>2 DEF Changed
    <3> QED
      BY <1>1, <1>3, <1>9, <1>11, <1>12, <2>1, <3>1 DEF Recording, Streaming
  <2>7. RunsAreFinished'
    <3>1. Unfinished' \subseteq Unfinished
      BY <1>3, <1>9, <1>11, <1>12, <2>2 DEF Unfinished, Changed
    <3>2. used'.failures >= used.failures
      BY <1>10 DEF FaultIf
    <3> QED
      BY <1>1, <2>4, <3>1, <3>2, NoneLeftRunning
  <2> QED
    BY <2>4, <2>5, <2>6, <2>7 DEF Inv
<1>13. CASE last = 0
  <2> DEFINE done == Finished(run, "completed", ok)
  <2>1. /\ done \in Run /\ done.events = run.events /\ done.tools = run.tools
        /\ done.status = IF ok THEN "completed" ELSE run.status
    <3>1. "completed" \in RunStatuses
      BY DEF RunStatuses
    <3> QED
      BY <1>9, <3>1, FinishedKeeps
  <2>2. run.status = "running" /\ OnlyEntries(run)
    <3>1. first.status = "running" /\ OnlyEntries(first)
      BY NewRunSound DEF RunStatuses
    <3> QED
      BY <1>3, <1>9, <1>13, <3>1
  <2>3. runs' = [Append(runs, first) EXCEPT ![Len(runs) + 1] = done] /\ last' = Len(runs) + 1
    BY <1>3, <1>5, <1>11, <1>13 DEF SyncTarget, SyncRun, run
  <2> HIDE DEF done
  <2>4. Added(done)
    BY <1>1, <1>3, <1>13, <2>1, <2>3, AddedThenChanged
  <2>5. Sound(done)
    <3>1. Replayed(done) /\ Once(done) /\ OnlyEntries(done)
      BY <1>9, <2>1, <2>2, SameTimeline
    <3> QED
      BY <3>1 DEF Sound, Earned
  <2>6. ~Streaming /\ stream.run = 0
    BY <1>1, <1>13 DEF Recording, Streaming
  <2>7. Len(runs) + 1 <= used.bound.runs
    <3>1. SyncTarget = Append(runs, first)
      BY <1>13 DEF SyncTarget
    <3>2. Len(Append(runs, first)) = Len(runs) + 1
      BY <1>1, <1>3, <1>13 DEF TypeOK
    <3> QED
      BY <1>11, <3>1, <3>2
  <2>8. TypeOK'
    <3>1. runs' \in Seq(Run) /\ Len(runs') <= used'.bound.runs /\ last' \in 0..Len(runs')
      BY <1>2, <1>10, <2>3, <2>4, <2>7 DEF Added
    <3> QED
      BY <1>1, <1>10, <1>11, <3>1 DEF TypeOK
  <2>9. \A r \in DOMAIN runs' : Sound(runs'[r])
    BY <1>1, <2>4, <2>5 DEF Added
  <2>10. Recording'
    BY <1>11, <2>6 DEF Recording, Streaming
  <2>11. RunsAreFinished'
    <3>1. CASE ok
      <4>1. Unfinished' \subseteq Unfinished
        BY <1>11, <2>1, <2>4, <3>1 DEF Unfinished, Added
      <4>2. used'.failures >= used.failures
        BY <1>10 DEF FaultIf
      <4> QED
        BY <1>1, <2>8, <4>1, <4>2, NoneLeftRunning
    <3>2. CASE ~ok
      <4>1. Unfinished' \subseteq Unfinished \cup {Len(runs) + 1}
        BY <1>11, <2>4 DEF Unfinished, Added
      <4>2. used'.failures >= used.failures + 1
        BY <1>10, <3>2 DEF FaultIf
      <4> QED
        BY <1>1, <2>8, <4>1, <4>2, OneLeftRunning
    <3> QED
      BY <3>1, <3>2
  <2> QED
    BY <2>8, <2>9, <2>10, <2>11 DEF Inv
<1> QED
  BY <1>12, <1>13

-----------------------------------------------------------------------------
(* Every step keeps the invariant.                                           *)
LEMMA InvStep == Inv /\ [Next]_vars => Inv'
<1> SUFFICES ASSUME Inv, [Next]_vars PROVE Inv'
  OBVIOUS
<1>1. TypeOK /\ log \in 0..MaxEntries /\ 0 \in Nat /\ 1 \in Nat
  BY DEF Inv, TypeOK
<1>2. CASE \/ UNCHANGED vars \/ Finalize \/ Compact \/ NothingFetched \/ Crash
           \/ \E since \in 0..MaxEntries : Fetch(since)
  BY <1>2, WaitingKeeps
<1>3. CASE BeginStream \/ \E ok \in BOOLEAN : BeginRefused(ok)
  BY <1>3, BeginKeeps
<1>4. CASE EventStep
  <2>1. PICK type \in Types, call \in used.bound.calls \cup {NoCall}, status \in Outcomes :
          LET event == [type |-> type, call |-> call, status |-> status, key |-> 0]
          IN Record(event) \/ \E ok \in BOOLEAN : RecordFails(event, ok)
    BY <1>4 DEF EventStep
  <2> DEFINE event == [type |-> type, call |-> call, status |-> status, key |-> 0]
  <2>2. Record(event) \/ \E ok \in BOOLEAN : RecordFails(event, ok)
    BY <2>1
  <2>3. /\ event.type \in Types /\ event.call \in used.bound.calls \cup {NoCall}
        /\ event.status \in Outcomes /\ event.key = 0
        /\ event = [type |-> event.type, call |-> event.call, status |-> event.status,
                    key |-> event.key]
    OBVIOUS
  <2> HIDE DEF event
  <2>4. CASE Record(event)
    BY <2>3, <2>4, RecordKeeps
  <2>5. ASSUME NEW ok \in BOOLEAN, RecordFails(event, ok)
        PROVE  Inv'
    <3>1. Yields(event) /\ Streaming
      BY <2>5 DEF RecordFails, Yields
    <3>2. log' \in 0..MaxEntries
      BY <1>1, <2>3, <3>1, YieldedEvent
    <3>3. 1 + FaultIf(ok) \in Nat /\ 1 + FaultIf(ok) > 0 /\ Failing(1 + FaultIf(ok))
      BY <2>5 DEF FaultIf, RecordFails
    <3>4. "failed" \in Outcomes /\ "failed" # "completed"
      BY DEF Outcomes, RunStatuses
    <3> QED
      BY <2>5, <3>1, <3>2, <3>3, <3>4, LeavingKeeps DEF RecordFails
  <2> QED
    BY <2>2, <2>4, <2>5
<1>5. ASSUME NEW ok \in BOOLEAN, NEW status \in Outcomes, Streaming, Leave(status, ok),
             status = "completed" => stream.settled /\ stream.status = "completed",
             inner' \in {"idle", "orphaned"}
      PROVE  Inv'
  <2>1. FaultIf(ok) \in Nat /\ (~ok => FaultIf(ok) > 0)
    BY DEF FaultIf
  <2> QED
    BY <1>1, <1>5, <2>1, LeavingKeeps DEF Leave
<1>6. ASSUME NEW ok \in BOOLEAN, InnerRaises(ok) PROVE Inv'
  <2>1. "failed" \in Outcomes /\ "failed" # "completed"
    BY DEF Outcomes, RunStatuses
  <2> QED
    BY <1>5, <1>6, <2>1 DEF InnerRaises
<1>7. ASSUME NEW ok \in BOOLEAN, Abandon(ok) PROVE Inv'
  <2>1. PICK status \in {"aborted", "failed"} : Leave(status, ok)
    BY <1>7 DEF Abandon
  <2>2. status \in Outcomes /\ status # "completed"
    BY DEF Outcomes, RunStatuses
  <2> QED
    BY <1>5, <1>7, <2>1, <2>2 DEF Abandon
<1>8. ASSUME NEW ok \in BOOLEAN, InnerReturns(ok) PROVE Inv'
  <2>1. /\ FinalStatus \in Outcomes
        /\ FinalStatus = "completed" => stream.settled /\ stream.status = "completed"
    BY <1>1 DEF FinalStatus, TypeOK, Stream, Outcomes, RunStatuses
  <2> QED
    BY <1>5, <1>8, <2>1 DEF InnerReturns
<1>9. ASSUME NEW ok \in BOOLEAN, Ingest(ok) PROVE Inv'
  BY <1>9, IngestKeeps
<1> QED
  BY <1>2, <1>3, <1>4, <1>6, <1>7, <1>8, <1>9 DEF Next

(* With no run there is nothing to say of one.                               *)
LEMMA InvInitially == Init => Inv
<1> SUFFICES ASSUME Init PROVE Inv
  OBVIOUS
<1>1. /\ MaxEntries \in Nat /\ MaxFailures \in Nat
      /\ used.bound \in Instances /\ used.bound.runs \in Nat /\ used.failures = 0
      /\ used \in [failures: {0}, events: {0}, bound: Instances]
  BY TracingAssumption DEF Init
<1>2. used \in [failures: 0..MaxFailures, events: Nat, bound: Instances]
  <2>1. 0 \in 0..MaxFailures /\ 0 \in Nat
    BY <1>1
  <2> QED
    BY <1>1, <2>1
<1>3. NoStream \in Stream /\ NoSync \in [on: BOOLEAN, entries: SUBSET (1..MaxEntries)]
  BY DEF NoStream, NoSync, Stream, Outcomes, RunStatuses
<1>4. /\ runs \in Seq(Run) /\ Len(runs) = 0 /\ DOMAIN runs = {}
      /\ last \in 0..Len(runs) /\ log \in 0..MaxEntries
  BY <1>1 DEF Init
<1>5. TypeOK
  BY <1>1, <1>2, <1>3, <1>4 DEF Init, TypeOK
<1>6. Recording
  BY DEF Init, Recording, Streaming, NoStream
<1>7. RunsAreFinished
  <2>1. Unfinished = {}
    BY <1>4 DEF Unfinished
  <2>2. Cardinality(Unfinished) = 0
    BY <2>1, FS_EmptySet
  <2> QED
    BY <1>1, <2>2 DEF RunsAreFinished, Unfinished
<1> QED
  BY <1>4, <1>5, <1>6, <1>7 DEF Inv

(* What holds in every reachable state of the recorder.                      *)
THEOREM InvariantHolds == Spec => []Inv
  BY InvInitially, InvStep, PTL DEF Spec

(* The tables and the locals of stream() are well typed.                     *)
THEOREM TypesHold == Spec => []TypeOK
<1>1. Inv => TypeOK
  BY DEF Inv
<1> QED
  BY <1>1, InvariantHolds, PTL

(* However often and from wherever entries are synchronised, and whatever    *)
(* failed half way before, a run holds each of them once.                    *)
THEOREM EntriesAreFiledOnce == Spec => []EntriesOnce
<1>1. Inv => EntriesOnce
  BY DEF Inv, Sound, Once, EntriesOnce
<1> QED
  BY <1>1, InvariantHolds, PTL

(* A run says completed only if its turn settled and reported no failure, or *)
(* if it is the record of a synchronisation.                                 *)
THEOREM CompletionIsEarned == Spec => []CompletedIsEarned
<1>1. Inv => CompletedIsEarned
  BY DEF Inv, Sound, Earned, OnlyEntries, Settled, NoFailure, CompletedIsEarned, Positions
<1> QED
  BY <1>1, InvariantHolds, PTL

(* The tool rows of a run are what a replay of its timeline gives, whatever  *)
(* starts and ends it holds.                                                 *)
THEOREM RowsAreReplayed == Spec => []ToolsAreReplayed
<1>1. Inv => ToolsAreReplayed
  BY DEF Inv, Sound, Replayed, ToolsAreReplayed, StartsOf, EndsOf, Positions
<1> QED
  BY <1>1, InvariantHolds, PTL

(* Each run left running, but for the one being recorded, is accounted for   *)
(* by a crash or by a transaction that raised.                               *)
THEOREM RunsFinish == Spec => []RunsAreFinished
<1>1. Inv => RunsAreFinished
  BY DEF Inv
<1> QED
  BY <1>1, InvariantHolds, PTL

-----------------------------------------------------------------------------
(* Parity: a run with and without the entries filed under it.                *)
Live(events) ==
  FoldLeft(LAMBDA kept, e : IF e.key = 0 THEN Append(kept, e) ELSE kept, <<>>, events)

(* Leaving out the filed entries takes one step for each event.              *)
LiveStep(kept, event) == IF event.key = 0 THEN Append(kept, event) ELSE kept
LiveSteps(events) ==
  [x \in Seq(Event) \X (1..Len(events)) |-> LiveStep(x[1], events[x[2]])]

(* It is the fold of these steps.                                            *)
LEMMA LiveFolds ==
  ASSUME NEW events \in Seq(Event)
  PROVE  /\ StepsStay(Len(events), Seq(Event), LiveSteps(events))
         /\ FoldsTo(Live(events), Len(events), Seq(Event), <<>>, LiveSteps(events))
<1> DEFINE n == Len(events)
           T == Seq(Event)
           F == LiveSteps(events)
           Is(g) == g = [S \in SUBSET (1..n) |->
                           IF S = {} THEN <<>> ELSE LiveStep(g[S \ {Max(S)}], events[Max(S)])]
<1>1. n \in Nat /\ DOMAIN events = 1..n /\ \A i \in 1..n : events[i] \in Event
  OBVIOUS
<1>2. \A v \in T, e \in Event : LiveStep(v, e) \in T
  BY DEF LiveStep
<1>3. \A v \in T, i \in 1..n : F[<<v, i>>] = LiveStep(v, events[i]) /\ F[<<v, i>>] \in T
  <2>1. \A v \in T, i \in 1..n : LiveStep(v, events[i]) \in T
    BY <1>1, <1>2
  <2>2. \A v \in T, i \in 1..n : F[<<v, i>>] = LiveStep(v, events[i])
    BY DEF LiveSteps
  <2> HIDE DEF n, T, F
  <2> QED
    BY <2>1, <2>2
<1>4. StepsStay(n, T, F)
  <2> HIDE DEF n, T, F
  <2> QED
    BY <1>3 DEF StepsStay
<1>5. <<>> \in T
  OBVIOUS
<1>6. ASSUME NEW S \in SUBSET (1..n), S # {}, NEW v \in T
      PROVE  F[<<v, Max(S)>>] = LiveStep(v, events[Max(S)])
  <2>1. Max(S) \in 1..n
    <3>1. S \in SUBSET (0..n)
      OBVIOUS
    <3> QED
      BY <1>1, <1>6, <3>1, MaxExists
  <2> HIDE DEF F, T, n
  <2> QED
    BY <1>3, <2>1
<1>7. \E g : Is(g)
  <2> HIDE DEF n, T, F
  <2>1. PICK g \in [SUBSET (1..n) -> T] : FoldsUp(g, n, T, <<>>, F)
    BY <1>1, <1>4, <1>5, FoldExists
  <2>2. ASSUME NEW S \in SUBSET (1..n)
        PROVE  g[S] = IF S = {} THEN <<>> ELSE LiveStep(g[S \ {Max(S)}], events[Max(S)])
    BY <1>6, <2>1 DEF FoldsUp
  <2> QED
    BY <2>1, <2>2
<1> PICK loop : loop = CHOOSE g : Is(g)
  OBVIOUS
<1>8. Live(events) = loop[1..n]
  BY <1>1 DEF Live, LiveStep, FoldLeft, MapThenFoldSet
<1>9. FoldsUp(loop, n, T, <<>>, F)
  <2>1. Is(loop)
    BY <1>7
  <2> HIDE DEF n, T, F
  <2> QED
    BY <1>6, <2>1 DEF FoldsUp
<1> QED
  BY <1>4, <1>8, <1>9 DEF FoldsTo

(* _lifecycle takes one step for each event.                                 *)
LifecycleStep(kept, event) ==
  IF \/ event.type \notin LifecycleTypes
     \/ event.type = "message_update" /\ kept # <<>> /\ Last(kept) = event.type
  THEN kept ELSE Append(kept, event.type)
LifecycleSteps(events) ==
  [x \in Seq(Types) \X (1..Len(events)) |-> LifecycleStep(x[1], events[x[2]])]

(* It is the fold of these steps.                                            *)
LEMMA LifecycleFolds ==
  ASSUME NEW events \in Seq(Event)
  PROVE  /\ StepsStay(Len(events), Seq(Types), LifecycleSteps(events))
         /\ FoldsTo(Lifecycle(events), Len(events), Seq(Types), <<>>, LifecycleSteps(events))
<1> DEFINE n == Len(events)
           T == Seq(Types)
           F == LifecycleSteps(events)
           Is(g) == g = [S \in SUBSET (1..n) |->
                           IF S = {} THEN <<>> ELSE LifecycleStep(g[S \ {Max(S)}], events[Max(S)])]
<1>1. n \in Nat /\ DOMAIN events = 1..n /\ \A i \in 1..n : events[i] \in Event
  OBVIOUS
<1>2. \A v \in T, e \in Event : LifecycleStep(v, e) \in T
  BY DEF LifecycleStep, Event
<1>3. \A v \in T, i \in 1..n : F[<<v, i>>] = LifecycleStep(v, events[i]) /\ F[<<v, i>>] \in T
  <2>1. \A v \in T, i \in 1..n : LifecycleStep(v, events[i]) \in T
    BY <1>1, <1>2
  <2>2. \A v \in T, i \in 1..n : F[<<v, i>>] = LifecycleStep(v, events[i])
    BY DEF LifecycleSteps
  <2> HIDE DEF n, T, F
  <2> QED
    BY <2>1, <2>2
<1>4. StepsStay(n, T, F)
  <2> HIDE DEF n, T, F
  <2> QED
    BY <1>3 DEF StepsStay
<1>5. <<>> \in T
  OBVIOUS
<1>6. ASSUME NEW S \in SUBSET (1..n), S # {}, NEW v \in T
      PROVE  F[<<v, Max(S)>>] = LifecycleStep(v, events[Max(S)])
  <2>1. Max(S) \in 1..n
    <3>1. S \in SUBSET (0..n)
      OBVIOUS
    <3> QED
      BY <1>1, <1>6, <3>1, MaxExists
  <2> HIDE DEF F, T, n
  <2> QED
    BY <1>3, <2>1
<1>7. \E g : Is(g)
  <2> HIDE DEF n, T, F
  <2>1. PICK g \in [SUBSET (1..n) -> T] : FoldsUp(g, n, T, <<>>, F)
    BY <1>1, <1>4, <1>5, FoldExists
  <2>2. ASSUME NEW S \in SUBSET (1..n)
        PROVE  g[S] = IF S = {} THEN <<>> ELSE LifecycleStep(g[S \ {Max(S)}], events[Max(S)])
    BY <1>6, <2>1 DEF FoldsUp
  <2> QED
    BY <2>1, <2>2
<1> PICK loop : loop = CHOOSE g : Is(g)
  OBVIOUS
<1>8. Lifecycle(events) = loop[1..n]
  BY <1>1 DEF Lifecycle, LifecycleStep, FoldLeft, MapThenFoldSet
<1>9. FoldsUp(loop, n, T, <<>>, F)
  <2>1. Is(loop)
    BY <1>7
  <2> HIDE DEF n, T, F
  <2> QED
    BY <1>6, <2>1 DEF FoldsUp
<1> QED
  BY <1>4, <1>8, <1>9 DEF FoldsTo

(* What an event makes of the outcomes: a new one at the end, another result *)
(* of those that name its call, or nothing.                                  *)
Outcome == [call : Calls \cup {NoCall}, ended : Nat]

IsNew(outcomes, call) == \A i \in DOMAIN outcomes : outcomes[i].call # call

OutcomeEffect(before, event, sequence, after) ==
  \/ /\ event.type = "tool_execution_start" /\ IsNew(before, event.call)
     /\ after = Append(before, [call |-> event.call, ended |-> 0])
  \/ /\ event.type = "tool_execution_end" /\ IsNew(before, event.call)
     /\ after = Append(before, [call |-> event.call, ended |-> sequence])
  \/ /\ event.type = "tool_execution_end" /\ ~IsNew(before, event.call)
     /\ DOMAIN after = DOMAIN before
     /\ \A i \in DOMAIN before :
          /\ after[i].call = before[i].call
          /\ after[i].ended = IF before[i].call = event.call THEN sequence ELSE before[i].ended
  \/ /\ event.type = "tool_execution_start" => ~IsNew(before, event.call)
     /\ event.type # "tool_execution_end"
     /\ after = before

LEMMA OutcomesDo ==
  ASSUME NEW before \in Seq(Outcome), NEW event \in Event, NEW sequence \in Nat
  PROVE  /\ OutcomesAfter(before, event, sequence) \in Seq(Outcome)
         /\ OutcomeEffect(before, event, sequence, OutcomesAfter(before, event, sequence))
<1> DEFINE at == {i \in DOMAIN before : before[i].call = event.call}
           after == OutcomesAfter(before, event, sequence)
<1>1. event.call \in Calls \cup {NoCall} /\ DOMAIN before = 1..Len(before) /\ Len(before) \in Nat
  BY DEF Event
<1>2. at = {} <=> IsNew(before, event.call)
  BY DEF IsNew
<1>3. CASE event.type = "tool_execution_start" /\ at = {}
  <2> PICK new \in Outcome : new = [call |-> event.call, ended |-> 0]
    BY <1>1 DEF Outcome
  <2>1. after = Append(before, new)
    BY <1>3 DEF OutcomesAfter
  <2>2. after \in Seq(Outcome)
    BY <2>1
  <2> QED
    BY <1>2, <1>3, <2>1, <2>2 DEF OutcomeEffect
<1>4. CASE event.type = "tool_execution_end" /\ at = {}
  <2> PICK new \in Outcome : new = [call |-> event.call, ended |-> sequence]
    BY <1>1 DEF Outcome
  <2>1. after = Append(before, new)
    BY <1>4 DEF OutcomesAfter
  <2>2. after \in Seq(Outcome)
    BY <2>1
  <2> QED
    BY <1>2, <1>4, <2>1, <2>2 DEF OutcomeEffect
<1>5. CASE event.type = "tool_execution_end" /\ at # {}
  <2> DEFINE changed == [i \in DOMAIN before |->
               IF i \in at THEN [before[i] EXCEPT !.ended = sequence] ELSE before[i]]
  <2>1. after = changed
    BY <1>5 DEF OutcomesAfter
  <2>2. ASSUME NEW i \in DOMAIN before
        PROVE  /\ changed[i] \in Outcome /\ changed[i].call = before[i].call
               /\ changed[i].ended = IF before[i].call = event.call THEN sequence ELSE before[i].ended
    <3> PICK old \in Outcome : old = before[i]
      BY <1>1
    <3>1. changed[i] = IF i \in at THEN [old EXCEPT !.ended = sequence] ELSE old
      OBVIOUS
    <3>2. i \in at <=> old.call = event.call
      OBVIOUS
    <3> HIDE DEF changed, at
    <3> QED
      BY <3>1, <3>2 DEF Outcome
  <2>3. changed \in [1..Len(before) -> Outcome]
    BY <1>1, <2>2
  <2> HIDE DEF changed, at
  <2>4. after \in Seq(Outcome) /\ DOMAIN after = DOMAIN before
    BY <1>1, <2>1, <2>3
  <2> QED
    BY <1>2, <1>5, <2>1, <2>2, <2>4 DEF OutcomeEffect
<1>6. CASE /\ event.type # "tool_execution_end"
           /\ ~(event.type = "tool_execution_start" /\ at = {})
  <2>1. after = before
    BY <1>6 DEF OutcomesAfter
  <2> QED
    BY <1>2, <1>6, <2>1 DEF OutcomeEffect
<1> QED
  BY <1>3, <1>4, <1>5, <1>6

(* _tool_outcomes takes one step for each event and its sequence number.     *)
OutcomeSteps(events) ==
  [x \in Seq(Outcome) \X (1..Len(events)) |-> OutcomesAfter(x[1], events[x[2]], x[2])]

(* It is the fold of these steps.                                            *)
LEMMA OutcomesFold ==
  ASSUME NEW events \in Seq(Event)
  PROVE  /\ StepsStay(Len(events), Seq(Outcome), OutcomeSteps(events))
         /\ FoldsTo(ToolOutcomes(events), Len(events), Seq(Outcome), <<>>, OutcomeSteps(events))
<1> DEFINE n == Len(events)
           T == Seq(Outcome)
           F == OutcomeSteps(events)
           at == [i \in DOMAIN events |-> i]
           Is(g) == g = [S \in SUBSET (1..n) |->
                           IF S = {} THEN <<>>
                           ELSE OutcomesAfter(g[S \ {Max(S)}], events[at[Max(S)]], at[Max(S)])]
<1>1. n \in Nat /\ DOMAIN events = 1..n /\ \A i \in 1..n : events[i] \in Event
  OBVIOUS
<1>2. \A v \in T, e \in Event, i \in Nat : OutcomesAfter(v, e, i) \in T
  BY OutcomesDo
<1>3. \A v \in T, i \in 1..n : F[<<v, i>>] = OutcomesAfter(v, events[i], i) /\ F[<<v, i>>] \in T
  <2>1. \A v \in T, i \in 1..n : OutcomesAfter(v, events[i], i) \in T
    BY <1>1, <1>2
  <2>2. \A v \in T, i \in 1..n : F[<<v, i>>] = OutcomesAfter(v, events[i], i)
    BY DEF OutcomeSteps
  <2> HIDE DEF n, T, F
  <2> QED
    BY <2>1, <2>2
<1>4. StepsStay(n, T, F)
  <2> HIDE DEF n, T, F
  <2> QED
    BY <1>3 DEF StepsStay
<1>5. <<>> \in T
  OBVIOUS
<1>6. ASSUME NEW S \in SUBSET (1..n), S # {}, NEW v \in T
      PROVE  F[<<v, Max(S)>>] = OutcomesAfter(v, events[at[Max(S)]], at[Max(S)])
  <2>1. Max(S) \in 1..n
    <3>1. S \in SUBSET (0..n)
      OBVIOUS
    <3> QED
      BY <1>1, <1>6, <3>1, MaxExists
  <2>2. at[Max(S)] = Max(S)
    BY <1>1, <2>1
  <2> HIDE DEF F, T, n, at
  <2> QED
    BY <1>3, <2>1, <2>2
<1>7. \E g : Is(g)
  <2> HIDE DEF n, T, F, at
  <2>1. PICK g \in [SUBSET (1..n) -> T] : FoldsUp(g, n, T, <<>>, F)
    BY <1>1, <1>4, <1>5, FoldExists
  <2>2. ASSUME NEW S \in SUBSET (1..n)
        PROVE  g[S] = IF S = {} THEN <<>>
                       ELSE OutcomesAfter(g[S \ {Max(S)}], events[at[Max(S)]], at[Max(S)])
    BY <1>6, <2>1 DEF FoldsUp
  <2> QED
    BY <2>1, <2>2
<1> PICK loop : loop = CHOOSE g : Is(g)
  OBVIOUS
<1>8. ToolOutcomes(events) = loop[1..n]
  BY <1>1 DEF ToolOutcomes, FoldLeftDomain, FoldLeft, MapThenFoldSet
<1>9. FoldsUp(loop, n, T, <<>>, F)
  <2>1. Is(loop)
    BY <1>7
  <2> HIDE DEF n, T, F, at
  <2> QED
    BY <1>6, <2>1 DEF FoldsUp
<1> QED
  BY <1>4, <1>8, <1>9 DEF FoldsTo

-----------------------------------------------------------------------------
(* What each of them makes of a timeline that is one event longer.           *)
StepwiseFor(events, event) ==
  /\ Live(Append(events, event)) = LiveStep(Live(events), event)
  /\ Lifecycle(Append(events, event)) = LifecycleStep(Lifecycle(events), event)
  /\ ToolOutcomes(Append(events, event)) =
       OutcomesAfter(ToolOutcomes(events), event, Len(events) + 1)

(* All of them start from nothing and take one step for the last event.      *)
LEMMA OneEventMore ==
  /\ Live(<<>>) = <<>> /\ Lifecycle(<<>>) = <<>> /\ ToolOutcomes(<<>>) = <<>>
  /\ \A events \in Seq(Event) :
       /\ Live(events) \in Seq(Event)
       /\ Lifecycle(events) \in Seq(Types)
       /\ ToolOutcomes(events) \in Seq(Outcome)
       /\ \A event \in Event : StepwiseFor(events, event)
<1>1. Live(<<>>) = <<>> /\ Lifecycle(<<>>) = <<>> /\ ToolOutcomes(<<>>) = <<>>
  <2> PICK none : none = <<>>
    OBVIOUS
  <2>1. /\ <<>> \in Seq(Event) /\ <<>> \in Seq(Types) /\ <<>> \in Seq(Outcome)
        /\ none \in Seq(Event) /\ Len(none) = 0
    OBVIOUS
  <2>2. FoldsTo(Live(none), 0, Seq(Event), <<>>, LiveSteps(none))
    BY <2>1, LiveFolds
  <2>3. FoldsTo(Lifecycle(none), 0, Seq(Types), <<>>, LifecycleSteps(none))
    BY <2>1, LifecycleFolds
  <2>4. FoldsTo(ToolOutcomes(none), 0, Seq(Outcome), <<>>, OutcomeSteps(none))
    BY <2>1, OutcomesFold
  <2> QED
    BY <2>1, <2>2, <2>3, <2>4, FoldOfNone
<1>2. ASSUME NEW events \in Seq(Event), NEW event \in Event
      PROVE  /\ Live(events) \in Seq(Event)
             /\ Lifecycle(events) \in Seq(Types)
             /\ ToolOutcomes(events) \in Seq(Outcome)
             /\ StepwiseFor(events, event)
  <2>5. PICK n \in Nat : n = Len(events)
    OBVIOUS
  <2>6. PICK longer : longer = Append(events, event)
    OBVIOUS
  <2>0. longer \in Seq(Event)
    BY <2>6
  <2>1. /\ Len(longer) = n + 1 /\ longer[n + 1] = event /\ n + 1 \in 1..(n + 1)
        /\ \A i \in 1..n : longer[i] = events[i] /\ i \in 1..(n + 1)
        /\ <<>> \in Seq(Event) /\ <<>> \in Seq(Types) /\ <<>> \in Seq(Outcome)
    BY <2>5, <2>6
  <2>2. Live(events) \in Seq(Event) /\ Live(longer) = LiveStep(Live(events), event)
    <3>1. /\ StepsStay(n, Seq(Event), LiveSteps(events))
          /\ FoldsTo(Live(events), n, Seq(Event), <<>>, LiveSteps(events))
      BY <2>5, LiveFolds
    <3>2. /\ StepsStay(n + 1, Seq(Event), LiveSteps(longer))
          /\ FoldsTo(Live(longer), n + 1, Seq(Event), <<>>, LiveSteps(longer))
      BY <2>0, <2>1, LiveFolds
    <3>3. SameSteps(n, Seq(Event), LiveSteps(events), LiveSteps(longer))
      BY <2>1, <2>5 DEF SameSteps, LiveSteps
    <3>4. /\ Live(events) \in Seq(Event)
          /\ Live(longer) = LiveSteps(longer)[<<Live(events), n + 1>>]
      <4>1. PICK F, G, x, y, T, m :
              /\ m = n + 1 /\ T = Seq(Event)
              /\ F = LiveSteps(events) /\ G = LiveSteps(longer)
              /\ x = Live(events) /\ y = Live(longer)
        OBVIOUS
      <4>2. OneLonger(n, m, T, <<>>, F, x, G, y)
        BY <2>1, <3>1, <3>2, <3>3, <4>1 DEF OneLonger
      <4>3. x \in T /\ y = G[<<x, m>>]
        BY <4>2, FoldAppends
      <4> QED
        BY <4>1, <4>3
    <3> QED
      BY <2>1, <3>4 DEF LiveSteps
  <2>3. Lifecycle(events) \in Seq(Types) /\ Lifecycle(longer) = LifecycleStep(Lifecycle(events), event)
    <3>1. /\ StepsStay(n, Seq(Types), LifecycleSteps(events))
          /\ FoldsTo(Lifecycle(events), n, Seq(Types), <<>>, LifecycleSteps(events))
      BY <2>5, LifecycleFolds
    <3>2. /\ StepsStay(n + 1, Seq(Types), LifecycleSteps(longer))
          /\ FoldsTo(Lifecycle(longer), n + 1, Seq(Types), <<>>, LifecycleSteps(longer))
      BY <2>0, <2>1, LifecycleFolds
    <3>3. SameSteps(n, Seq(Types), LifecycleSteps(events), LifecycleSteps(longer))
      BY <2>1, <2>5 DEF SameSteps, LifecycleSteps
    <3>4. /\ Lifecycle(events) \in Seq(Types)
          /\ Lifecycle(longer) = LifecycleSteps(longer)[<<Lifecycle(events), n + 1>>]
      <4>1. PICK F, G, x, y, T, m :
              /\ m = n + 1 /\ T = Seq(Types)
              /\ F = LifecycleSteps(events) /\ G = LifecycleSteps(longer)
              /\ x = Lifecycle(events) /\ y = Lifecycle(longer)
        OBVIOUS
      <4>2. OneLonger(n, m, T, <<>>, F, x, G, y)
        BY <2>1, <3>1, <3>2, <3>3, <4>1 DEF OneLonger
      <4>3. x \in T /\ y = G[<<x, m>>]
        BY <4>2, FoldAppends
      <4> QED
        BY <4>1, <4>3
    <3> QED
      BY <2>1, <3>4 DEF LifecycleSteps
  <2>4. /\ ToolOutcomes(events) \in Seq(Outcome)
        /\ ToolOutcomes(longer) = OutcomesAfter(ToolOutcomes(events), event, n + 1)
    <3>1. /\ StepsStay(n, Seq(Outcome), OutcomeSteps(events))
          /\ FoldsTo(ToolOutcomes(events), n, Seq(Outcome), <<>>, OutcomeSteps(events))
      BY <2>5, OutcomesFold
    <3>2. /\ StepsStay(n + 1, Seq(Outcome), OutcomeSteps(longer))
          /\ FoldsTo(ToolOutcomes(longer), n + 1, Seq(Outcome), <<>>, OutcomeSteps(longer))
      BY <2>0, <2>1, OutcomesFold
    <3>3. SameSteps(n, Seq(Outcome), OutcomeSteps(events), OutcomeSteps(longer))
      BY <2>1, <2>5 DEF SameSteps, OutcomeSteps
    <3>4. /\ ToolOutcomes(events) \in Seq(Outcome)
          /\ ToolOutcomes(longer) = OutcomeSteps(longer)[<<ToolOutcomes(events), n + 1>>]
      <4>1. PICK F, G, x, y, T, m :
              /\ m = n + 1 /\ T = Seq(Outcome)
              /\ F = OutcomeSteps(events) /\ G = OutcomeSteps(longer)
              /\ x = ToolOutcomes(events) /\ y = ToolOutcomes(longer)
        OBVIOUS
      <4>2. OneLonger(n, m, T, <<>>, F, x, G, y)
        BY <2>1, <3>1, <3>2, <3>3, <4>1 DEF OneLonger
      <4>3. x \in T /\ y = G[<<x, m>>]
        BY <4>2, FoldAppends
      <4> QED
        BY <4>1, <4>3
    <3> QED
      BY <2>1, <3>4 DEF OutcomeSteps
  <2> QED
    BY <2>2, <2>3, <2>4, <2>5, <2>6 DEF StepwiseFor
<1> QED
  <2>1. \E event : event \in Event
    <3>1. [type |-> "message", call |-> NoCall, status |-> "completed", key |-> 0] \in Event
      BY TracingAssumption DEF Event, Types, Outcomes, RunStatuses
    <3> QED
      BY <3>1
  <2> QED
    BY <1>1, <1>2, <2>1

(* The events of a timeline: a stored entry is a message, and the tools'     *)
(* events, and only they, name a call.                                       *)
WellMade(event) ==
  /\ event.key # 0 => event.type = "message"
  /\ IF event.type \in ToolTypes THEN event.call \in Calls ELSE event.call = NoCall
Timeline == {event \in Event : WellMade(event)}

(* Two lists of outcomes of the same calls, ended or not alike.              *)
Alike(a, b) ==
  /\ DOMAIN a = DOMAIN b
  /\ \A i \in DOMAIN a : a[i].call = b[i].call /\ (a[i].ended = 0 <=> b[i].ended = 0)

(* Two intervals from 1 that are the same end alike.                         *)
LEMMA SameIntervals ==
  ASSUME NEW p \in Nat, NEW q \in Nat, 1..p = 1..q PROVE p = q
<1>1. p # 0 => p \in 1..q
  <2>1. p # 0 => p \in 1..p
    OBVIOUS
  <2> QED
    BY <2>1
<1>2. q # 0 => q \in 1..p
  <2>1. q # 0 => q \in 1..q
    OBVIOUS
  <2> QED
    BY <2>1
<1> QED
  BY <1>1, <1>2

(* They stay so after the same event, whatever its sequence numbers.         *)
LEMMA AlikeAfter ==
  ASSUME NEW a \in Seq(Outcome), NEW b \in Seq(Outcome), Alike(a, b), NEW event \in Event,
         NEW i \in Nat, i # 0, NEW j \in Nat, j # 0
  PROVE  Alike(OutcomesAfter(a, event, i), OutcomesAfter(b, event, j))
<1> PICK x \in Seq(Outcome) : /\ x = OutcomesAfter(a, event, i)
                              /\ OutcomeEffect(a, event, i, x)
  BY OutcomesDo
<1> PICK y \in Seq(Outcome) : /\ y = OutcomesAfter(b, event, j)
                              /\ OutcomeEffect(b, event, j, y)
  BY OutcomesDo
<1> SUFFICES Alike(x, y)
  OBVIOUS
<1>1. IsNew(a, event.call) <=> IsNew(b, event.call)
  BY DEF IsNew, Alike
<1>2. ASSUME NEW u, NEW v, x = Append(a, u), y = Append(b, v), u.call = v.call,
             u.ended = 0 <=> v.ended = 0
      PROVE  Alike(x, y)
  <2>1. /\ DOMAIN a = 1..Len(a) /\ DOMAIN b = 1..Len(b) /\ Len(a) \in Nat /\ Len(b) \in Nat
    OBVIOUS
  <2>2. Len(a) = Len(b)
    <3> PICK p, q : p = Len(a) /\ q = Len(b)
      OBVIOUS
    <3>1. p \in Nat /\ q \in Nat /\ 1..p = 1..q
      BY <2>1 DEF Alike
    <3>2. p = q
      BY <3>1, SameIntervals
    <3> QED
      BY <3>2
  <2>3. /\ DOMAIN x = 1..(Len(a) + 1) /\ DOMAIN y = 1..(Len(a) + 1)
        /\ x[Len(a) + 1] = u /\ y[Len(a) + 1] = v
        /\ \A k \in 1..Len(a) : x[k] = a[k] /\ y[k] = b[k]
    BY <1>2, <2>1, <2>2
  <2>4. \A k \in 1..(Len(a) + 1) : k \in 1..Len(a) \/ k = Len(a) + 1
    BY <2>1
  <2> QED
    BY <1>2, <2>1, <2>3, <2>4 DEF Alike
<1>3. CASE event.type = "tool_execution_start" /\ IsNew(a, event.call)
  <2>1. /\ x = Append(a, [call |-> event.call, ended |-> 0])
        /\ y = Append(b, [call |-> event.call, ended |-> 0])
    BY <1>1, <1>3 DEF OutcomeEffect
  <2> QED
    BY <1>2, <2>1
<1>4. CASE event.type = "tool_execution_end" /\ IsNew(a, event.call)
  <2>1. /\ x = Append(a, [call |-> event.call, ended |-> i])
        /\ y = Append(b, [call |-> event.call, ended |-> j])
    BY <1>1, <1>4 DEF OutcomeEffect
  <2> QED
    BY <1>2, <2>1
<1>5. CASE event.type = "tool_execution_end" /\ ~IsNew(a, event.call)
  <2>1. /\ DOMAIN x = DOMAIN a /\ DOMAIN y = DOMAIN b
        /\ \A k \in DOMAIN a :
             /\ x[k].call = a[k].call
             /\ x[k].ended = IF a[k].call = event.call THEN i ELSE a[k].ended
        /\ \A k \in DOMAIN b :
             /\ y[k].call = b[k].call
             /\ y[k].ended = IF b[k].call = event.call THEN j ELSE b[k].ended
    BY <1>1, <1>5 DEF OutcomeEffect
  <2>2. ASSUME NEW k \in DOMAIN a
        PROVE  x[k].call = y[k].call /\ (x[k].ended = 0 <=> y[k].ended = 0)
    <3>1. k \in DOMAIN b /\ a[k].call = b[k].call /\ (a[k].ended = 0 <=> b[k].ended = 0)
      BY DEF Alike
    <3>2. CASE a[k].call = event.call
      BY <2>1, <3>1, <3>2
    <3>3. CASE a[k].call # event.call
      BY <2>1, <3>1, <3>3
    <3> QED
      BY <3>2, <3>3
  <2>3. DOMAIN x = DOMAIN a /\ DOMAIN y = DOMAIN a
    BY <2>1 DEF Alike
  <2> QED
    BY <2>2, <2>3 DEF Alike
<1>6. CASE /\ event.type # "tool_execution_end"
           /\ ~(event.type = "tool_execution_start" /\ IsNew(a, event.call))
  <2>1. x = a /\ y = b
    BY <1>1, <1>6 DEF OutcomeEffect
  <2> QED
    BY <2>1
<1> QED
  BY <1>3, <1>4, <1>5, <1>6

(* Without its entries a timeline has the same lifecycle, like outcomes, and *)
(* text if it had any.                                                       *)
HasText(events) == \E i \in DOMAIN events : events[i].type = "message_update"
SameWithout(events) ==
  /\ Lifecycle(Live(events)) = Lifecycle(events)
  /\ Alike(ToolOutcomes(Live(events)), ToolOutcomes(events))
  /\ HasText(Live(events)) <=> HasText(events)

(* Every timeline is the same without them.                                  *)
LEMMA EntriesDoNotMatter == \A events \in Seq(Timeline) : SameWithout(events)
<1> DEFINE S == {events \in Seq(Timeline) : SameWithout(events)}
<1>1. Seq(Timeline) \subseteq Seq(Event) /\ Timeline \subseteq Event
  BY DEF Timeline
<1>2. <<>> \in S
  <2>1. SameWithout(<<>>)
    BY OneEventMore DEF SameWithout, Alike
  <2> QED
    BY <2>1
<1>3. ASSUME NEW events \in Seq(Timeline), NEW event \in Timeline, SameWithout(events)
      PROVE  SameWithout(Append(events, event))
  <2> PICK live \in Seq(Event) : live = Live(events)
    BY <1>1, OneEventMore
  <2>1. event \in Event /\ WellMade(event) /\ events \in Seq(Event)
    BY <1>1 DEF Timeline
  <2> PICK longer : longer = Append(events, event)
    OBVIOUS
  <2>0. longer \in Seq(Event)
    BY <2>1
  <2>2. StepwiseFor(events, event) /\ StepwiseFor(live, event)
    BY <2>1, OneEventMore
  <2>3. HasText(longer) <=> HasText(events) \/ event.type = "message_update"
    <3>1. /\ DOMAIN events = 1..Len(events) /\ Len(events) \in Nat
          /\ DOMAIN longer = 1..(Len(events) + 1) /\ longer[Len(events) + 1] = event
          /\ \A i \in 1..Len(events) : longer[i] = events[i]
      BY <2>1
    <3>2. \A i \in 1..(Len(events) + 1) : i \in 1..Len(events) \/ i = Len(events) + 1
      BY <3>1
    <3>3. \A i \in 1..Len(events) : i \in 1..(Len(events) + 1)
      BY <3>1
    <3>4. Len(events) + 1 \in 1..(Len(events) + 1)
      BY <3>1
    <3> QED
      BY <3>1, <3>2, <3>3, <3>4 DEF HasText
  <2>4. CASE event.key = 0
    <3> PICK after : after = Append(live, event)
      OBVIOUS
    <3>1. Live(longer) = after
      BY <2>2, <2>4 DEF StepwiseFor, LiveStep
    <3>2. Lifecycle(after) = Lifecycle(longer)
      BY <1>3, <2>2 DEF SameWithout, StepwiseFor
    <3>3. Alike(ToolOutcomes(after), ToolOutcomes(longer))
      <4> PICK a \in Seq(Outcome) : a = ToolOutcomes(live)
        BY OneEventMore
      <4> PICK b \in Seq(Outcome) : b = ToolOutcomes(events)
        BY <2>1, OneEventMore
      <4> PICK n \in Nat : n = Len(live) + 1
        OBVIOUS
      <4> PICK m \in Nat : m = Len(events) + 1
        BY <2>1
      <4>1. n # 0 /\ m # 0
        BY <2>1
      <4>2. Alike(a, b)
        BY <1>3 DEF SameWithout
      <4>3. Alike(OutcomesAfter(a, event, n), OutcomesAfter(b, event, m))
        BY <2>1, <4>1, <4>2, AlikeAfter
      <4> QED
        BY <2>2, <4>3 DEF StepwiseFor
    <3>4. HasText(after) <=> HasText(live) \/ event.type = "message_update"
      <4>1. /\ DOMAIN live = 1..Len(live) /\ Len(live) \in Nat
            /\ DOMAIN after = 1..(Len(live) + 1) /\ after[Len(live) + 1] = event
            /\ \A i \in 1..Len(live) : after[i] = live[i]
        BY <2>1
      <4>2. \A i \in 1..(Len(live) + 1) : i \in 1..Len(live) \/ i = Len(live) + 1
        BY <4>1
      <4>3. \A i \in 1..Len(live) : i \in 1..(Len(live) + 1)
        BY <4>1
      <4>4. Len(live) + 1 \in 1..(Len(live) + 1)
        BY <4>1
      <4> QED
        BY <4>1, <4>2, <4>3, <4>4 DEF HasText
    <3> QED
      BY <1>3, <2>3, <3>1, <3>2, <3>3, <3>4 DEF SameWithout
  <2>5. CASE event.key # 0
    <3>1. event.type = "message"
      BY <2>1, <2>5 DEF WellMade
    <3>2. Live(longer) = live
      BY <2>2, <2>5 DEF StepwiseFor, LiveStep
    <3>3. Lifecycle(longer) = Lifecycle(events)
      BY <2>2, <3>1 DEF StepwiseFor, LifecycleStep, LifecycleTypes
    <3>4. ToolOutcomes(longer) = ToolOutcomes(events)
      BY <2>2, <3>1 DEF StepwiseFor, OutcomesAfter
    <3> QED
      BY <1>3, <2>3, <3>1, <3>2, <3>3, <3>4 DEF SameWithout
  <2> QED
    BY <2>4, <2>5
<1>4. \A events \in Seq(Timeline), event \in Timeline :
        events \in S => Append(events, event) \in S
  BY <1>3
<1> HIDE DEF S
<1>5. Seq(Timeline) \subseteq S
  BY <1>2, <1>4, EverySequence
<1> QED
  BY <1>5 DEF S

-----------------------------------------------------------------------------
(* Where a call is named in a timeline, and where it ends.                   *)
Sightings(events, call) == {i \in DOMAIN events : events[i].call = call}
EndsIn(events, call) ==
  {i \in DOMAIN events :
     events[i].type = "tool_execution_end" /\ events[i].call = call}

(* An event more is one more of them, if it is of that call.                 *)
Grows(events, event, longer, call) ==
  /\ Sightings(events, call) \subseteq 1..Len(events)
  /\ EndsIn(events, call) \subseteq Sightings(events, call)
  /\ Sightings(longer, call) =
       IF event.call = call THEN Sightings(events, call) \cup {Len(events) + 1}
       ELSE Sightings(events, call)
  /\ EndsIn(longer, call) =
       IF event.type = "tool_execution_end" /\ event.call = call
       THEN EndsIn(events, call) \cup {Len(events) + 1} ELSE EndsIn(events, call)

(* So it does to every timeline.                                             *)
LEMMA TimelineGrows ==
  ASSUME NEW events \in Seq(Event), NEW event \in Event, NEW longer, NEW call,
         longer = Append(events, event)
  PROVE  Grows(events, event, longer, call)
<1>1. PICK n : n = Len(events)
  OBVIOUS
<1>2. /\ n \in Nat /\ DOMAIN events = 1..n /\ DOMAIN longer = 1..(n + 1)
      /\ longer[n + 1] = event /\ \A i \in 1..n : longer[i] = events[i]
  BY <1>1
<1>3. /\ \A i \in DOMAIN longer : i \in DOMAIN events \/ i = n + 1
      /\ \A i \in DOMAIN events : i \in DOMAIN longer
      /\ n + 1 \in DOMAIN longer
  BY <1>2
<1> QED
  BY <1>1, <1>2, <1>3 DEF Grows, Sightings, EndsIn

(* The outcomes of a timeline: each is of a call named in it, with the last  *)
(* end of that call; every call named has one; and they stand in the order   *)
(* in which the calls were first named.                                      *)
Told(events, outcome) ==
  /\ outcome.call \in Calls
  /\ Sightings(events, outcome.call) # {}
  /\ outcome.ended = LastOf(EndsIn(events, outcome.call))
AllTold(events, outcomes) == \A i \in DOMAIN outcomes : Told(events, outcomes[i])
NoneMissing(events, outcomes) ==
  \A c \in Calls : Sightings(events, c) # {} => ~IsNew(outcomes, c)
InFirstOrder(events, outcomes) ==
  \A i, j \in DOMAIN outcomes :
    i < j => Min(Sightings(events, outcomes[i].call)) < Min(Sightings(events, outcomes[j].call))
OutcomesTell(events, outcomes) ==
  AllTold(events, outcomes) /\ NoneMissing(events, outcomes) /\ InFirstOrder(events, outcomes)

(* What an event more changes of what is told of a call.                     *)
TellsMore(events, event, longer, call) ==
  /\ Sightings(events, call) # {} =>
       /\ Sightings(longer, call) # {}
       /\ Min(Sightings(longer, call)) = Min(Sightings(events, call))
       /\ Min(Sightings(events, call)) < Len(events) + 1
       /\ Min(Sightings(events, call)) \in Nat
  /\ event.call = call => Sightings(longer, call) # {}
  /\ Sightings(events, call) = {} /\ event.call = call =>
       Min(Sightings(longer, call)) = Len(events) + 1
  /\ Sightings(events, call) = {} => LastOf(EndsIn(events, call)) = 0
  /\ event.call # call => Sightings(longer, call) = Sightings(events, call)
  /\ LastOf(EndsIn(longer, call)) =
       IF event.type = "tool_execution_end" /\ event.call = call
       THEN Len(events) + 1 ELSE LastOf(EndsIn(events, call))

(* It is so for each call.                                                   *)
LEMMA MoreIsTold ==
  ASSUME NEW events \in Seq(Event), NEW event \in Event, NEW longer, NEW call,
         longer = Append(events, event)
  PROVE  TellsMore(events, event, longer, call)
<1>1. PICK n, S, E, S2, E2 :
         /\ n = Len(events) /\ S = Sightings(events, call) /\ E = EndsIn(events, call)
         /\ S2 = Sightings(longer, call) /\ E2 = EndsIn(longer, call)
  OBVIOUS
<1>2. /\ n \in Nat /\ S \subseteq 1..n /\ E \subseteq S /\ E \subseteq 1..n
      /\ S2 = IF event.call = call THEN S \cup {n + 1} ELSE S
      /\ E2 = IF event.type = "tool_execution_end" /\ event.call = call THEN E \cup {n + 1} ELSE E
  <2>1. n \in Nat
    BY <1>1
  <2>2. Grows(events, event, longer, call)
    BY TimelineGrows
  <2> QED
    BY <1>1, <2>1, <2>2 DEF Grows
<1>3. /\ Min({n + 1}) = n + 1
      /\ S # {} => Min(S) \in 1..n /\ Min(S) < n + 1 /\ Min(S \cup {n + 1}) = Min(S)
  BY <1>2, FirstStays
<1>4. LastOf(E \cup {n + 1}) = n + 1
  BY <1>2, LastIsNewest
<1>5. S = {} => LastOf(E) = 0
  <2>1. S = {} => E = {}
    BY <1>2
  <2> QED
    BY <2>1, LastOfNone
<1>6. /\ S # {} => S2 # {} /\ Min(S2) = Min(S) /\ Min(S) < n + 1 /\ Min(S) \in Nat
      /\ event.call = call => S2 # {}
      /\ event.call # call => S2 = S
  BY <1>2, <1>3
<1>7. S = {} /\ event.call = call => Min(S2) = n + 1
  <2>1. S = {} /\ event.call = call => S2 = {n + 1}
    BY <1>2
  <2> QED
    BY <1>3, <2>1
<1>8. LastOf(E2) = IF event.type = "tool_execution_end" /\ event.call = call
                   THEN n + 1 ELSE LastOf(E)
  BY <1>2, <1>4
<1> QED
  BY <1>1, <1>5, <1>6, <1>7, <1>8 DEF TellsMore

(* They are told of again after each event.                                  *)
LEMMA TellingGoesOn ==
  ASSUME NEW events \in Seq(Event), NEW event \in Event, WellMade(event),
         NEW longer, longer = Append(events, event),
         NEW n \in Nat, n = Len(events) + 1,
         NEW before \in Seq(Outcome), OutcomesTell(events, before),
         NEW after \in Seq(Outcome), OutcomeEffect(before, event, n, after)
  PROVE  OutcomesTell(longer, after)
<1> DEFINE first == [c \in Calls |-> Min(Sightings(events, c))]
           first2 == [c \in Calls |-> Min(Sightings(longer, c))]
           seen == {c \in Calls : Sightings(events, c) # {}}
           seen2 == {c \in Calls : Sightings(longer, c) # {}}
           end == [c \in Calls |-> LastOf(EndsIn(events, c))]
           end2 == [c \in Calls |-> LastOf(EndsIn(longer, c))]
<1>1. /\ \A c \in seen : c \in seen2 /\ first2[c] = first[c] /\ first[c] < n /\ first[c] \in Nat
      /\ \A c \in Calls : event.call = c => c \in seen2
      /\ \A c \in Calls \ seen : event.call = c => first2[c] = n
      /\ \A c \in Calls \ seen : end[c] = 0
      /\ \A c \in seen2 : c \in seen \/ c = event.call
      /\ \A c \in Calls : end2[c] = IF event.type = "tool_execution_end" /\ event.call = c
                                    THEN n ELSE end[c]
  <2>1. \A c \in Calls : TellsMore(events, event, longer, c)
    BY MoreIsTold
  <2> QED
    BY <2>1 DEF TellsMore
<1>2. /\ \A i \in DOMAIN before : before[i].call \in seen /\ before[i].ended = end[before[i].call]
      /\ \A c \in seen : ~IsNew(before, c)
      /\ \A i, j \in DOMAIN before : i < j => first[before[i].call] < first[before[j].call]
  BY DEF OutcomesTell, AllTold, Told, NoneMissing, InFirstOrder
<1>3. /\ seen \subseteq Calls /\ seen2 \subseteq Calls
      /\ event.type \in ToolTypes => event.call \in Calls
      /\ event.type \notin ToolTypes => event.call \notin Calls
  BY TracingAssumption DEF WellMade
<1>4. SUFFICES /\ \A i \in DOMAIN after : after[i].call \in seen2 /\ after[i].ended = end2[after[i].call]
               /\ \A c \in seen2 : ~IsNew(after, c)
               /\ \A i, j \in DOMAIN after : i < j => first2[after[i].call] < first2[after[j].call]
  BY DEF OutcomesTell, AllTold, Told, NoneMissing, InFirstOrder
<1> HIDE DEF first, first2, seen, seen2, end, end2
<1>5. ASSUME NEW ended, IsNew(before, event.call), event.type \in ToolTypes,
             after = Append(before, [call |-> event.call, ended |-> ended]),
             ended = IF event.type = "tool_execution_end" THEN n ELSE 0
      PROVE  /\ \A i \in DOMAIN after : after[i].call \in seen2 /\ after[i].ended = end2[after[i].call]
             /\ \A c \in seen2 : ~IsNew(after, c)
             /\ \A i, j \in DOMAIN after : i < j => first2[after[i].call] < first2[after[j].call]
  <2>1. PICK m \in Nat : m = Len(before)
    OBVIOUS
  <2>2. /\ DOMAIN before = 1..m /\ DOMAIN after = 1..(m + 1)
        /\ after[m + 1].call = event.call /\ after[m + 1].ended = ended
        /\ \A i \in 1..m : after[i] = before[i] /\ i \in 1..(m + 1)
        /\ m + 1 \in 1..(m + 1) /\ \A i \in 1..(m + 1) : i \in 1..m \/ i = m + 1
    BY <1>5, <2>1
  <2>3. event.call \in Calls \ seen /\ event.call \in seen2 /\ first2[event.call] = n
    BY <1>1, <1>2, <1>3, <1>5
  <2>4. end2[event.call] = ended
    BY <1>1, <1>5, <2>3
  <2>5. \A i \in 1..m : /\ before[i].call \in seen /\ before[i].call # event.call
                        /\ before[i].call \in seen2
                        /\ first2[before[i].call] = first[before[i].call]
                        /\ first2[before[i].call] < n
                        /\ end2[before[i].call] = end[before[i].call]
    BY <1>1, <1>2, <1>3, <2>2, <2>3
  <2>6. \A i \in DOMAIN after : after[i].call \in seen2 /\ after[i].ended = end2[after[i].call]
    BY <1>2, <2>2, <2>3, <2>4, <2>5
  <2>7. \A c \in seen2 : ~IsNew(after, c)
    BY <1>1, <1>2, <2>2 DEF IsNew
  <2>8. \A i, j \in DOMAIN after : i < j => first2[after[i].call] < first2[after[j].call]
    <3>1. ASSUME NEW i \in 1..m, NEW j \in 1..m, i < j
          PROVE  first2[after[i].call] < first2[after[j].call]
      <4>1. first[before[i].call] < first[before[j].call]
        BY <1>2, <2>2, <3>1
      <4> QED
        BY <2>2, <2>5, <4>1
    <3>2. \A i \in 1..m : first2[after[i].call] < first2[after[m + 1].call]
      BY <2>2, <2>3, <2>5
    <3>3. \A j \in 1..(m + 1) : ~(m + 1 < j)
      OBVIOUS
    <3> QED
      BY <2>2, <3>1, <3>2, <3>3
  <2> QED
    BY <2>6, <2>7, <2>8
<1>6. CASE event.type = "tool_execution_start" /\ IsNew(before, event.call)
  <2>1. after = Append(before, [call |-> event.call, ended |-> 0])
    BY <1>6 DEF OutcomeEffect
  <2> QED
    BY <1>5, <1>6, <2>1 DEF ToolTypes
<1>7. CASE event.type = "tool_execution_end" /\ IsNew(before, event.call)
  <2>1. after = Append(before, [call |-> event.call, ended |-> n])
    BY <1>7 DEF OutcomeEffect
  <2> QED
    BY <1>5, <1>7, <2>1 DEF ToolTypes
<1>8. CASE event.type = "tool_execution_end" /\ ~IsNew(before, event.call)
  <2>1. /\ DOMAIN after = DOMAIN before
        /\ \A i \in DOMAIN before :
             /\ after[i].call = before[i].call
             /\ after[i].ended = IF before[i].call = event.call THEN n ELSE before[i].ended
    BY <1>8 DEF OutcomeEffect
  <2>2. event.call \in seen
    BY <1>2, <1>8 DEF IsNew
  <2>3. \A c \in seen2 : ~IsNew(after, c)
    BY <1>1, <1>2, <2>1, <2>2 DEF IsNew
  <2>4. \A i \in DOMAIN after : after[i].call \in seen2 /\ after[i].ended = end2[after[i].call]
    BY <1>1, <1>2, <1>3, <1>8, <2>1
  <2>5. ASSUME NEW i \in DOMAIN after, NEW j \in DOMAIN after, i < j
        PROVE  first2[after[i].call] < first2[after[j].call]
    <3>1. i \in DOMAIN before /\ j \in DOMAIN before
      BY <2>1
    <3>2. before[i].call \in seen /\ before[j].call \in seen
      BY <1>2, <3>1
    <3>3. first[before[i].call] < first[before[j].call]
      BY <1>2, <2>5, <3>1
    <3>4. after[i].call = before[i].call /\ after[j].call = before[j].call
      BY <2>1, <3>1
    <3> QED
      BY <1>1, <3>2, <3>3, <3>4
  <2> QED
    BY <2>3, <2>4, <2>5
<1>9. CASE /\ event.type # "tool_execution_end"
           /\ ~(event.type = "tool_execution_start" /\ IsNew(before, event.call))
  <2>1. after = before
    BY <1>9 DEF OutcomeEffect
  <2>2. \A c \in seen2 : c \in seen
    <3>1. CASE event.type = "tool_execution_start"
      <4>1. event.call \in seen
        BY <1>2, <1>9, <3>1 DEF IsNew
      <4> QED
        BY <1>1, <4>1
    <3>2. CASE event.type # "tool_execution_start"
      <4>1. event.call \notin Calls
        BY <1>3, <1>9, <3>2 DEF ToolTypes
      <4> QED
        BY <1>1, <1>3, <4>1
    <3> QED
      BY <3>1, <3>2
  <2>3. \A i \in DOMAIN after : after[i].call \in seen2 /\ after[i].ended = end2[after[i].call]
    BY <1>1, <1>2, <1>3, <1>9, <2>1
  <2>4. \A i, j \in DOMAIN after : i < j => first2[after[i].call] < first2[after[j].call]
    BY <1>1, <1>2, <2>1
  <2>5. \A c \in seen2 : ~IsNew(after, c)
    BY <1>2, <2>1, <2>2
  <2> QED
    BY <2>3, <2>4, <2>5
<1> QED
  BY <1>6, <1>7, <1>8, <1>9

(* The outcomes of every timeline tell of it.                                *)
LEMMA OutcomesTellAll ==
  \A events \in Seq(Timeline) : OutcomesTell(events, ToolOutcomes(events))
<1> DEFINE S == {events \in Seq(Timeline) : OutcomesTell(events, ToolOutcomes(events))}
<1>1. Seq(Timeline) \subseteq Seq(Event) /\ Timeline \subseteq Event
  BY DEF Timeline
<1>2. <<>> \in S
  <2>1. ToolOutcomes(<<>>) = <<>>
    BY OneEventMore
  <2>2. \A c : Sightings(<<>>, c) = {}
    BY DEF Sightings
  <2>3. OutcomesTell(<<>>, <<>>)
    BY <2>2 DEF OutcomesTell, AllTold, NoneMissing, InFirstOrder
  <2> QED
    BY <2>1, <2>3
<1>3. ASSUME NEW events \in Seq(Timeline), NEW event \in Timeline,
             OutcomesTell(events, ToolOutcomes(events))
      PROVE  OutcomesTell(Append(events, event), ToolOutcomes(Append(events, event)))
  <2>1. events \in Seq(Event) /\ event \in Event /\ WellMade(event)
    BY <1>1 DEF Timeline
  <2>2. PICK before : before = ToolOutcomes(events)
    OBVIOUS
  <2>3. PICK longer : longer = Append(events, event)
    OBVIOUS
  <2>4. PICK n : n = Len(events) + 1
    OBVIOUS
  <2>5. before \in Seq(Outcome) /\ n \in Nat /\ StepwiseFor(events, event)
    BY <2>1, <2>2, <2>4, OneEventMore
  <2>6. PICK after : after = OutcomesAfter(before, event, n)
    OBVIOUS
  <2>7. after \in Seq(Outcome) /\ OutcomeEffect(before, event, n, after)
    BY <2>1, <2>5, <2>6, OutcomesDo
  <2>8. OutcomesTell(events, before)
    BY <1>3, <2>2
  <2>9. OutcomesTell(longer, after)
    BY <2>1, <2>3, <2>4, <2>5, <2>7, <2>8, TellingGoesOn
  <2>10. ToolOutcomes(longer) = after
    BY <2>2, <2>3, <2>4, <2>5, <2>6 DEF StepwiseFor
  <2> QED
    BY <2>3, <2>9, <2>10
<1>4. \A events \in Seq(Timeline), event \in Timeline :
        events \in S => Append(events, event) \in S
  <2>1. \A events \in Seq(Timeline), event \in Timeline : Append(events, event) \in Seq(Timeline)
    OBVIOUS
  <2> QED
    BY <1>3, <2>1
<1> HIDE DEF S
<1>5. Seq(Timeline) \subseteq S
  BY <1>2, <1>4, EverySequence
<1> QED
  BY <1>5 DEF S

-----------------------------------------------------------------------------
(* Every event of a run is made as those of a timeline are.                  *)
Recorded(run) == \A i \in DOMAIN run.events : WellMade(run.events[i])
AllRecorded == \A r \in DOMAIN runs : Recorded(runs[r])

(* A new run has no event.                                                   *)
LEMMA NewRecorded ==
  ASSUME NEW status \in RunStatuses
  PROVE  NewRun(status) \in Run /\ Recorded(NewRun(status))
<1>1. NewRun(status) \in Run /\ NewRun(status).events = <<>>
  BY NewRunSound
<1> QED
  BY <1>1 DEF Recorded

(* To finish a run adds no event.                                            *)
LEMMA EndsRecorded ==
  ASSUME NEW status \in RunStatuses, NEW run \in Run, NEW ok \in BOOLEAN, Recorded(run)
  PROVE  Finished(run, status, ok) \in Run /\ Recorded(Finished(run, status, ok))
<1>1. /\ Finished(run, status, ok) \in Run
      /\ Finished(run, status, ok).events = run.events
  BY FinishedKeeps
<1> QED
  BY <1>1 DEF Recorded

(* A live event has no key, and is made as the wrapped runtime may yield it. *)
LEMMA YieldsWellMade ==
  ASSUME Inv, NEW event, Yields(event), event.type \in Types, event.key = 0,
         event.call \in used.bound.calls \cup {NoCall}
  PROVE  WellMade(event)
<1>1. MayYield(event)
  BY DEF Yields
<1>2. event.call = NoCall \/ event.call \in Calls
  BY TracingAssumption DEF Inv, TypeOK
<1> QED
  BY <1>1, <1>2, TracingAssumption DEF WellMade, ToolTypes, MayYield, Types

(* An event is appended to the run being recorded.                           *)
LEMMA RecordRecorded ==
  ASSUME Inv, AllRecorded, NEW event, Record(event),
         event.type \in Types, event.call \in used.bound.calls \cup {NoCall},
         event.status \in Outcomes, event.key = 0,
         event = [type |-> event.type, call |-> event.call, status |-> event.status,
                  key |-> event.key]
  PROVE  AllRecorded'
<1>1. /\ Streaming /\ TypeOK /\ Yields(event) /\ stream.run = last /\ last \in DOMAIN runs
      /\ runs[last] \in Run
  BY RecordedRun DEF Inv, Record, Yields
<1>2. event \in Event
  BY <1>1, YieldedEvent
<1>3. WellMade(event)
  BY <1>1, YieldsWellMade
<1> PICK old : old = runs[last]
  OBVIOUS
<1>4. PICK new : new = WithEvent(old, event)
  OBVIOUS
<1>5. event.type \in {"tool_execution_start", "tool_execution_end"} => event.call \in Calls
  BY <1>3 DEF WellMade, ToolTypes
<1>6. /\ new \in Run /\ Len(new.events) = Len(old.events) + 1
      /\ \A i \in DOMAIN old.events : new.events[i] = old.events[i]
      /\ new.events[Len(old.events) + 1] = event
  BY <1>1, <1>2, <1>4, <1>5, WithEventAppends
<1>7. /\ DOMAIN old.events = 1..Len(old.events) /\ Len(old.events) \in Nat
      /\ DOMAIN new.events = 1..Len(new.events)
  BY <1>1, <1>6 DEF Run
<1>8. Recorded(new)
  <2>1. \A i \in DOMAIN new.events : i \in DOMAIN old.events \/ i = Len(old.events) + 1
    BY <1>6, <1>7
  <2>2. Recorded(old)
    BY <1>1 DEF AllRecorded
  <2> QED
    BY <1>3, <1>6, <2>1, <2>2 DEF Recorded
<1>9. runs' = [runs EXCEPT ![last] = new]
  BY <1>1, <1>4 DEF Record
<1>10. Changed(last, new)
  BY <1>1, <1>6, <1>9, ExceptChanges
<1> QED
  BY <1>8, <1>10 DEF Changed, AllRecorded

(* The run that was recorded is finished.                                    *)
LEMMA LeaveRecorded ==
  ASSUME Inv, AllRecorded, Streaming, NEW status \in Outcomes, NEW ok \in BOOLEAN,
         runs' = [runs EXCEPT ![stream.run] = Finished(@, status, ok)]
  PROVE  AllRecorded'
<1>1. TypeOK /\ stream.run = last /\ last \in DOMAIN runs /\ runs[last] \in Run
  BY RecordedRun DEF Inv
<1>2. PICK new : new = Finished(runs[last], status, ok)
  OBVIOUS
<1>3. status \in RunStatuses
  BY DEF Outcomes
<1>4. new \in Run /\ Recorded(new)
  <2>1. Recorded(runs[last])
    BY <1>1 DEF AllRecorded
  <2> QED
    BY <1>1, <1>2, <1>3, <2>1, EndsRecorded
<1>5. runs' = [runs EXCEPT ![last] = new]
  BY <1>1, <1>2
<1>6. Changed(last, new)
  BY <1>1, <1>4, <1>5, ExceptChanges
<1> QED
  BY <1>4, <1>6 DEF Changed, AllRecorded

(* A run is begun, and refused at once if an orphaned turn is still open.    *)
LEMMA BeginRecorded ==
  ASSUME Inv, AllRecorded, BeginStream \/ \E ok \in BOOLEAN : BeginRefused(ok)
  PROVE  AllRecorded'
<1>1. "running" \in RunStatuses /\ "failed" \in RunStatuses /\ TypeOK
  BY DEF Inv, RunStatuses
<1>2. PICK first : first = NewRun("running")
  OBVIOUS
<1>3. first \in Run /\ Recorded(first)
  BY <1>1, <1>2, NewRecorded
<1>4. \E run \in Run : Recorded(run) /\ runs' = Append(runs, run)
  <2>1. CASE BeginStream
    BY <1>2, <1>3, <2>1 DEF BeginStream
  <2>2. ASSUME NEW ok \in BOOLEAN, BeginRefused(ok)
        PROVE  \E run \in Run : Recorded(run) /\ runs' = Append(runs, run)
    <3>1. PICK run : run = Finished(first, "failed", ok)
      OBVIOUS
    <3>2. run \in Run /\ Recorded(run)
      BY <1>1, <1>3, <3>1, EndsRecorded
    <3>3. runs' = Append(runs, run)
      BY <1>2, <2>2, <3>1 DEF BeginRefused
    <3> QED
      BY <3>2, <3>3
  <2> QED
    BY <2>1, <2>2
<1>5. PICK run \in Run : Recorded(run) /\ runs' = Append(runs, run)
  BY <1>4
<1>6. Added(run)
  BY <1>1, <1>5, AppendAdds
<1> QED
  BY <1>5, <1>6 DEF Added, AllRecorded

(* Entries are filed.                                                        *)
LEMMA IngestRecorded ==
  ASSUME Inv, AllRecorded, NEW ok \in BOOLEAN, Ingest(ok)
  PROVE  AllRecorded'
<1>1. /\ TypeOK /\ sync.entries \in SUBSET (1..MaxEntries) /\ MaxEntries \in Nat
      /\ Len(runs) \in Nat /\ DOMAIN runs = 1..Len(runs) /\ last \in 0..Len(runs)
      /\ runs \in Seq(Run)
  BY TracingAssumption DEF Inv, TypeOK
<1>2. PICK first : first = NewRun("running")
  OBVIOUS
<1>3. first \in Run /\ Recorded(first) /\ "completed" \in RunStatuses
  BY <1>2, NewRecorded DEF RunStatuses
<1>4. PICK before : before = SyncTarget[SyncRun]
  OBVIOUS
<1>5. /\ before \in Run /\ Recorded(before)
      /\ last = 0 => /\ SyncRun = Len(runs) + 1 /\ SyncTarget = Append(runs, first)
      /\ last # 0 => /\ SyncRun = last /\ SyncTarget = runs /\ last \in DOMAIN runs
  <2>1. CASE last = 0
    <3>1. SyncTarget = Append(runs, first) /\ SyncRun = Len(runs) + 1
      BY <1>2, <2>1 DEF SyncTarget, SyncRun
    <3>2. Append(runs, first)[Len(runs) + 1] = first
      BY <1>1
    <3> QED
      BY <1>3, <1>4, <2>1, <3>1, <3>2
  <2>2. CASE last # 0
    <3>1. SyncTarget = runs /\ SyncRun = last /\ last \in DOMAIN runs
      BY <1>1, <2>2 DEF SyncTarget, SyncRun
    <3>2. runs[last] \in Run /\ Recorded(runs[last])
      BY <1>1, <3>1 DEF AllRecorded
    <3> QED
      BY <1>4, <2>2, <3>1, <3>2
  <2> QED
    BY <2>1, <2>2
<1>6. PICK upto \in 0..MaxEntries :
        \E filed \in InOrder({e \in NewEntries(before, sync.entries) : e <= upto}) :
          runs' = [SyncTarget EXCEPT ![SyncRun] =
                     IF last = 0 THEN Finished(Ingested(before, filed), "completed", ok)
                     ELSE Ingested(before, filed)]
  BY <1>4 DEF Ingest
<1>7. PICK chosen : chosen = {e \in NewEntries(before, sync.entries) : e <= upto}
  OBVIOUS
<1>8. PICK filed \in InOrder(chosen) :
        runs' = [SyncTarget EXCEPT ![SyncRun] =
                   IF last = 0 THEN Finished(Ingested(before, filed), "completed", ok)
                   ELSE Ingested(before, filed)]
  BY <1>6, <1>7
<1>9. chosen \in SUBSET (1..MaxEntries)
  BY <1>1, <1>7 DEF NewEntries
<1>10. filed \in Seq(1..MaxEntries)
  BY <1>9, InOrderIsInjective
<1>11. PICK run : run = Ingested(before, filed)
  OBVIOUS
<1>12. run \in Run /\ Recorded(run)
  <2>1. PICK tail : tail = [i \in DOMAIN filed |-> EntryEvent(filed[i])]
    OBVIOUS
  <2>2. PICK m \in Nat : m = Len(filed)
    BY <1>10
  <2>3. DOMAIN filed = 1..m /\ \A i \in 1..m : filed[i] \in 1..MaxEntries
    <3>1. PICK E : E = 1..MaxEntries
      OBVIOUS
    <3>2. filed \in Seq(E)
      BY <1>10, <3>1
    <3>3. DOMAIN filed = 1..m /\ \A i \in 1..m : filed[i] \in E
      BY <2>2, <3>2
    <3> QED
      BY <3>1, <3>3
  <2>4. \A k \in 1..MaxEntries : EntryEvent(k) \in Event /\ WellMade(EntryEvent(k))
    BY <1>1 DEF EntryEvent, Event, Types, Outcomes, RunStatuses, WellMade, ToolTypes
  <2>5. tail \in [1..m -> Event]
    BY <2>1, <2>3, <2>4
  <2>6. tail \in Seq(Event) /\ Len(tail) = m
    BY <2>5
  <2>7. \A i \in 1..m : WellMade(tail[i])
    BY <2>1, <2>3, <2>4
  <2>8. before.events \in Seq(Event)
    BY <1>5 DEF Run
  <2>9. PICK events : events = before.events \o tail
    OBVIOUS
  <2>10. events \in Seq(Event) /\ Joined(events, before.events, tail)
    BY <2>6, <2>8, <2>9, ConcatJoins
  <2>11. run \in Run /\ run.events = events
    <3>1. run = [before EXCEPT !.events = events]
      BY <1>11, <2>1, <2>9 DEF Ingested
    <3> QED
      BY <1>5, <2>10, <3>1 DEF Run
  <2>12. ASSUME NEW i \in DOMAIN events PROVE WellMade(events[i])
    <3>1. PICK n : n = Len(before.events)
      OBVIOUS
    <3>2. /\ n \in Nat /\ DOMAIN before.events = 1..n /\ DOMAIN events = 1..(n + m)
          /\ \A j \in 1..n : events[j] = before.events[j]
          /\ \A j \in 1..m : events[n + j] = tail[j]
      <4>1. n \in Nat /\ DOMAIN before.events = 1..n
        BY <2>8, <3>1
      <4> QED
        BY <2>6, <2>10, <3>1, <4>1 DEF Joined
    <3>3. CASE i <= n
      <4>1. i \in 1..n
        BY <3>2, <3>3
      <4> QED
        BY <1>5, <3>2, <4>1 DEF Recorded
    <3>4. CASE ~(i <= n)
      <4>1. i - n \in 1..m /\ n + (i - n) = i
        BY <3>2, <3>4
      <4> QED
        BY <2>7, <3>2, <4>1
    <3> QED
      BY <3>3, <3>4
  <2> QED
    BY <2>11, <2>12 DEF Recorded
<1>13. CASE last # 0
  <2>1. runs' = [runs EXCEPT ![last] = run]
    BY <1>5, <1>8, <1>11, <1>13
  <2>2. Changed(last, run)
    BY <1>1, <1>5, <1>12, <1>13, <2>1, ExceptChanges
  <2> QED
    BY <1>12, <2>2 DEF Changed, AllRecorded
<1>14. CASE last = 0
  <2>1. PICK done : done = Finished(run, "completed", ok)
    OBVIOUS
  <2>2. done \in Run /\ Recorded(done)
    BY <1>3, <1>12, <2>1, EndsRecorded
  <2>3. runs' = [Append(runs, first) EXCEPT ![Len(runs) + 1] = done]
    BY <1>5, <1>8, <1>11, <1>14, <2>1
  <2>4. Added(done)
    BY <1>1, <1>3, <2>2, <2>3, AddedThenChanged
  <2> QED
    BY <2>2, <2>4 DEF Added, AllRecorded
<1> QED
  BY <1>13, <1>14

(* Every step keeps it.                                                      *)
LEMMA RecordedStep == Inv /\ AllRecorded /\ [Next]_vars => AllRecorded'
<1> SUFFICES ASSUME Inv, AllRecorded, [Next]_vars PROVE AllRecorded'
  OBVIOUS
<1>1. CASE \/ UNCHANGED vars \/ Finalize \/ Compact \/ NothingFetched \/ Crash
           \/ \E since \in 0..MaxEntries : Fetch(since)
  <2>1. runs' = runs
    BY <1>1 DEF vars, Finalize, Compact, NothingFetched, Crash, Fetch
  <2> QED
    BY <2>1 DEF AllRecorded
<1>2. CASE BeginStream \/ \E ok \in BOOLEAN : BeginRefused(ok)
  BY <1>2, BeginRecorded
<1>3. ASSUME NEW type \in Types, NEW call \in used.bound.calls \cup {NoCall},
             NEW status \in Outcomes, NEW event,
             event = [type |-> type, call |-> call, status |-> status, key |-> 0],
             Record(event) \/ \E ok \in BOOLEAN : RecordFails(event, ok)
      PROVE  AllRecorded'
  <2>1. /\ event.type \in Types /\ event.call \in used.bound.calls \cup {NoCall}
        /\ event.status \in Outcomes /\ event.key = 0
        /\ event = [type |-> event.type, call |-> event.call, status |-> event.status,
                    key |-> event.key]
    BY <1>3
  <2>2. CASE Record(event)
    BY <2>1, <2>2, RecordRecorded
  <2>3. ASSUME NEW ok \in BOOLEAN, RecordFails(event, ok) PROVE AllRecorded'
    <3>1. "failed" \in Outcomes /\ Streaming
      BY <2>3 DEF Outcomes, RunStatuses, RecordFails, Yields
    <3> QED
      BY <2>3, <3>1, LeaveRecorded DEF RecordFails
  <2> QED
    BY <1>3, <2>2, <2>3
<1>4. CASE EventStep
  BY <1>3, <1>4 DEF EventStep
<1>5. ASSUME NEW ok \in BOOLEAN, InnerRaises(ok) \/ Abandon(ok) \/ InnerReturns(ok)
      PROVE  AllRecorded'
  <2>1. /\ Streaming /\ {"failed", "aborted"} \subseteq Outcomes /\ FinalStatus \in Outcomes
    BY <1>5 DEF Inv, TypeOK, Stream, FinalStatus, Outcomes, RunStatuses,
                InnerRaises, Abandon, InnerReturns
  <2>2. PICK status \in Outcomes : Leave(status, ok)
    BY <1>5, <2>1 DEF InnerRaises, Abandon, InnerReturns
  <2> QED
    BY <2>1, <2>2, LeaveRecorded DEF Leave
<1>6. ASSUME NEW ok \in BOOLEAN, Ingest(ok) PROVE AllRecorded'
  BY <1>6, IngestRecorded
<1> QED
  BY <1>1, <1>2, <1>4, <1>5, <1>6 DEF Next

(* The timelines of all runs are made so in every reachable state.           *)
LEMMA TimelinesHold == Spec => [](Inv /\ AllRecorded)
<1>1. Init => Inv /\ AllRecorded
  <2>1. Init => AllRecorded
    BY DEF Init, AllRecorded
  <2> QED
    BY <2>1, InvInitially
<1>2. Inv /\ AllRecorded /\ [Next]_vars => Inv' /\ AllRecorded'
  BY InvStep, RecordedStep
<1> QED
  BY <1>1, <1>2, PTL DEF Spec

(* So a run is like itself without its entries.                              *)
LEMMA NothingDiffers ==
  ASSUME NEW run \in Run, run.events \in Seq(Timeline)
  PROVE  Differences(Snapshot(run), Snapshot(Unsynchronised(run))) = {}
<1>1. PICK other : other = Unsynchronised(run)
  OBVIOUS
<1>2. other.status = run.status /\ other.events = Live(run.events)
  <2>1. PICK events : events = Live(run.events)
    OBVIOUS
  <2>2. other = [run EXCEPT !.events = events]
    BY <1>1, <2>1 DEF Unsynchronised, Live
  <2> QED
    BY <2>1, <2>2 DEF Run
<1>3. SameWithout(run.events)
  BY EntriesDoNotMatter
<1>4. PICK a, b : a = Snapshot(run) /\ b = Snapshot(other)
  OBVIOUS
<1>5. a.terminal_status = b.terminal_status
  BY <1>2, <1>4 DEF Snapshot
<1>6. a.lifecycle = b.lifecycle
  BY <1>2, <1>3, <1>4 DEF Snapshot, SameWithout
<1>7. Ends(a.tools) = Ends(b.tools)
  <2>1. a.tools = ToolOutcomes(run.events) /\ b.tools = ToolOutcomes(Live(run.events))
    BY <1>2, <1>4 DEF Snapshot
  <2>2. Alike(b.tools, a.tools)
    BY <1>3, <2>1 DEF SameWithout
  <2> QED
    BY <2>2 DEF Alike, Ends
<1>8. (a.assistant_text = {}) = (b.assistant_text = {})
  <2>1. /\ a.assistant_text = {i \in DOMAIN run.events : run.events[i].type = "message_update"}
        /\ b.assistant_text = {i \in DOMAIN Live(run.events) :
                                 Live(run.events)[i].type = "message_update"}
    BY <1>2, <1>4 DEF Snapshot, Positions
  <2>2. /\ (a.assistant_text = {}) <=> ~HasText(run.events)
        /\ (b.assistant_text = {}) <=> ~HasText(Live(run.events))
    BY <2>1 DEF HasText
  <2> QED
    BY <1>3, <2>2 DEF SameWithout
<1>9. Differences(a, b) = {}
  BY <1>5, <1>6, <1>7, <1>8 DEF Differences
<1> QED
  BY <1>1, <1>4, <1>9

(* A run has a row for each call its timeline names, and for no other.       *)
LEMMA RowsAreOfSightings ==
  ASSUME NEW run \in Run, run.events \in Seq(Timeline), Replayed(run), NEW c \in Calls
  PROVE  /\ run.tools[c] # [started |-> 0, ended |-> 0] <=> Sightings(run.events, c) # {}
         /\ run.tools[c].ended = LastOf(EndsIn(run.events, c))
<1>1. PICK n, S, starts, ends : /\ n = Len(run.events) /\ S = Sightings(run.events, c)
                                /\ starts = StartsOf(run, c) /\ ends = EndsOf(run, c)
  OBVIOUS
<1>2. /\ n \in Nat /\ DOMAIN run.events = 1..n
      /\ \A i \in 1..n : WellMade(run.events[i])
  BY <1>1 DEF Timeline
<1>3. ends = EndsIn(run.events, c)
  BY <1>1 DEF EndsIn, EndsOf
<1>4. S = starts \cup ends /\ starts \subseteq 1..n /\ ends \subseteq 1..n
  <2>1. \A i \in 1..n : run.events[i].call = c => run.events[i].type \in ToolTypes
    BY <1>2, TracingAssumption DEF WellMade
  <2> QED
    BY <1>1, <1>2, <2>1 DEF Sightings, StartsOf, EndsOf, ToolTypes
<1>5. RowMoved(n, starts, ends)
  BY <1>2, <1>4, RowMoves
<1>6. run.tools[c] = RowOf(starts, ends)
  BY <1>1 DEF Replayed
<1>7. RowOf(starts, ends) = [started |-> 0, ended |-> 0] <=> starts = {} /\ ends = {}
  BY <1>5 DEF RowMoved
<1>8. RowOf(starts, ends).ended = LastOf(ends)
  BY DEF RowOf
<1> QED
  BY <1>1, <1>3, <1>4, <1>6, <1>7, <1>8

(* One outcome for each row, with the row's result, in the order in which    *)
(* the calls were first named.                                               *)
RowsTell(run, tools) ==
  /\ {tools[i].call : i \in DOMAIN tools}
       = {c \in Calls : run.tools[c] # [started |-> 0, ended |-> 0]}
  /\ \A i \in DOMAIN tools : tools[i].ended = run.tools[tools[i].call].ended
  /\ \A i, j \in DOMAIN tools :
       i < j => Min(Sightings(run.events, tools[i].call))
                  < Min(Sightings(run.events, tools[j].call))

(* So the rows tell of the outcomes of every timeline.                       *)
LEMMA ParityOfOne ==
  ASSUME NEW run \in Run, run.events \in Seq(Timeline), Replayed(run),
         NEW tools, tools = ToolOutcomes(run.events)
  PROVE  RowsTell(run, tools)
<1>1. OutcomesTell(run.events, tools)
  BY OutcomesTellAll
<1>2. \A c \in Calls :
        /\ run.tools[c] # [started |-> 0, ended |-> 0] <=> Sightings(run.events, c) # {}
        /\ run.tools[c].ended = LastOf(EndsIn(run.events, c))
  BY RowsAreOfSightings
<1>3. \A i \in DOMAIN tools : /\ tools[i].call \in Calls
                              /\ Sightings(run.events, tools[i].call) # {}
                              /\ tools[i].ended = LastOf(EndsIn(run.events, tools[i].call))
  BY <1>1 DEF OutcomesTell, AllTold, Told
<1>4. \A c \in Calls : Sightings(run.events, c) # {} => \E i \in DOMAIN tools : tools[i].call = c
  BY <1>1 DEF OutcomesTell, NoneMissing, IsNew
<1>5. {tools[i].call : i \in DOMAIN tools}
        = {c \in Calls : run.tools[c] # [started |-> 0, ended |-> 0]}
  BY <1>2, <1>3, <1>4
<1>6. \A i \in DOMAIN tools : tools[i].ended = run.tools[tools[i].call].ended
  BY <1>2, <1>3
<1> QED
  BY <1>1, <1>5, <1>6 DEF RowsTell, OutcomesTell, InFirstOrder

(* PARITY-002, "entry-replay rows are excluded": a run is like itself        *)
(* without the entries filed in it, and the outcomes compared are its rows,  *)
(* in the order in which their calls were first seen.                        *)
THEOREM ParityHolds == Spec => []ParityTellsTheRun
<1>1. Inv /\ AllRecorded => ParityTellsTheRun
  <2> SUFFICES ASSUME Inv, AllRecorded, NEW r \in DOMAIN runs
               PROVE  LET tools == ToolOutcomes(runs[r].events)
                          First(c) == Min({i \in DOMAIN runs[r].events : runs[r].events[i].call = c})
                      IN /\ Differences(Snapshot(runs[r]), Snapshot(Unsynchronised(runs[r]))) = {}
                         /\ {tools[i].call : i \in DOMAIN tools}
                              = {c \in Calls : runs[r].tools[c] # [started |-> 0, ended |-> 0]}
                         /\ \A i \in DOMAIN tools :
                              tools[i].ended = runs[r].tools[tools[i].call].ended
                         /\ \A i, j \in DOMAIN tools :
                              i < j => First(tools[i].call) < First(tools[j].call)
    BY DEF ParityTellsTheRun, Positions
  <2>1. PICK run : run = runs[r]
    OBVIOUS
  <2>2. run \in Run /\ Replayed(run) /\ Recorded(run)
    BY <2>1 DEF Inv, TypeOK, Sound, AllRecorded
  <2>3. run.events \in Seq(Timeline)
    <3>1. PICK n : n = Len(run.events)
      OBVIOUS
    <3>2. n \in Nat /\ run.events \in [1..n -> Event]
      BY <2>2, <3>1 DEF Run
    <3>3. run.events \in [1..n -> Timeline]
      BY <2>2, <3>2 DEF Recorded, Timeline
    <3> QED
      BY <3>2, <3>3, ArrayIsSeq
  <2>4. PICK tools : tools = ToolOutcomes(run.events)
    OBVIOUS
  <2>5. Differences(Snapshot(run), Snapshot(Unsynchronised(run))) = {}
    BY <2>2, <2>3, NothingDiffers
  <2>6. RowsTell(run, tools)
    BY <2>2, <2>3, <2>4, ParityOfOne
  <2> QED
    BY <2>1, <2>4, <2>5, <2>6 DEF RowsTell, Sightings
<1> QED
  BY <1>1, TimelinesHold, PTL
=============================================================================
