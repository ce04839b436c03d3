---------------------------- MODULE PiRpcProofs ----------------------------
(* What PiRpcClient and PiRuntime.stream keep true for any number of         *)
(* requests, prompts, events, faults and processes: who waits is registered, *)
(* an answer reaches its own caller, and a stream loses nothing.             *)
EXTENDS PiRpc, FiniteSetTheorems, TLAPS

(* Sequences, position by position.                                          *)
LEMMA AppendFacts ==
  ASSUME NEW S, NEW s \in Seq(S), NEW x \in S
  PROVE  /\ Append(s, x) \in Seq(S)
         /\ Len(Append(s, x)) = Len(s) + 1
         /\ DOMAIN Append(s, x) = DOMAIN s \cup {Len(s) + 1}
         /\ Len(s) + 1 \notin DOMAIN s
         /\ \A i \in DOMAIN s : Append(s, x)[i] = s[i]
         /\ Append(s, x)[Len(s) + 1] = x
  OBVIOUS

(* What a sequence keeps when its head is taken.                             *)
LEMMA TailFacts ==
  ASSUME NEW S, NEW s \in Seq(S), s # <<>>
  PROVE  /\ Tail(s) \in Seq(S)
         /\ Len(Tail(s)) = Len(s) - 1
         /\ \A i \in DOMAIN Tail(s) : i + 1 \in DOMAIN s /\ Tail(s)[i] = s[i + 1]
         /\ \A i \in DOMAIN s : i # 1 => i - 1 \in DOMAIN Tail(s) /\ Tail(s)[i - 1] = s[i]
         /\ 1 \in DOMAIN s /\ Head(s) = s[1] /\ s[1] \in S
  OBVIOUS

(* Where the elements of a concatenation come from.                          *)
LEMMA ConcatFacts ==
  ASSUME NEW S, NEW s \in Seq(S), NEW t \in Seq(S)
  PROVE  /\ s \o t \in Seq(S)
         /\ Len(s \o t) = Len(s) + Len(t)
         /\ \A i \in DOMAIN s : i \in DOMAIN (s \o t) /\ (s \o t)[i] = s[i]
         /\ \A i \in DOMAIN t : /\ Len(s) + i \in DOMAIN (s \o t)
                                /\ (s \o t)[Len(s) + i] = t[i]
         /\ \A i \in DOMAIN (s \o t) : \/ i \in DOMAIN s
                                       \/ i > Len(s) /\ i - Len(s) \in DOMAIN t
  OBVIOUS

(* The lines the process and the reader make are lines.                      *)
LEMMA LinesTyped ==
  /\ \A r \in Requests : Response(r) \in Line /\ Rejection(r) \in Line
  /\ \A r \in Requests \cup {NoRequest}, n \in Nat : PiEvent(r, n) \in Line /\ Settled(r, n) \in Line
  /\ Garbage \in Line
  /\ starts \in Nat => EndMarker \in Line
  BY DEF Line, Response, Rejection, PiEvent, Settled, Garbage, EndMarker

(* There is room for one more fault.                                         *)
LEMMA FaultsBounded ==
  ASSUME garbage \in Nat, MayFault
  PROVE  garbage + 1 \in 0..MaxFaults
<1> DEFINE given == {r \in Requests : request[r] \in {"timeout", "cancelled"}}
<1>1. given \subseteq Requests
  OBVIOUS
<1>2. IsFiniteSet(given)
  BY <1>1, PiRpcAssumption, FS_Subset
<1>3. Cardinality(given) \in Nat
  BY <1>2, FS_CardinalityType
<1>4. garbage + Cardinality(given) < MaxFaults
  BY DEF MayFault
<1> HIDE DEF given
<1> QED
  BY <1>3, <1>4, PiRpcAssumption

-----------------------------------------------------------------------------
(* The numbers of the events that are printed stay within the bound, and the *)
(* marker never comes from the process.                                      *)
Numbered ==
  /\ \A i \in DOMAIN stdout : /\ stdout[i].type # "end"
                              /\ stdout[i].type = "event" => stdout[i].n <= MaxEvents
  /\ \A i \in DOMAIN events : events[i].type = "event" => events[i].n <= MaxEvents

(* Send and its two callers.                                                 *)
LEMMA SendTypes ==
  ASSUME TypeOK, NEW r \in Requests, Send(r)
  PROVE  /\ request' \in [Requests -> Phases]
         /\ pending' \subseteq Requests
         /\ inbox' \in Seq(Requests)
<1>1. request \in [Requests -> Phases] /\ pending \subseteq Requests /\ inbox \in Seq(Requests)
  BY DEF TypeOK
<1>2. "waiting" \in Phases /\ "failed" \in Phases
  BY DEF Phases, Ended
<1>3. Append(inbox, r) \in Seq(Requests)
  BY <1>1, AppendFacts
<1> QED
  BY <1>1, <1>2, <1>3 DEF Send

(* Every step keeps the types and the numbering of processes and prompts.    *)
LEMMA TypesKept ==
  ASSUME TypeOK, Numbered, [Next]_vars
  PROVE  TypeOK' /\ Numbered'
<1> USE PiRpcAssumption
<1>1. CASE Start
  BY <1>1 DEF TypeOK, Numbered, Start, NoTurn
<1>2. CASE PiAnswers
  <2>1. inbox # <<>> /\ inbox \in Seq(Requests)
    BY <1>2 DEF PiAnswers, TypeOK
  <2> DEFINE r == Head(inbox)
  <2>2. r \in Requests /\ Tail(inbox) \in Seq(Requests)
    BY <2>1, TailFacts
  <2>3. turn' \in [of: Requests \cup {NoRequest}, n: 0..MaxEvents]
    BY <1>2, <2>2 DEF PiAnswers, TypeOK
  <2>4. PICK line \in Line : /\ stdout' = Append(stdout, line)
                             /\ line.type \in Answers
    BY <1>2, <2>2, LinesTyped DEF PiAnswers, Response, Rejection, Answers
  <2>5. stdout' \in Seq(Line) /\ Numbered'
    <3>1. stdout \in Seq(Line)
      BY DEF TypeOK
    <3>2. events' = events
      BY <1>2 DEF PiAnswers, client
    <3> QED
      BY <2>4, <3>1, <3>2, AppendFacts DEF Numbered, Answers
  <2> QED
    BY <1>2, <2>2, <2>3, <2>5 DEF PiAnswers, TypeOK, client
<1>3. CASE PiEmits
  <2>1. turn.of \in Requests \cup {NoRequest} /\ turn.n \in 0..MaxEvents
    BY DEF TypeOK
  <2>2. PICK line \in Line : /\ stdout' = Append(stdout, line)
                             /\ line.type # "end"
                             /\ line.type = "event" => line.n <= MaxEvents
    <3>1. turn.n + 1 \in Nat
      BY <2>1
    <3>2. CASE turn.n + 1 < MaxEvents /\ stdout' = Append(stdout, PiEvent(turn.of, turn.n + 1))
      BY <2>1, <3>1, <3>2, LinesTyped DEF PiEvent
    <3>3. CASE stdout' = Append(stdout, Settled(turn.of, turn.n + 1))
      BY <2>1, <3>1, <3>3, LinesTyped DEF Settled
    <3> QED
      BY <1>3, <3>2, <3>3 DEF PiEmits
  <2>3. turn' \in [of: Requests \cup {NoRequest}, n: 0..MaxEvents]
    <3>1. CASE turn.n + 1 < MaxEvents /\ turn' = [turn EXCEPT !.n = @ + 1]
      <4> DEFINE n == turn.n + 1
      <4>1. n \in 0..MaxEvents /\ turn' = [turn EXCEPT !.n = n]
        BY <2>1, <3>1
      <4> HIDE DEF n
      <4> QED
        BY <4>1 DEF TypeOK
    <3>2. CASE turn' = NoTurn
      <4>1. 0 \in 0..MaxEvents
        OBVIOUS
      <4> QED
        BY <3>2, <4>1 DEF NoTurn
    <3> QED
      BY <1>3, <3>1, <3>2 DEF PiEmits
  <2>4. stdout' \in Seq(Line) /\ Numbered'
    <3>1. stdout \in Seq(Line)
      BY DEF TypeOK
    <3>2. events' = events
      BY <1>3 DEF PiEmits, client
    <3> QED
      BY <2>2, <3>1, <3>2, AppendFacts DEF Numbered
  <2> QED
    BY <1>3, <2>3, <2>4 DEF PiEmits, TypeOK, client
<1>4. CASE PiGarbles
  <2>1. garbage' \in 0..MaxFaults
    BY <1>4, FaultsBounded DEF PiGarbles, TypeOK
  <2>2. stdout' \in Seq(Line) /\ Numbered'
    <3>1. stdout \in Seq(Line) /\ Garbage \in Line
      BY LinesTyped DEF TypeOK
    <3>2. stdout' = Append(stdout, Garbage) /\ events' = events
      BY <1>4 DEF PiGarbles, client
    <3>3. Garbage.type = "garbage"
      BY DEF Garbage
    <3> QED
      BY <3>1, <3>2, <3>3, AppendFacts DEF Numbered
  <2> QED
    BY <1>4, <2>1, <2>2 DEF PiGarbles, TypeOK, client
<1>5. CASE PiExits
  BY <1>5 DEF TypeOK, Numbered, PiExits, NoTurn, client
<1>6. CASE Reaped
  BY <1>6 DEF TypeOK, Numbered, Reaped, pi, client
<1>7. CASE ReadLine
  <2>1. stdout \in Seq(Line) /\ stdout # <<>> /\ events \in Seq(Line)
    BY <1>7 DEF ReadLine, TypeOK
  <2>2. /\ stdout' = Tail(stdout) /\ Tail(stdout) \in Seq(Line)
        /\ Head(stdout) = stdout[1] /\ 1 \in DOMAIN stdout /\ Head(stdout) \in Line
    BY <1>7, <2>1, TailFacts DEF ReadLine
  <2>3. \/ events' = events
        \/ events' = Append(events, Head(stdout))
    BY <1>7 DEF ReadLine
  <2>4. events' \in Seq(Line) /\ Numbered'
    <3>1. \A i \in DOMAIN Tail(stdout) : i + 1 \in DOMAIN stdout /\ Tail(stdout)[i] = stdout[i + 1]
      BY <2>1, TailFacts
    <3>2. CASE events' = events
      BY <2>1, <2>2, <3>1, <3>2 DEF Numbered
    <3>3. CASE events' = Append(events, Head(stdout))
      BY <2>1, <2>2, <3>1, <3>3, AppendFacts DEF Numbered
    <3> QED
      BY <2>3, <3>2, <3>3
  <2>5. request' \in [Requests -> Phases] /\ pending' \subseteq Requests
    BY <1>7 DEF ReadLine, TypeOK, Phases, Done
  <2> QED
    BY <1>7, <2>2, <2>4, <2>5 DEF ReadLine, TypeOK
<1>8. CASE ReadEnds
  <2>1. starts \in Nat /\ EndMarker \in Line /\ EndMarker.type = "end"
    BY LinesTyped DEF TypeOK, EndMarker
  <2>2. events' = Append(events, EndMarker) /\ events \in Seq(Line) /\ stdout' = <<>>
    BY <1>8 DEF ReadEnds, Marked, TypeOK
  <2>3. events' \in Seq(Line) /\ Numbered'
    BY <2>1, <2>2, AppendFacts DEF Numbered
  <2>4. request' \in [Requests -> Phases]
    BY <1>8 DEF ReadEnds, Broken, TypeOK, Phases, Done
  <2> QED
    BY <1>8, <2>2, <2>3, <2>4 DEF ReadEnds, TypeOK
<1>9. CASE CloseReturns
  BY <1>9 DEF TypeOK, Numbered, CloseReturns, pi, client
<1>10. CASE Asked
  BY <1>10 DEF TypeOK, Numbered, Asked, NoStream, pi, client
<1>11. CASE NextEvent
  <2>1. events \in Seq(Line) /\ events # <<>>
    BY <1>11 DEF NextEvent, TypeOK
  <2>2. /\ events' = Tail(events) /\ Tail(events) \in Seq(Line)
        /\ Head(events) = events[1] /\ 1 \in DOMAIN events /\ Head(events) \in Line
    BY <1>11, <2>1, TailFacts DEF NextEvent
  <2>3. Numbered'
    <3>1. stdout' = stdout
      BY <1>11 DEF NextEvent, pi
    <3> QED
      BY <2>1, <2>2, <3>1, TailFacts DEF Numbered
  <2>4. Head(events).type = "event" => Head(events).n \in 0..MaxEvents
    BY <2>2 DEF Numbered, Line
  <2>5. stream' \in [phase: {"idle", "asking", "open", "settled", "exited", "early"},
                     prompt: Requests \cup {NoRequest}, seen: 0..MaxEvents]
    BY <1>11, <2>4 DEF NextEvent, StreamAfter, TypeOK
  <2> QED
    BY <1>11, <2>2, <2>3, <2>5 DEF NextEvent, TypeOK, pi
<1>12. CASE Abandon
  BY <1>12 DEF TypeOK, Numbered, Abandon, NoStream, pi, client
<1>13. ASSUME NEW r \in Requests, Command(r)
       PROVE  TypeOK' /\ Numbered'
  <2>1. Send(r)
    BY <1>13 DEF Command
  <2> QED
    BY <1>13, <2>1, SendTypes DEF TypeOK, Numbered, Command, Send
<1>14. ASSUME NEW r \in Requests, Ask(r)
       PROVE  TypeOK' /\ Numbered'
  <2>1. Send(r)
    BY <1>14 DEF Ask
  <2>2. stream' \in [phase: {"idle", "asking", "open", "settled", "exited", "early"},
                     prompt: Requests \cup {NoRequest}, seen: 0..MaxEvents]
    <3>1. 0 \in 0..MaxEvents
      OBVIOUS
    <3> QED
      BY <1>14, <3>1 DEF Ask
  <2>3. UNCHANGED <<process, starts, turn, stdout, garbage, reader, events, leftover>>
    BY <2>1 DEF Send
  <2> QED
    BY <2>1, <2>2, <2>3, SendTypes DEF TypeOK, Numbered
<1>15. ASSUME NEW r \in Requests, Resume(r)
       PROVE  TypeOK' /\ Numbered'
  BY <1>15 DEF TypeOK, Numbered, Resume, Phases, Ended, pi
<1>16. ASSUME NEW r \in Requests, Timeout(r)
       PROVE  TypeOK' /\ Numbered'
  BY <1>16 DEF TypeOK, Numbered, Timeout, Phases, Ended, pi
<1>17. ASSUME NEW r \in Requests, Cancel(r)
       PROVE  TypeOK' /\ Numbered'
  BY <1>17 DEF TypeOK, Numbered, Cancel, Phases, Ended, pi
<1>18. CASE UNCHANGED vars
  BY <1>18 DEF TypeOK, Numbered, vars, pi, client
<1> QED
  BY <1>1, <1>2, <1>3, <1>4, <1>5, <1>6, <1>7, <1>8, <1>9, <1>10, <1>11, <1>12,
     <1>13, <1>14, <1>15, <1>16, <1>17, <1>18 DEF Next

-----------------------------------------------------------------------------
(* Who waits is registered, and nobody is who has an outcome.                *)
Registered ==
  \A r \in Requests :
    /\ request[r] = "waiting" => r \in pending
    /\ r \in pending => request[r] \in {"waiting", "cancelled"}

(* An id is in the inbox, or in an answer not read, or in one that was read  *)
(* and not resolved, and there only once.                                    *)
Once ==
  /\ \A i, j \in DOMAIN inbox : inbox[i] = inbox[j] => i = j
  /\ \A i, j \in DOMAIN stdout :
       /\ stdout[i].type \in Answers /\ stdout[j].type \in Answers
       /\ stdout[i].of = stdout[j].of
       => i = j
  /\ \A i \in DOMAIN inbox, j \in DOMAIN stdout :
       stdout[j].type \in Answers => stdout[j].of # inbox[i]
  /\ \A i \in DOMAIN inbox, j \in DOMAIN events :
       events[j].type \in Answers => events[j].of # inbox[i]
  /\ \A i \in DOMAIN stdout, j \in DOMAIN events :
       stdout[i].type \in Answers /\ events[j].type \in Answers
         => stdout[i].of # events[j].of

Nowhere(r) ==
  /\ \A i \in DOMAIN inbox : inbox[i] # r
  /\ \A i \in DOMAIN stdout : stdout[i].type \in Answers => stdout[i].of # r
  /\ \A i \in DOMAIN events : events[i].type \in Answers => events[i].of # r

(* A request that was not sent yet, and one whose answer arrived, is on its  *)
(* way nowhere.                                                              *)
Taken ==
  \A r \in Requests :
    request[r] \in {"new", "resolved", "rejected", "answered"} => Nowhere(r)

Delivery == Registered /\ Once /\ Taken

(* Nothing is in transit that was not, and callers' outcomes stay.           *)
LEMMA DeliveryStays ==
  ASSUME Delivery,
         inbox' = inbox \/ inbox' = <<>>,
         stdout' = stdout \/ stdout' = <<>>,
         events' = events,
         request' = request, pending' = pending
  PROVE  Delivery'
<1>1. \A i \in DOMAIN inbox' : i \in DOMAIN inbox /\ inbox'[i] = inbox[i]
  OBVIOUS
<1>2. \A i \in DOMAIN stdout' : i \in DOMAIN stdout /\ stdout'[i] = stdout[i]
  OBVIOUS
<1> QED
  BY <1>1, <1>2 DEF Delivery, Registered, Once, Taken, Nowhere

(* So does a line that answers nobody.                                       *)
LEMMA PrintKeepsDelivery ==
  ASSUME TypeOK, Delivery, NEW line \in Line, line.type \notin Answers,
         stdout' = Append(stdout, line),
         UNCHANGED <<inbox, events, request, pending>>
  PROVE  Delivery'
<1>1. stdout \in Seq(Line)
  BY DEF TypeOK
<1>2. \A i \in DOMAIN stdout' :
        \/ i \in DOMAIN stdout /\ stdout'[i] = stdout[i]
        \/ i = Len(stdout) + 1 /\ stdout'[i].type \notin Answers
  BY <1>1, AppendFacts
<1> QED
  BY <1>2 DEF Delivery, Registered, Once, Taken, Nowhere

(* The command moves from the inbox to an answer.                            *)
LEMMA PiAnswersKeepsDelivery ==
  ASSUME TypeOK, Delivery, PiAnswers
  PROVE  Delivery'
<1>1. inbox # <<>> /\ inbox \in Seq(Requests) /\ stdout \in Seq(Line)
  BY DEF PiAnswers, TypeOK
<1> DEFINE r == Head(inbox)
<1>2. /\ r \in Requests /\ r = inbox[1] /\ 1 \in DOMAIN inbox
      /\ \A i \in DOMAIN Tail(inbox) : i + 1 \in DOMAIN inbox /\ Tail(inbox)[i] = inbox[i + 1]
      /\ \A i \in DOMAIN Tail(inbox) : i \in Nat /\ i # 0
  BY <1>1, TailFacts
<1>3. PICK line \in Line : /\ stdout' = Append(stdout, line)
                           /\ line.of = r
  BY <1>2, LinesTyped DEF PiAnswers, Response, Rejection
<1>4. \A i \in DOMAIN stdout' :
        \/ i \in DOMAIN stdout /\ stdout'[i] = stdout[i]
        \/ i = Len(stdout) + 1 /\ stdout'[i].of = r
  BY <1>1, <1>3, AppendFacts
<1>5. \A i \in DOMAIN inbox' : /\ i + 1 \in DOMAIN inbox /\ inbox'[i] = inbox[i + 1]
                               /\ i \in Nat /\ i # 0
  BY <1>2 DEF PiAnswers
<1>6. UNCHANGED <<request, pending, events>>
  BY DEF PiAnswers, client
<1>7. \A i \in DOMAIN inbox' : inbox'[i] # r
  BY <1>2, <1>5 DEF Delivery, Once
<1>8. \A i \in DOMAIN stdout : stdout[i].type \in Answers => stdout[i].of # r
  BY <1>2 DEF Delivery, Once
<1>9. \A i \in DOMAIN events : events[i].type \in Answers => events[i].of # r
  BY <1>2 DEF Delivery, Once
<1>10. request[r] \notin {"new", "resolved", "rejected", "answered"}
  BY <1>2 DEF Delivery, Taken, Nowhere
<1> HIDE DEF r
<1>11. Once'
  <2>1. \A i, j \in DOMAIN inbox' : inbox'[i] = inbox'[j] => i = j
    <3>1. SUFFICES ASSUME NEW i \in DOMAIN inbox', NEW j \in DOMAIN inbox', inbox'[i] = inbox'[j]
                   PROVE  i = j
      OBVIOUS
    <3>2. i + 1 = j + 1
      BY <1>5, <3>1 DEF Delivery, Once
    <3> QED
      BY <1>5, <3>2
  <2>2. \A i \in DOMAIN inbox', j \in DOMAIN stdout' :
          stdout'[j].type \in Answers => stdout'[j].of # inbox'[i]
    BY <1>4, <1>5, <1>7 DEF Delivery, Once
  <2>3. \A i \in DOMAIN inbox', j \in DOMAIN events' :
          events'[j].type \in Answers => events'[j].of # inbox'[i]
    BY <1>5, <1>6 DEF Delivery, Once
  <2>4. \A i, j \in DOMAIN stdout' :
          /\ stdout'[i].type \in Answers /\ stdout'[j].type \in Answers
          /\ stdout'[i].of = stdout'[j].of
          => i = j
    BY <1>4, <1>8 DEF Delivery, Once
  <2>5. \A i \in DOMAIN stdout', j \in DOMAIN events' :
          stdout'[i].type \in Answers /\ events'[j].type \in Answers
            => stdout'[i].of # events'[j].of
    BY <1>4, <1>6, <1>9 DEF Delivery, Once
  <2> QED
    BY <2>1, <2>2, <2>3, <2>4, <2>5 DEF Once
<1>12. Taken'
  <2>1. SUFFICES ASSUME NEW q \in Requests,
                        request'[q] \in {"new", "resolved", "rejected", "answered"}
                 PROVE  Nowhere(q)'
    BY DEF Taken
  <2>2. Nowhere(q) /\ q # r
    BY <1>6, <1>10, <2>1 DEF Delivery, Taken
  <2> QED
    BY <1>4, <1>5, <1>6, <2>2 DEF Nowhere
<1> QED
  BY <1>6, <1>11, <1>12 DEF Delivery, Registered

(* A new request is registered when it is written, and written once.         *)
LEMMA SendKeepsDelivery ==
  ASSUME TypeOK, Delivery, NEW r \in Requests, Send(r)
  PROVE  Delivery'
<1>1. /\ inbox \in Seq(Requests) /\ request \in [Requests -> Phases]
      /\ request[r] = "new" /\ UNCHANGED <<stdout, events>>
  BY DEF Send, TypeOK
<1>2. Nowhere(r) /\ r \notin pending
  BY <1>1 DEF Delivery, Registered, Taken
<1>3. \A i \in DOMAIN inbox' :
        \/ i \in DOMAIN inbox /\ inbox'[i] = inbox[i]
        \/ i = Len(inbox) + 1 /\ inbox'[i] = r
  BY <1>1, AppendFacts DEF Send
<1>4. /\ \A q \in Requests \ {r} : request'[q] = request[q] /\ (q \in pending' <=> q \in pending)
      /\ \/ request'[r] = "waiting" /\ r \in pending'
         \/ request'[r] = "failed" /\ r \notin pending'
  BY <1>1, <1>2 DEF Send
<1>5. Registered'
  BY <1>4 DEF Delivery, Registered
<1>6. Once'
  BY <1>1, <1>2, <1>3 DEF Delivery, Once, Nowhere
<1>7. Taken'
  <2>1. SUFFICES ASSUME NEW q \in Requests,
                        request'[q] \in {"new", "resolved", "rejected", "answered"}
                 PROVE  Nowhere(q)'
    BY DEF Taken
  <2>2. Nowhere(q) /\ q # r
    BY <1>4, <2>1 DEF Delivery, Taken
  <2> QED
    BY <1>1, <1>3, <2>2 DEF Nowhere
<1> QED
  BY <1>5, <1>6, <1>7 DEF Delivery

(* A caller that leaves, with its outcome or without one.                    *)
LEMMA LeaveKeepsDelivery ==
  ASSUME TypeOK, Delivery, NEW r \in Requests, Resume(r) \/ Timeout(r) \/ Cancel(r)
  PROVE  Delivery'
<1>1. request \in [Requests -> Phases]
  BY DEF TypeOK
<1>2. /\ UNCHANGED <<inbox, stdout, events>>
      /\ \A q \in Requests \ {r} : request'[q] = request[q] /\ (q \in pending' <=> q \in pending)
      /\ \/ request[r] = "resolved" /\ request'[r] = "answered" /\ (r \in pending' <=> r \in pending)
         \/ request[r] \in Done /\ request'[r] = "failed" /\ (r \in pending' => r \in pending)
         \/ request'[r] = "timeout" /\ r \notin pending'
         \/ request'[r] = "cancelled"
  BY <1>1 DEF Resume, Timeout, Cancel, pi, Done
<1>3. Registered'
  BY <1>2 DEF Delivery, Registered, Done
<1>4. Once'
  BY <1>2 DEF Delivery, Once
<1>5. Taken'
  BY <1>2 DEF Delivery, Taken, Nowhere
<1> QED
  BY <1>3, <1>4, <1>5 DEF Delivery

(* An answer resolves its own request and is gone; or it moves on.           *)
LEMMA ReadLineKeepsDelivery ==
  ASSUME TypeOK, Delivery, ReadLine
  PROVE  Delivery'
<1>1. /\ stdout \in Seq(Line) /\ stdout # <<>> /\ events \in Seq(Line)
      /\ request \in [Requests -> Phases] /\ pending \subseteq Requests
      /\ stdout' = Tail(stdout) /\ UNCHANGED inbox
  BY DEF ReadLine, TypeOK
<1> DEFINE line == Head(stdout)
<1>2. /\ line \in Line /\ line = stdout[1] /\ 1 \in DOMAIN stdout
      /\ \A i \in DOMAIN stdout' : /\ i + 1 \in DOMAIN stdout /\ stdout'[i] = stdout[i + 1]
                                  /\ i \in Nat /\ i # 0
  BY <1>1, TailFacts
<1>3. \A i, j \in DOMAIN stdout' :
        /\ stdout'[i].type \in Answers /\ stdout'[j].type \in Answers
        /\ stdout'[i].of = stdout'[j].of
        => i = j
  <2>1. SUFFICES ASSUME NEW i \in DOMAIN stdout', NEW j \in DOMAIN stdout',
                        stdout'[i].type \in Answers, stdout'[j].type \in Answers,
                        stdout'[i].of = stdout'[j].of
                 PROVE  i = j
    OBVIOUS
  <2>2. i + 1 = j + 1
    BY <1>2, <2>1 DEF Delivery, Once
  <2> QED
    BY <1>2, <2>2
<1>4. line.type \in Answers =>
        \A i \in DOMAIN stdout' : stdout'[i].type \in Answers => stdout'[i].of # line.of
  BY <1>2 DEF Delivery, Once
<1>5. CASE Resolves(line) # NoRequest
  <2>1. line.type \in Answers /\ line.of \in pending /\ Resolves(line) = line.of
    BY <1>5 DEF Resolves
  <2> DEFINE r == line.of
  <2>2. /\ UNCHANGED events /\ pending' = pending \ {r}
        /\ \A q \in Requests \ {r} : request'[q] = request[q]
        /\ \/ request'[r] = request[r] /\ request[r] # "waiting"
           \/ request'[r] \in {"resolved", "rejected"}
    BY <1>1, <1>5, <2>1 DEF ReadLine
  <2>3. r \in Requests
    BY <1>1, <2>1
  <2>4. /\ \A i \in DOMAIN inbox : inbox[i] # r
        /\ \A i \in DOMAIN events : events[i].type \in Answers => events[i].of # r
    BY <1>2, <2>1 DEF Delivery, Once
  <2>5. request'[r] \notin {"waiting", "new"}
    BY <2>1, <2>2, <2>3 DEF Delivery, Registered
  <2>6. Registered'
    BY <2>2, <2>3, <2>5 DEF Delivery, Registered
  <2>7. Once'
    BY <1>1, <1>2, <1>3, <2>2 DEF Delivery, Once
  <2>8. Taken'
    <3>1. SUFFICES ASSUME NEW q \in Requests,
                          request'[q] \in {"new", "resolved", "rejected", "answered"}
                   PROVE  Nowhere(q)'
      BY DEF Taken
    <3>2. CASE q = r
      BY <1>1, <1>4, <2>1, <2>2, <2>4, <3>2 DEF Nowhere
    <3>3. CASE q # r
      <4>1. Nowhere(q)
        BY <2>2, <3>1, <3>3 DEF Delivery, Taken
      <4> QED
        BY <1>1, <1>2, <2>2, <4>1 DEF Nowhere
    <3> QED
      BY <3>2, <3>3
  <2> QED
    BY <2>6, <2>7, <2>8 DEF Delivery
<1>6. CASE Resolves(line) = NoRequest
  <2>1. events' = Append(events, line) /\ UNCHANGED <<pending, request>>
    BY <1>6 DEF ReadLine
  <2>2. \A i \in DOMAIN events' :
          \/ i \in DOMAIN events /\ events'[i] = events[i]
          \/ i = Len(events) + 1 /\ events'[i] = stdout[1]
    BY <1>1, <1>2, <2>1, AppendFacts
  <2>3. Registered'
    BY <2>1 DEF Delivery, Registered
  <2>4. Once'
    <3>1. \A i \in DOMAIN inbox', j \in DOMAIN stdout' :
            stdout'[j].type \in Answers => stdout'[j].of # inbox'[i]
      BY <1>1, <1>2 DEF Delivery, Once
    <3>2. \A i \in DOMAIN inbox', j \in DOMAIN events' :
            events'[j].type \in Answers => events'[j].of # inbox'[i]
      BY <1>1, <1>2, <2>2 DEF Delivery, Once
    <3>3. \A i \in DOMAIN stdout', j \in DOMAIN events' :
            stdout'[i].type \in Answers /\ events'[j].type \in Answers
              => stdout'[i].of # events'[j].of
      BY <1>2, <1>4, <2>2 DEF Delivery, Once
    <3> QED
      BY <1>1, <1>3, <3>1, <3>2, <3>3 DEF Delivery, Once
  <2>5. Taken'
    BY <1>1, <1>2, <2>1, <2>2 DEF Delivery, Taken, Nowhere
  <2> QED
    BY <2>3, <2>4, <2>5 DEF Delivery
<1> QED
  BY <1>5, <1>6

(* Every step keeps each answer on its way to its caller.                    *)
LEMMA DeliveryKept ==
  ASSUME TypeOK, Delivery, [Next]_vars
  PROVE  Delivery'
<1>1. CASE Start
  BY <1>1, DeliveryStays DEF Start
<1>2. CASE PiEmits
  <2>1. turn.of \in Requests \cup {NoRequest} /\ turn.n + 1 \in Nat
    BY PiRpcAssumption DEF TypeOK
  <2>2. PICK line \in Line : stdout' = Append(stdout, line) /\ line.type \notin Answers
    BY <1>2, <2>1, LinesTyped DEF PiEmits, PiEvent, Settled, Answers
  <2> QED
    BY <1>2, <2>2, PrintKeepsDelivery DEF PiEmits, client
<1>3. CASE PiGarbles
  <2>1. Garbage \in Line /\ Garbage.type \notin Answers
    BY LinesTyped DEF Garbage, Answers
  <2> QED
    BY <1>3, <2>1, PrintKeepsDelivery DEF PiGarbles, client
<1>4. CASE PiExits
  BY <1>4, DeliveryStays DEF PiExits, client
<1>5. CASE Reaped \/ CloseReturns \/ Asked \/ Abandon \/ UNCHANGED vars
  BY <1>5, DeliveryStays DEF Reaped, CloseReturns, Asked, Abandon, pi, client, vars
<1>6. CASE ReadEnds
  <2>1. /\ request \in [Requests -> Phases] /\ events \in Seq(Line)
        /\ EndMarker \in Line /\ EndMarker.type \notin Answers
    BY LinesTyped DEF TypeOK, EndMarker, Answers
  <2>2. /\ UNCHANGED inbox /\ stdout' = <<>> /\ pending' = {}
        /\ events' = Append(events, EndMarker)
        /\ \A r \in Requests : request'[r] = IF r \in pending /\ request[r] = "waiting"
                                             THEN "broken" ELSE request[r]
    BY <1>6 DEF ReadEnds, Marked, Broken
  <2>3. \A i \in DOMAIN events' : \/ i \in DOMAIN events /\ events'[i] = events[i]
                                  \/ events'[i].type \notin Answers
    BY <2>1, <2>2, AppendFacts
  <2> QED
    BY <2>2, <2>3 DEF Delivery, Registered, Once, Taken, Nowhere
<1>7. CASE NextEvent
  <2>1. events \in Seq(Line) /\ events # <<>> /\ events' = Tail(events)
    BY <1>7 DEF NextEvent, TypeOK
  <2>2. \A i \in DOMAIN events' : i + 1 \in DOMAIN events /\ events'[i] = events[i + 1]
    BY <2>1, TailFacts
  <2>3. UNCHANGED <<inbox, stdout, request, pending>>
    BY <1>7 DEF NextEvent, pi
  <2> QED
    BY <2>2, <2>3 DEF Delivery, Registered, Once, Taken, Nowhere
<1>8. ASSUME NEW r \in Requests, Command(r) \/ Ask(r)
      PROVE  Delivery'
  BY <1>8, SendKeepsDelivery DEF Command, Ask
<1> QED
  BY <1>1, <1>2, <1>3, <1>4, <1>5, <1>6, <1>7, <1>8, PiAnswersKeepsDelivery,
     ReadLineKeepsDelivery, LeaveKeepsDelivery DEF Next

-----------------------------------------------------------------------------
(* agent_settled is the last line of its prompt.                             *)
SettledLast(lines) ==
  \A i, j \in Streamed(lines) : i < j => lines[i].type # "agent_settled"

(* The lines reach up to the nth event of a prompt that is not settled.      *)
ReachUpTo(lines, seen, n) ==
  /\ \A i \in Streamed(lines) : lines[i].n <= n /\ lines[i].type # "agent_settled"
  /\ \A k \in (seen + 1)..n : \E i \in Streamed(lines) : lines[i].n = k

(* A streamed line is a line with a number.                                  *)
LEMMA StreamedTyped ==
  ASSUME NEW s \in Seq(Line), NEW i \in Streamed(s)
  PROVE  i \in DOMAIN s /\ i \in Nat /\ i # 0 /\ s[i] \in Line /\ s[i].n \in Nat
<1>1. i \in DOMAIN s
  BY DEF Streamed
<1>2. i \in Nat /\ i # 0 /\ s[i] \in Line
  BY <1>1
<1> QED
  BY <1>1, <1>2 DEF Line

(* Two sequences with the same streamed lines in the same order: f takes a   *)
(* position in t to that in s.                                               *)
Matches(t, s, f) ==
  /\ s \in Seq(Line) /\ t \in Seq(Line)
  /\ f \in [Streamed(t) -> Streamed(s)]
  /\ \A i, j \in Streamed(t) : i < j => f[i] < f[j]
  /\ \A j \in Streamed(s) : \E i \in Streamed(t) : f[i] = j
  /\ \A i \in Streamed(t) : t[i] = s[f[i]]

(* What is said of the streamed lines depends on nothing else in the pipe.   *)
LEMMA SameLines ==
  ASSUME NEW t, NEW s, NEW f, Matches(t, s, f), NEW p, NEW q \in Nat
  PROVE  /\ Continue(s, p, q) => Continue(t, p, q)
         /\ SettledLast(s) => SettledLast(t)
         /\ Streamed(s) = {} => Streamed(t) = {}
         /\ \A n \in Nat : ReachUpTo(s, q, n) => ReachUpTo(t, q, n)
<1>0. /\ f \in [Streamed(t) -> Streamed(s)]
      /\ \A i, j \in Streamed(t) : i < j => f[i] < f[j]
      /\ \A j \in Streamed(s) : \E i \in Streamed(t) : f[i] = j
      /\ \A i \in Streamed(t) : t[i] = s[f[i]]
  BY DEF Matches
<1>1. Continue(s, p, q) => Continue(t, p, q)
  <2>1. SUFFICES ASSUME Continue(s, p, q) PROVE Continue(t, p, q)
    OBVIOUS
  <2>2. \A i \in Streamed(t) : t[i].of = p /\ t[i].n > q
    BY <1>0, <2>1 DEF Continue
  <2>3. \A i, j \in Streamed(t) : i < j => t[i].n < t[j].n
    BY <1>0, <2>1 DEF Continue
  <2>4. ASSUME NEW i \in Streamed(t), NEW k \in (q + 1)..t[i].n
        PROVE  \E j \in Streamed(t) : t[j].n = k
    <3>1. PICK h \in Streamed(s) : s[h].n = k
      BY <1>0, <2>1, <2>4 DEF Continue
    <3>2. PICK j \in Streamed(t) : f[j] = h
      BY <1>0
    <3> QED
      BY <1>0, <3>1, <3>2
  <2> QED
    BY <2>2, <2>3, <2>4 DEF Continue
<1>2. SettledLast(s) => SettledLast(t)
  BY <1>0 DEF SettledLast
<1>3. ASSUME NEW n \in Nat, ReachUpTo(s, q, n)
      PROVE  ReachUpTo(t, q, n)
  <2>1. ASSUME NEW k \in (q + 1)..n
        PROVE  \E j \in Streamed(t) : t[j].n = k
    <3>1. PICK h \in Streamed(s) : s[h].n = k
      BY <1>3 DEF ReachUpTo
    <3>2. PICK j \in Streamed(t) : f[j] = h
      BY <1>0
    <3> QED
      BY <1>0, <3>1, <3>2
  <2>2. \A i \in Streamed(t) : t[i].n <= n /\ t[i].type # "agent_settled"
    BY <1>0, <1>3 DEF ReachUpTo
  <2> QED
    BY <2>1, <2>2 DEF ReachUpTo
<1> QED
  BY <1>0, <1>1, <1>2, <1>3

(* A line that belongs to no stream changes nothing at the end.              *)
LEMMA AppendOther ==
  ASSUME NEW s \in Seq(Line), NEW line \in Line,
         line.type \notin {"event", "agent_settled"},
         NEW t, t = Append(s, line), NEW p, NEW q \in Nat
  PROVE  /\ Continue(s, p, q) => Continue(t, p, q)
         /\ SettledLast(s) => SettledLast(t)
         /\ Streamed(s) = {} => Streamed(t) = {}
         /\ \A n \in Nat : ReachUpTo(s, q, n) => ReachUpTo(t, q, n)
<1> DEFINE f == [i \in Streamed(t) |-> i]
<1>1. t \in Seq(Line) /\ Streamed(t) = Streamed(s) /\ \A i \in Streamed(s) : t[i] = s[i]
  BY AppendFacts DEF Streamed
<1>2. f \in [Streamed(t) -> Streamed(s)]
  BY <1>1
<1>3. \A i \in Streamed(t) : f[i] = i
  OBVIOUS
<1> HIDE DEF f
<1>4. Matches(t, s, f)
  BY <1>1, <1>2, <1>3 DEF Matches
<1> QED
  BY <1>4, SameLines

(* Nor does it when it leaves from the middle, or from the front.            *)
LEMMA DropOther ==
  ASSUME NEW e \in Seq(Line), NEW o \in Seq(Line), o # <<>>,
         Head(o).type \notin {"event", "agent_settled"},
         NEW s, s = e \o o, NEW t, t = e \o Tail(o), NEW p, NEW q \in Nat
  PROVE  /\ Continue(s, p, q) => Continue(t, p, q)
         /\ SettledLast(s) => SettledLast(t)
         /\ Streamed(s) = {} => Streamed(t) = {}
         /\ \A n \in Nat : ReachUpTo(s, q, n) => ReachUpTo(t, q, n)
<1> DEFINE f == [i \in Streamed(t) |-> IF i <= Len(e) THEN i ELSE i + 1]
<1>1. /\ s \in Seq(Line) /\ t \in Seq(Line) /\ Len(t) = Len(s) - 1 /\ Len(e) \in Nat
      /\ Len(s) \in Nat /\ DOMAIN s = 1..Len(s) /\ DOMAIN t = 1..Len(t)
      /\ Len(e) < Len(s)
      /\ s[Len(e) + 1] = Head(o)
      /\ \A i \in DOMAIN t : t[i] = s[IF i <= Len(e) THEN i ELSE i + 1]
  BY SMTT(30)
<1>2. f \in [Streamed(t) -> Streamed(s)]
  <2>1. SUFFICES ASSUME NEW i \in Streamed(t)
                 PROVE  (IF i <= Len(e) THEN i ELSE i + 1) \in Streamed(s)
    OBVIOUS
  <2>2. i \in 1..Len(t) /\ t[i] = s[IF i <= Len(e) THEN i ELSE i + 1]
    BY <1>1 DEF Streamed
  <2>3. (IF i <= Len(e) THEN i ELSE i + 1) \in DOMAIN s
    BY <1>1, <2>2
  <2> QED
    BY <2>1, <2>2, <2>3 DEF Streamed
<1>3. \A i \in Streamed(t) : /\ f[i] = IF i <= Len(e) THEN i ELSE i + 1
                             /\ i \in DOMAIN t
  BY DEF Streamed
<1>4. \A i, j \in Streamed(t) : i < j => f[i] < f[j]
  BY <1>1, <1>3
<1>5. \A j \in Streamed(s) : \E i \in Streamed(t) : f[i] = j
  <2>1. SUFFICES ASSUME NEW j \in Streamed(s) PROVE \E i \in Streamed(t) : f[i] = j
    OBVIOUS
  <2>2. j \in 1..Len(s) /\ j # Len(e) + 1
    BY <1>1 DEF Streamed
  <2>3. CASE j <= Len(e)
    <3>1. j \in DOMAIN t /\ t[j] = s[j]
      BY <1>1, <2>2, <2>3
    <3>2. j \in Streamed(t)
      BY <3>1 DEF Streamed
    <3> QED
      BY <1>3, <2>3, <3>2
  <2>4. CASE j > Len(e) + 1
    <3>1. j - 1 \in Streamed(t)
      BY <1>1, <2>2, <2>4, SMTT(30) DEF Streamed
    <3> QED
      BY <1>1, <1>3, <2>2, <2>4, <3>1
  <2> QED
    BY <1>1, <2>2, <2>3, <2>4
<1>6. \A i \in Streamed(t) : t[i] = s[f[i]]
  BY <1>1, <1>3
<1> HIDE DEF f
<1>7. Matches(t, s, f)
  BY <1>1, <1>2, <1>4, <1>5, <1>6 DEF Matches
<1> QED
  BY <1>7, SameLines

(* The streamed lines among the first of a sequence.                         *)
Prefixed(t, s, e) ==
  /\ \A i \in Streamed(t) : i \in Streamed(s) /\ t[i] = s[i] /\ i \in 1..Len(e)
  /\ \A i \in Streamed(s) : /\ i \in 1..Len(e) => i \in Streamed(t)
                            /\ i \in Nat /\ i # 0 /\ s[i].n \in Nat

(* The marker of the reader cuts off what was not yet read.                  *)
LEMMA MarkerPrefixes ==
  ASSUME NEW e \in Seq(Line), NEW o \in Seq(Line), NEW line \in Line,
         line.type \notin {"event", "agent_settled"}
  PROVE  Prefixed(Append(e, line), e \o o, e)
<1> DEFINE s == e \o o
           t == Append(e, line)
<1>1. /\ s \in Seq(Line) /\ t \in Seq(Line)
      /\ DOMAIN e = 1..Len(e) /\ DOMAIN t = 1..(Len(e) + 1) /\ Len(e) \in Nat
      /\ \A i \in 1..Len(e) : i \in DOMAIN s /\ i \in DOMAIN t /\ s[i] = e[i] /\ t[i] = e[i]
      /\ t[Len(e) + 1] = line
  BY ConcatFacts, AppendFacts
<1> HIDE DEF s, t
<1>2. \A i \in DOMAIN t : i \in 1..Len(e) \/ t[i] = line
  BY <1>1
<1>3. \A i \in Streamed(t) : i \in 1..Len(e)
  BY <1>2 DEF Streamed
<1>4. Prefixed(t, s, e)
  BY <1>1, <1>3, StreamedTyped DEF Streamed, Prefixed
<1> QED
  BY <1>4 DEF s, t

(* What the reader left of the process's output is the beginning of it.      *)
LEMMA CutOff ==
  ASSUME NEW t, NEW s, NEW e, Prefixed(t, s, e), NEW p, NEW q \in Nat
  PROVE  /\ Continue(s, p, q) => Continue(t, p, q)
         /\ SettledLast(s) => SettledLast(t)
         /\ Streamed(s) = {} => Streamed(t) = {}
<1>1. /\ \A i \in Streamed(t) : i \in Streamed(s) /\ t[i] = s[i] /\ i \in 1..Len(e)
      /\ \A i \in Streamed(s) : /\ i \in 1..Len(e) => i \in Streamed(t)
                                /\ i \in Nat /\ i # 0 /\ s[i].n \in Nat
  BY DEF Prefixed
<1>2. ASSUME Continue(s, p, q)
      PROVE  Continue(t, p, q)
  <2>1. ASSUME NEW i \in Streamed(t), NEW k \in (q + 1)..t[i].n
        PROVE  \E j \in Streamed(t) : t[j].n = k
    <3>1. PICK j \in Streamed(s) : s[j].n = k
      BY <1>1, <1>2, <2>1 DEF Continue
    <3>2. ~(i < j)
      <4>1. i < j => s[i].n < s[j].n
        BY <1>1, <1>2 DEF Continue
      <4> QED
        BY <1>1, <2>1, <3>1, <4>1
    <3>3. j \in Streamed(t)
      BY <1>1, <3>2
    <3> QED
      BY <1>1, <3>1, <3>3
  <2>2. \A i \in Streamed(t) : t[i].of = p /\ t[i].n > q
    BY <1>1, <1>2 DEF Continue
  <2>3. \A i, j \in Streamed(t) : i < j => t[i].n < t[j].n
    BY <1>1, <1>2 DEF Continue
  <2> QED
    BY <2>1, <2>2, <2>3 DEF Continue
<1>3. SettledLast(s) => SettledLast(t)
  BY <1>1 DEF SettledLast
<1>4. Streamed(s) = {} => Streamed(t) = {}
  BY <1>1
<1> QED
  BY <1>2, <1>3, <1>4

(* One streamed line more at the end.                                        *)
Extended(t, s, last, line) ==
  /\ Streamed(t) = Streamed(s) \cup {last} /\ last \in Nat /\ t[last] = line
  /\ \A i \in Streamed(s) : t[i] = s[i] /\ i < last /\ i \in Nat /\ s[i].n \in Nat

(* A printed event or settlement is the last streamed line.                  *)
LEMMA AppendExtends ==
  ASSUME NEW s \in Seq(Line), NEW line \in Line,
         line.type \in {"event", "agent_settled"}
  PROVE  Extended(Append(s, line), s, Len(s) + 1, line)
<1> DEFINE t == Append(s, line)
           last == Len(s) + 1
<1>1. /\ DOMAIN t = DOMAIN s \cup {last} /\ t[last] = line
      /\ \A i \in DOMAIN s : t[i] = s[i] /\ i < last
      /\ last \in Nat
  BY AppendFacts
<1> HIDE DEF last, t
<1> QED
  BY <1>1, StreamedTyped DEF Streamed, Extended

(* The next line of the prompt Pi works on.                                  *)
LEMMA NextLineContinues ==
  ASSUME NEW s, NEW t, NEW last, NEW line, Extended(t, s, last, line),
         line.type \in {"event", "agent_settled"},
         NEW q \in Nat, NEW n \in Nat, q <= n, line.n = n + 1,
         Continue(s, line.of, q), ReachUpTo(s, q, n)
  PROVE  /\ Continue(t, line.of, q)
         /\ SettledLast(t)
         /\ line.type = "event" => ReachUpTo(t, q, n + 1)
<1>1. /\ Streamed(t) = Streamed(s) \cup {last} /\ last \in Nat /\ t[last] = line
      /\ \A i \in Streamed(s) : t[i] = s[i] /\ i < last /\ i \in Nat /\ s[i].n \in Nat
  BY DEF Extended
<1>2. \A i \in Streamed(t) : t[i].of = line.of /\ t[i].n > q /\ t[i].n <= n + 1
  BY <1>1 DEF Continue, ReachUpTo
<1>3. \A i, j \in Streamed(t) : i < j => t[i].n < t[j].n
  <2>1. SUFFICES ASSUME NEW i \in Streamed(t), NEW j \in Streamed(t), i < j
                 PROVE  t[i].n < t[j].n
    OBVIOUS
  <2>2. i \in Streamed(s)
    BY <1>1, <2>1
  <2>3. CASE j \in Streamed(s)
    BY <1>1, <2>1, <2>2, <2>3 DEF Continue
  <2>4. CASE j = last
    <3>1. s[i].n <= n
      BY <2>2 DEF ReachUpTo
    <3> QED
      BY <1>1, <2>2, <2>4, <3>1
  <2> QED
    BY <1>1, <2>3, <2>4
<1>4. ASSUME NEW k \in (q + 1)..(n + 1)
      PROVE  \E j \in Streamed(t) : t[j].n = k
  <2>1. CASE k = n + 1
    BY <1>1, <2>1
  <2>2. CASE k # n + 1
    <3>1. k \in (q + 1)..n
      BY <1>4, <2>2
    <3> QED
      BY <1>1, <3>1 DEF ReachUpTo
  <2> QED
    BY <2>1, <2>2
<1>5. \A i \in Streamed(t) : \A k \in (q + 1)..t[i].n : \E j \in Streamed(t) : t[j].n = k
  <2>1. SUFFICES ASSUME NEW i \in Streamed(t), NEW k \in (q + 1)..t[i].n
                 PROVE  \E j \in Streamed(t) : t[j].n = k
    OBVIOUS
  <2>2. t[i].n \in Nat /\ t[i].n <= n + 1
    BY <1>1, <1>2
  <2>3. k \in (q + 1)..(n + 1)
    BY <2>1, <2>2
  <2> QED
    BY <1>4, <2>3
<1>6. SettledLast(t)
  BY <1>1 DEF SettledLast, ReachUpTo
<1>7. line.type = "event" => ReachUpTo(t, q, n + 1)
  BY <1>1, <1>2, <1>4 DEF ReachUpTo
<1> QED
  BY <1>2, <1>3, <1>5, <1>6, <1>7 DEF Continue

(* One line less at the front.                                               *)
Shortened(t, s) ==
  /\ 1 \in Streamed(s)
  /\ \A i \in Streamed(t) : i \in Nat /\ i # 0 /\ i + 1 \in Streamed(s) /\ t[i] = s[i + 1]
  /\ \A i \in Streamed(s) : /\ i \in Nat /\ i # 0 /\ s[i].n \in Nat
                            /\ i # 1 => i - 1 \in Streamed(t) /\ t[i - 1] = s[i]

(* A streamed line that is taken was the first.                              *)
LEMMA TailShortens ==
  ASSUME NEW s \in Seq(Line), s # <<>>, Head(s).type \in {"event", "agent_settled"}
  PROVE  Head(s) = s[1] /\ Shortened(Tail(s), s)
<1> DEFINE t == Tail(s)
<1>1. /\ t \in Seq(Line) /\ 1 \in DOMAIN s /\ Head(s) = s[1]
      /\ \A i \in DOMAIN t : i + 1 \in DOMAIN s /\ t[i] = s[i + 1]
      /\ \A i \in DOMAIN s : i # 1 => i - 1 \in DOMAIN t /\ t[i - 1] = s[i]
  BY TailFacts
<1> HIDE DEF t
<1> QED
  BY <1>1, StreamedTyped DEF Streamed, Shortened

(* The stream takes the first of the lines.                                  *)
LEMMA TakeLine ==
  ASSUME NEW s, NEW t, Shortened(t, s), NEW p, NEW q \in Nat,
         Continue(s, p, q), SettledLast(s)
  PROVE  /\ s[1].of = p /\ s[1].n = q + 1
         /\ Continue(t, p, q + 1)
         /\ SettledLast(t)
         /\ s[1].type = "agent_settled" => Streamed(t) = {}
         /\ \A n \in Nat : ReachUpTo(s, q, n) => q + 1 <= n /\ ReachUpTo(t, q + 1, n)
<1>1. /\ 1 \in Streamed(s)
      /\ \A i \in Streamed(t) : i \in Nat /\ i # 0 /\ i + 1 \in Streamed(s) /\ t[i] = s[i + 1]
      /\ \A i \in Streamed(s) : /\ i \in Nat /\ i # 0 /\ s[i].n \in Nat
                                /\ i # 1 => i - 1 \in Streamed(t) /\ t[i - 1] = s[i]
  BY DEF Shortened
<1>2. s[1].of = p /\ s[1].n > q
  BY <1>1 DEF Continue
<1>3. \A i \in Streamed(s) : i # 1 => s[i].n > s[1].n
  BY <1>1 DEF Continue
<1>4. s[1].n = q + 1
  <2>1. q + 1 \in (q + 1)..s[1].n
    BY <1>1, <1>2
  <2>2. PICK j \in Streamed(s) : s[j].n = q + 1
    BY <1>1, <2>1 DEF Continue
  <2> QED
    BY <1>1, <1>2, <1>3, <2>2
<1>5. \A i \in Streamed(t) : t[i].of = p /\ t[i].n > q + 1
  BY <1>1, <1>3, <1>4 DEF Continue
<1>6. \A i, j \in Streamed(t) : i < j => t[i].n < t[j].n
  <2>1. SUFFICES ASSUME NEW i \in Streamed(t), NEW j \in Streamed(t), i < j
                 PROVE  t[i].n < t[j].n
    OBVIOUS
  <2>2. /\ i + 1 \in Streamed(s) /\ j + 1 \in Streamed(s) /\ i + 1 < j + 1
        /\ t[i] = s[i + 1] /\ t[j] = s[j + 1]
    BY <1>1, <2>1
  <2> QED
    BY <2>2 DEF Continue
<1>7. ASSUME NEW k \in Nat, k > q + 1, \E j \in Streamed(s) : s[j].n = k
      PROVE  \E j \in Streamed(t) : t[j].n = k
  <2>1. PICK j \in Streamed(s) : s[j].n = k
    BY <1>7
  <2>2. j # 1
    BY <1>4, <1>7, <2>1
  <2> QED
    BY <1>1, <2>1, <2>2
<1>8. \A i \in Streamed(t) : \A k \in (q + 1 + 1)..t[i].n : \E j \in Streamed(t) : t[j].n = k
  <2>1. SUFFICES ASSUME NEW i \in Streamed(t), NEW k \in (q + 1 + 1)..t[i].n
                 PROVE  \E j \in Streamed(t) : t[j].n = k
    OBVIOUS
  <2>2. t[i].n = s[i + 1].n /\ i + 1 \in Streamed(s) /\ t[i].n \in Nat
    BY <1>1
  <2>3. k \in (q + 1)..s[i + 1].n /\ k \in Nat /\ k > q + 1
    BY <2>1, <2>2
  <2>4. \E j \in Streamed(s) : s[j].n = k
    BY <2>2, <2>3 DEF Continue
  <2> QED
    BY <1>7, <2>3, <2>4
<1>9. SettledLast(t)
  BY <1>1 DEF SettledLast
<1>10. s[1].type = "agent_settled" => Streamed(t) = {}
  BY <1>1 DEF SettledLast
<1>11. ASSUME NEW n \in Nat, ReachUpTo(s, q, n)
       PROVE  ReachUpTo(t, q + 1, n)
  <2>1. \A k \in (q + 1 + 1)..n : \E j \in Streamed(t) : t[j].n = k
    <3>1. SUFFICES ASSUME NEW k \in (q + 1 + 1)..n PROVE \E j \in Streamed(t) : t[j].n = k
      OBVIOUS
    <3>2. k \in (q + 1)..n /\ k \in Nat /\ k > q + 1
      BY <3>1
    <3> QED
      BY <1>7, <1>11, <3>2 DEF ReachUpTo
  <2>2. \A i \in Streamed(t) : t[i].n <= n /\ t[i].type # "agent_settled"
    BY <1>1, <1>11 DEF ReachUpTo
  <2> QED
    BY <2>1, <2>2 DEF ReachUpTo
<1>12. \A n \in Nat : ReachUpTo(s, q, n) => q + 1 <= n
  BY <1>1, <1>4 DEF ReachUpTo
<1>13. Continue(t, p, q + 1)
  BY <1>5, <1>6, <1>8 DEF Continue
<1> QED
  BY <1>1, <1>2, <1>4, <1>9, <1>10, <1>11, <1>12, <1>13

-----------------------------------------------------------------------------
(* What the reader does to the lines that are coming to the stream.          *)
LEMMA ComingTyped ==
  ASSUME TypeOK
  PROVE  /\ Coming \in Seq(Line)
         /\ reader = "reading" => Coming = events \o stdout
         /\ reader # "reading" => Coming = events
  BY DEF TypeOK, Coming

(* Appending to the second part appends to the whole.                        *)
LEMMA ConcatAppend ==
  ASSUME NEW S, NEW s \in Seq(S), NEW t \in Seq(S), NEW x \in S
  PROVE  s \o Append(t, x) = Append(s \o t, x)
  OBVIOUS

(* A line that moves from the pipe to the queue stays where it was.          *)
LEMMA AppendHead ==
  ASSUME NEW S, NEW s \in Seq(S), NEW t \in Seq(S), t # <<>>
  PROVE  Append(s, Head(t)) \o Tail(t) = s \o t
<1> DEFINE l == Append(s, Head(t)) \o Tail(t)
           r == s \o t
<1>1. Head(t) \in S /\ Tail(t) \in Seq(S) /\ Append(s, Head(t)) \in Seq(S)
  OBVIOUS
<1>2. l \in Seq(S) /\ r \in Seq(S) /\ Len(l) = Len(r)
  BY <1>1
<1>3. \A i \in 1..Len(r) : l[i] = r[i]
  BY <1>1
<1> HIDE DEF l, r
<1>4. l = r
  BY <1>2, <1>3
<1> QED
  BY <1>4 DEF l, r

(* Taking from the queue takes from what is coming.                          *)
LEMMA ConcatTail ==
  ASSUME NEW S, NEW s \in Seq(S), NEW t \in Seq(S), s # <<>>
  PROVE  /\ s \o t # <<>> /\ Head(s \o t) = Head(s)
         /\ Tail(s \o t) = Tail(s) \o t
  OBVIOUS

(* What the process prints will be read, by a reader that still reads.       *)
LEMMA PrintedLineComes ==
  ASSUME TypeOK, NEW line \in Line, stdout' = Append(stdout, line),
         UNCHANGED <<reader, events>>
  PROVE  /\ reader = "reading" => Coming' = Append(Coming, line)
         /\ reader # "reading" => Coming' = Coming
<1>1. stdout \in Seq(Line) /\ events \in Seq(Line)
  BY DEF TypeOK
<1>2. events \o Append(stdout, line) = Append(events \o stdout, line)
  BY <1>1, ConcatAppend
<1> QED
  BY <1>2 DEF Coming

-----------------------------------------------------------------------------
(* Before the first process nothing has been read.                           *)
Unstarted == starts = 0 => process = "none" /\ reader = "none" /\ events = <<>>

(* The marker in the queue is the last thing the reader of the only process  *)
(* put there.                                                                *)
MarkerLast ==
  ~leftover =>
    \A i \in DOMAIN events : events[i].type = "end" =>
      i = Len(events) /\ reader # "reading" /\ events[i].n = starts

(* From the prompt to agent_settled the lines that are coming continue what  *)
(* the stream has seen, and no stream leaves any behind.                     *)
Gapless ==
  ~leftover =>
    /\ stream.phase # "early"
    /\ stream.phase = "asking" => stream.seen = 0
    /\ Streaming => Continue(Coming, stream.prompt, stream.seen) /\ SettledLast(Coming)
    /\ ~Streaming => Streamed(Coming) = {}

(* Pi works on the prompt of the stream, and the lines reach up to where it  *)
(* is.                                                                       *)
Working ==
  ~leftover /\ reader = "reading" /\ turn # NoTurn =>
    /\ Streaming
    /\ turn.of = stream.prompt
    /\ stream.seen <= turn.n
    /\ ReachUpTo(Coming, stream.seen, turn.n)

(* The only prompt Pi has not answered is that of the stream that asks, and  *)
(* nothing of a stream is coming yet.                                        *)
Asking ==
  ~leftover /\ reader = "reading" =>
    \A i \in DOMAIN inbox : inbox[i] \in Prompts =>
      /\ stream.phase = "asking" /\ stream.prompt = inbox[i]
      /\ turn = NoTurn /\ Streamed(Coming) = {}

StreamInv == Unstarted /\ MarkerLast /\ Gapless /\ Working /\ Asking

(* A step that neither streams a line nor takes one, nor brings a prompt.    *)
LEMMA StreamStays ==
  ASSUME TypeOK, StreamInv,
         UNCHANGED <<starts, events, reader, stream, leftover>>,
         process = "none" => process' = "none",
         turn' = turn \/ turn' = NoTurn,
         \/ Coming' = Coming
         \/ \E line \in Line : /\ line.type \notin {"event", "agent_settled"}
                               /\ Coming' = Append(Coming, line),
         \A i \in DOMAIN inbox' : inbox'[i] \in Prompts =>
           \E j \in DOMAIN inbox : inbox[j] = inbox'[i]
  PROVE  StreamInv'
<1>1. stream.seen \in Nat /\ turn.n \in Nat /\ Coming \in Seq(Line)
  BY ComingTyped, PiRpcAssumption DEF TypeOK
<1>2. /\ Continue(Coming, stream.prompt, stream.seen) =>
           Continue(Coming', stream.prompt, stream.seen)
      /\ SettledLast(Coming) => SettledLast(Coming')
      /\ Streamed(Coming) = {} => Streamed(Coming') = {}
      /\ ReachUpTo(Coming, stream.seen, turn.n) => ReachUpTo(Coming', stream.seen, turn.n)
  <2>1. CASE Coming' = Coming
    BY <2>1
  <2>2. CASE Coming' # Coming
    <3>1. PICK line \in Line : /\ line.type \notin {"event", "agent_settled"}
                               /\ Coming' = Append(Coming, line)
      BY <2>2
    <3> QED
      BY <1>1, <3>1, AppendOther
  <2> QED
    BY <2>1, <2>2
<1>3. Unstarted' /\ MarkerLast'
  BY DEF StreamInv, Unstarted, MarkerLast
<1>4. Gapless'
  BY <1>2 DEF StreamInv, Gapless, Streaming
<1>5. Working'
  BY <1>2 DEF StreamInv, Working, Streaming
<1>6. Asking'
  BY <1>2 DEF StreamInv, Asking
<1> QED
  BY <1>3, <1>4, <1>5, <1>6 DEF StreamInv

(* Once a stream was abandoned nothing is claimed.                           *)
LEMMA LeftoverStays ==
  ASSUME leftover', Unstarted'
  PROVE  StreamInv'
  BY DEF StreamInv, MarkerLast, Gapless, Working, Asking

(* A new process finds the streams as they were.                             *)
LEMMA StartKeepsStream ==
  ASSUME TypeOK, StreamInv, Start
  PROVE  StreamInv'
<1>1. starts \in Nat /\ starts' = starts + 1
  BY PiRpcAssumption DEF TypeOK, Start
<1>2. Unstarted'
  BY <1>1 DEF Unstarted
<1>3. CASE starts > 0
  BY <1>2, <1>3, LeftoverStays DEF Start
<1>4. CASE starts = 0
  <2>1. /\ events = <<>> /\ UNCHANGED <<events, stream>> /\ leftover' = leftover
        /\ inbox' = <<>> /\ turn' = NoTurn /\ stdout' = <<>>
    BY <1>4 DEF StreamInv, Unstarted, Start, TypeOK
  <2>2. Coming = <<>> /\ Coming' = <<>>
    BY <1>4, <2>1 DEF Coming, Start, StreamInv, Unstarted
  <2>3. MarkerLast' /\ Working' /\ Asking'
    BY <2>1 DEF MarkerLast, Working, Asking
  <2>4. Gapless'
    BY <2>1, <2>2 DEF StreamInv, Gapless, Streaming
  <2> QED
    BY <1>2, <2>3, <2>4 DEF StreamInv
<1> QED
  BY <1>1, <1>3, <1>4

(* The prompt of a stream: nothing of an earlier one is coming.              *)
LEMMA AskKeepsStream ==
  ASSUME TypeOK, StreamInv, NEW r \in Requests, Ask(r)
  PROVE  StreamInv'
<1>1. /\ ~Streaming /\ r \in Prompts
      /\ stream' = [phase |-> "asking", prompt |-> r, seen |-> 0]
      /\ UNCHANGED <<process, starts, turn, stdout, reader, events, leftover>>
      /\ inbox' = inbox \/ inbox' = Append(inbox, r)
  BY DEF Ask, Send
<1>2. Coming' = Coming
  BY <1>1 DEF Coming
<1>3. Unstarted' /\ MarkerLast'
  BY <1>1 DEF StreamInv, Unstarted, MarkerLast
<1>4. Gapless'
  BY <1>1, <1>2 DEF StreamInv, Gapless, Streaming, Continue, SettledLast
<1>5. Working'
  BY <1>1, <1>2 DEF StreamInv, Working
<1>6. Asking'
  <2>1. inbox \in Seq(Requests)
    BY DEF TypeOK
  <2>2. \A i \in DOMAIN inbox' : \/ i \in DOMAIN inbox /\ inbox'[i] = inbox[i]
                                 \/ inbox'[i] = r
    BY <1>1, <2>1, AppendFacts
  <2>3. ~leftover /\ reader = "reading" =>
          /\ turn = NoTurn /\ Streamed(Coming) = {}
          /\ \A i \in DOMAIN inbox : inbox[i] \notin Prompts
    BY <1>1 DEF StreamInv, Working, Gapless, Asking, Streaming
  <2> QED
    BY <1>1, <1>2, <2>2, <2>3 DEF Asking
<1> QED
  BY <1>3, <1>4, <1>5, <1>6 DEF StreamInv

(* A prompt is accepted when its stream asks, and its events start at one.   *)
LEMMA PiAnswersKeepsStream ==
  ASSUME TypeOK, Delivery, StreamInv, PiAnswers
  PROVE  StreamInv'
<1>1. /\ inbox # <<>> /\ inbox \in Seq(Requests) /\ process = "running"
      /\ inbox' = Tail(inbox)
      /\ UNCHANGED <<process, starts, reader, events, stream, leftover>>
  BY DEF PiAnswers, TypeOK, client
<1> DEFINE r == Head(inbox)
<1>2. /\ r \in Requests /\ 1 \in DOMAIN inbox /\ r = inbox[1]
      /\ \A i \in DOMAIN inbox' : /\ i + 1 \in DOMAIN inbox /\ inbox'[i] = inbox[i + 1]
                                  /\ i + 1 # 1
  BY <1>1, TailFacts
<1>3. PICK line \in Line : /\ stdout' = Append(stdout, line)
                           /\ line.type \notin {"event", "agent_settled"}
  BY <1>2, LinesTyped DEF PiAnswers, Response, Rejection
<1>4. Coming' = Coming \/ Coming' = Append(Coming, line)
  BY <1>1, <1>3, PrintedLineComes
<1>5. CASE turn' = turn
  BY <1>1, <1>2, <1>3, <1>4, <1>5, StreamStays
<1>6. CASE turn' # turn
  <2>1. r \in Prompts /\ turn = NoTurn /\ turn' = [of |-> r, n |-> 0]
    BY <1>6 DEF PiAnswers
  <2>2. Unstarted' /\ MarkerLast'
    BY <1>1 DEF StreamInv, Unstarted, MarkerLast
  <2>3. stream.seen \in Nat /\ Coming \in Seq(Line)
    BY ComingTyped, PiRpcAssumption DEF TypeOK
  <2>4. /\ Continue(Coming, stream.prompt, stream.seen) =>
             Continue(Coming', stream.prompt, stream.seen)
        /\ SettledLast(Coming) => SettledLast(Coming')
        /\ Streamed(Coming) = {} => Streamed(Coming') = {}
    BY <1>3, <1>4, <2>3, AppendOther
  <2>5. Gapless'
    BY <1>1, <2>4 DEF StreamInv, Gapless, Streaming
  <2>6. Working'
    <3>1. ~leftover /\ reader = "reading" =>
            /\ stream.phase = "asking" /\ stream.prompt = r /\ Streamed(Coming) = {}
            /\ stream.seen = 0
      BY <1>2, <2>1 DEF StreamInv, Asking, Gapless
    <3>2. Streamed(Coming) = {} => ReachUpTo(Coming', 0, 0)
      BY <2>4 DEF ReachUpTo
    <3> QED
      BY <1>1, <2>1, <3>1, <3>2 DEF Working, Streaming
  <2>7. Asking'
    <3>1. ~leftover /\ reader = "reading" =>
            \A i \in DOMAIN inbox : inbox[i] \in Prompts => inbox[i] = stream.prompt
      BY DEF StreamInv, Asking
    <3>2. \A i \in DOMAIN inbox : inbox[i] = inbox[1] => i = 1
      BY <1>2 DEF Delivery, Once
    <3>3. ~leftover /\ reader = "reading" => \A i \in DOMAIN inbox' : inbox'[i] \notin Prompts
      BY <1>2, <2>1, <3>1, <3>2
    <3> QED
      BY <1>1, <3>3 DEF Asking
  <2> QED
    BY <2>2, <2>5, <2>6, <2>7 DEF StreamInv
<1> QED
  BY <1>5, <1>6

(* The next event, and the last.                                             *)
LEMMA PiEmitsKeepsStream ==
  ASSUME TypeOK, StreamInv, PiEmits
  PROVE  StreamInv'
<1>1. /\ process = "running" /\ turn # NoTurn
      /\ UNCHANGED <<process, starts, inbox, reader, events, stream, leftover>>
  BY DEF PiEmits, client
<1>2. /\ turn.of \in Requests \cup {NoRequest} /\ turn.n \in Nat /\ turn.n + 1 \in Nat
      /\ stream.seen \in Nat /\ Coming \in Seq(Line)
  BY ComingTyped, PiRpcAssumption DEF TypeOK
<1>3. PICK line \in Line :
        /\ stdout' = Append(stdout, line)
        /\ line.of = turn.of /\ line.n = turn.n + 1
        /\ \/ line.type = "event" /\ turn'.of = turn.of /\ turn'.n = turn.n + 1
           \/ line.type = "agent_settled" /\ turn' = NoTurn
  <2>1. CASE /\ turn' = [turn EXCEPT !.n = @ + 1]
             /\ stdout' = Append(stdout, PiEvent(turn.of, turn.n + 1))
    <3>1. turn'.of = turn.of /\ turn'.n = turn.n + 1
      BY <2>1 DEF TypeOK
    <3> QED
      BY <1>2, <2>1, <3>1, LinesTyped DEF PiEvent
  <2>2. CASE /\ turn' = NoTurn
             /\ stdout' = Append(stdout, Settled(turn.of, turn.n + 1))
    BY <1>2, <2>2, LinesTyped DEF Settled
  <2> QED
    BY <2>1, <2>2 DEF PiEmits
<1>4. /\ reader = "reading" => Coming' = Append(Coming, line)
      /\ reader # "reading" => Coming' = Coming
  BY <1>1, <1>3, PrintedLineComes
<1>5. ~leftover /\ reader = "reading" =>
        /\ Streaming /\ turn.of = stream.prompt /\ stream.seen <= turn.n
        /\ ReachUpTo(Coming, stream.seen, turn.n)
        /\ Continue(Coming, stream.prompt, stream.seen)
  BY <1>1 DEF StreamInv, Working, Gapless
<1>6. ~leftover /\ reader = "reading" =>
        /\ Continue(Coming', stream.prompt, stream.seen) /\ SettledLast(Coming')
        /\ line.type = "event" => ReachUpTo(Coming', stream.seen, turn.n + 1)
  <2>1. SUFFICES ASSUME ~leftover, reader = "reading"
                 PROVE  /\ Continue(Coming', stream.prompt, stream.seen) /\ SettledLast(Coming')
                        /\ line.type = "event" =>
                             ReachUpTo(Coming', stream.seen, turn.n + 1)
    OBVIOUS
  <2>2. Extended(Coming', Coming, Len(Coming) + 1, line)
    BY <1>2, <1>3, <1>4, <2>1, AppendExtends
  <2> QED
    BY <1>2, <1>3, <1>5, <2>1, <2>2, NextLineContinues
<1>7. Unstarted' /\ MarkerLast'
  BY <1>1 DEF StreamInv, Unstarted, MarkerLast
<1>8. Gapless'
  BY <1>1, <1>4, <1>5, <1>6 DEF StreamInv, Gapless, Streaming
<1>9. Working'
  BY <1>1, <1>2, <1>3, <1>5, <1>6 DEF Working, Streaming
<1>10. Asking'
  BY <1>1 DEF StreamInv, Asking
<1> QED
  BY <1>7, <1>8, <1>9, <1>10 DEF StreamInv

(* An answer leaves the lines that are coming, any other line moves on.      *)
LEMMA ReadLineKeepsStream ==
  ASSUME TypeOK, Numbered, StreamInv, ReadLine
  PROVE  StreamInv'
<1>1. /\ reader = "reading" /\ stdout # <<>> /\ stdout \in Seq(Line) /\ events \in Seq(Line)
      /\ stdout' = Tail(stdout)
      /\ UNCHANGED <<process, starts, inbox, turn, reader, stream, leftover>>
      /\ stream.seen \in Nat /\ turn.n \in Nat
  BY PiRpcAssumption DEF ReadLine, TypeOK
<1>2. Coming = events \o stdout /\ Coming' = events' \o Tail(stdout)
  BY <1>1 DEF Coming
<1>3. /\ Unstarted'
      /\ Head(stdout).type # "end" /\ Head(stdout) \in Line
  <2>1. Head(stdout) = stdout[1] /\ 1 \in DOMAIN stdout /\ Head(stdout) \in Line
    BY <1>1, TailFacts
  <2> QED
    BY <1>1, <2>1 DEF StreamInv, Unstarted, Numbered
<1>4. /\ Continue(Coming, stream.prompt, stream.seen) =>
           Continue(Coming', stream.prompt, stream.seen)
      /\ SettledLast(Coming) => SettledLast(Coming')
      /\ Streamed(Coming) = {} => Streamed(Coming') = {}
      /\ ReachUpTo(Coming, stream.seen, turn.n) => ReachUpTo(Coming', stream.seen, turn.n)
  <2>1. CASE Resolves(Head(stdout)) # NoRequest
    <3>1. events' = events /\ Head(stdout).type \notin {"event", "agent_settled"}
      BY <2>1 DEF ReadLine, Resolves, Answers
    <3> QED
      BY <1>1, <1>2, <3>1, DropOther
  <2>2. CASE Resolves(Head(stdout)) = NoRequest
    <3>1. events' = Append(events, Head(stdout))
      BY <2>2 DEF ReadLine
    <3>2. Coming' = Coming
      BY <1>1, <1>2, <3>1, AppendHead
    <3> QED
      BY <3>2
  <2> QED
    BY <2>1, <2>2
<1>5. MarkerLast'
  <2>1. \A i \in DOMAIN events' : \/ i \in DOMAIN events /\ events'[i] = events[i]
                                  \/ events'[i].type # "end"
    <3>1. events' = events \/ events' = Append(events, Head(stdout))
      BY DEF ReadLine
    <3> QED
      BY <1>1, <1>3, <3>1, AppendFacts, SMTT(30)
  <2> QED
    BY <1>1, <2>1 DEF StreamInv, MarkerLast
<1>6. Gapless' /\ Working' /\ Asking'
  BY <1>1, <1>4 DEF StreamInv, Gapless, Working, Asking, Streaming
<1> QED
  BY <1>3, <1>5, <1>6 DEF StreamInv

(* The end of stdout or a line that is none: what was read stays, and the    *)
(* marker follows it.                                                        *)
LEMMA ReadEndsKeepsStream ==
  ASSUME TypeOK, StreamInv, ReadEnds
  PROVE  StreamInv'
<1>1. /\ reader = "reading" /\ reader' = "done"
      /\ stdout \in Seq(Line) /\ events \in Seq(Line)
      /\ events' = Append(events, EndMarker)
      /\ UNCHANGED <<process, starts, stream, leftover>>
      /\ stream.seen \in Nat /\ starts \in Nat
  BY PiRpcAssumption DEF ReadEnds, Marked, TypeOK
<1>2. Coming = events \o stdout /\ Coming' = Append(events, EndMarker)
  BY <1>1 DEF Coming
<1>3. /\ EndMarker \in Line /\ EndMarker.type = "end" /\ EndMarker.n = starts
      /\ EndMarker.type \notin {"event", "agent_settled"}
  BY <1>1, LinesTyped DEF EndMarker
<1>4. /\ Continue(Coming, stream.prompt, stream.seen) =>
           Continue(Coming', stream.prompt, stream.seen)
      /\ SettledLast(Coming) => SettledLast(Coming')
      /\ Streamed(Coming) = {} => Streamed(Coming') = {}
  <2>1. Prefixed(Append(events, EndMarker), events \o stdout, events)
    BY <1>1, <1>3, MarkerPrefixes
  <2>2. Prefixed(Coming', Coming, events)
    BY <1>2, <2>1
  <2> QED
    BY <1>1, <2>2, CutOff
<1>5. Unstarted'
  BY <1>1 DEF StreamInv, Unstarted
<1>6. MarkerLast'
  <2>1. /\ Len(events') = Len(events) + 1
        /\ \A i \in DOMAIN events' : \/ i \in DOMAIN events /\ events'[i] = events[i]
                                     \/ i = Len(events) + 1 /\ events'[i] = EndMarker
    BY <1>1, <1>3, AppendFacts
  <2>2. ~leftover => \A i \in DOMAIN events : events[i].type # "end"
    BY <1>1 DEF StreamInv, MarkerLast
  <2> QED
    BY <1>1, <1>3, <2>1, <2>2 DEF MarkerLast
<1>7. Gapless'
  BY <1>1, <1>4 DEF StreamInv, Gapless, Streaming
<1>8. Working' /\ Asking'
  BY <1>1 DEF Working, Asking
<1> QED
  BY <1>5, <1>6, <1>7, <1>8 DEF StreamInv

(* The stream opens when its prompt was answered, which is then no longer on *)
(* its way to Pi.                                                            *)
LEMMA AskedKeepsStream ==
  ASSUME TypeOK, Delivery, StreamInv, Asked
  PROVE  StreamInv'
<1>1. /\ stream.phase = "asking"
      /\ UNCHANGED <<process, starts, inbox, turn, stdout, reader, events>>
  BY DEF Asked, pi, client
<1>2. Unstarted'
  BY <1>1 DEF StreamInv, Unstarted
<1>3. CASE leftover'
  BY <1>2, <1>3, LeftoverStays
<1>4. CASE ~leftover'
  <2>1. ~leftover /\ request[stream.prompt] = "answered"
    BY <1>4 DEF Asked
  <2>2. /\ stream'.phase = "open" /\ stream'.prompt = stream.prompt
        /\ stream'.seen = stream.seen
    BY <2>1 DEF Asked, TypeOK
  <2>3. Coming' = Coming
    BY <1>1 DEF Coming
  <2>4. MarkerLast' /\ Gapless' /\ Working'
    BY <1>1, <2>1, <2>2, <2>3
    DEF StreamInv, MarkerLast, Gapless, Working, Streaming
  <2>5. Asking'
    <3>1. \A i \in DOMAIN inbox : inbox[i] # stream.prompt
      <4>1. CASE stream.prompt \in Requests
        BY <2>1, <4>1 DEF Delivery, Taken, Nowhere
      <4>2. CASE stream.prompt \notin Requests
        <5>1. \A i \in DOMAIN inbox : inbox[i] \in Requests
          BY DEF TypeOK
        <5> QED
          BY <4>2, <5>1
      <4> QED
        BY <4>1, <4>2
    <3> QED
      BY <1>1, <2>1, <3>1 DEF StreamInv, Asking
  <2> QED
    BY <1>2, <2>4, <2>5 DEF StreamInv
<1> QED
  BY <1>3, <1>4

(* The stream takes the next line: its own next event, its end, or a line    *)
(* that is none of a stream's.                                               *)
LEMMA NextEventKeepsStream ==
  ASSUME TypeOK, StreamInv, NextEvent
  PROVE  StreamInv'
<1>1. /\ stream.phase = "open" /\ events # <<>> /\ events \in Seq(Line) /\ stdout \in Seq(Line)
      /\ events' = Tail(events) /\ stream' = StreamAfter(Head(events))
      /\ UNCHANGED <<process, starts, inbox, turn, stdout, reader, leftover>>
      /\ stream.seen \in Nat /\ turn.n \in Nat
  BY PiRpcAssumption DEF NextEvent, TypeOK, pi
<1>2. Unstarted'
  BY <1>1 DEF StreamInv, Unstarted
<1>3. CASE leftover
  BY <1>1, <1>2, <1>3, LeftoverStays
<1>4. CASE ~leftover
  <2>1. /\ 1 \in DOMAIN events /\ Head(events) = events[1]
        /\ Len(events') = Len(events) - 1
        /\ \A i \in DOMAIN events' : i + 1 \in DOMAIN events /\ events'[i] = events[i + 1]
    BY <1>1, TailFacts
  <2>2. /\ Coming \in Seq(Line) /\ Coming # <<>>
        /\ Head(Coming) = Head(events) /\ Coming' = Tail(Coming)
    <3>1. /\ events \o stdout # <<>> /\ Head(events \o stdout) = Head(events)
          /\ Tail(events \o stdout) = Tail(events) \o stdout
      BY <1>1, ConcatTail
    <3>2. /\ Coming \in Seq(Line)
          /\ reader = "reading" => Coming = events \o stdout /\ Coming' = events' \o stdout
          /\ reader # "reading" => Coming = events /\ Coming' = events'
      BY <1>1, ComingTyped DEF Coming
    <3> QED
      BY <1>1, <3>1, <3>2
  <2>3. MarkerLast'
    <3>1. \A i \in DOMAIN events' : i + 1 = Len(events) => i = Len(events')
      BY <1>1, <2>1
    <3> QED
      BY <1>1, <1>4, <2>1, <3>1 DEF StreamInv, MarkerLast
  <2>4. Continue(Coming, stream.prompt, stream.seen) /\ SettledLast(Coming)
    BY <1>1, <1>4 DEF StreamInv, Gapless, Streaming
  <2>5. Asking'
    <3>1. reader = "reading" => \A i \in DOMAIN inbox : inbox[i] \notin Prompts
      BY <1>1, <1>4 DEF StreamInv, Asking
    <3> QED
      BY <1>1, <3>1 DEF Asking
  <2>6. CASE Head(events).type \in {"event", "agent_settled"}
    <3>1. Head(Coming) = Coming[1] /\ Shortened(Coming', Coming)
      BY <2>2, <2>6, TailShortens
    <3>2. /\ Head(events).of = stream.prompt /\ Head(events).n = stream.seen + 1
          /\ Continue(Coming', stream.prompt, stream.seen + 1)
          /\ SettledLast(Coming')
          /\ Head(events).type = "agent_settled" => Streamed(Coming') = {}
          /\ ReachUpTo(Coming, stream.seen, turn.n) =>
               stream.seen + 1 <= turn.n /\ ReachUpTo(Coming', stream.seen + 1, turn.n)
      BY <1>1, <2>2, <2>4, <3>1, TakeLine, SMTT(30)
    <3>3. CASE Head(events).type = "event"
      <4>1. /\ stream'.phase = "open" /\ stream'.prompt = stream.prompt
            /\ stream'.seen = stream.seen + 1
        BY <1>1, <3>2, <3>3 DEF StreamAfter, TypeOK
      <4>2. Gapless'
        BY <3>2, <4>1 DEF Gapless, Streaming
      <4>3. Working'
        BY <1>1, <1>4, <3>2, <4>1 DEF StreamInv, Working, Streaming
      <4> QED
        BY <1>2, <2>3, <2>5, <4>2, <4>3 DEF StreamInv
    <3>4. CASE Head(events).type = "agent_settled"
      <4>1. stream'.phase = "settled"
        BY <1>1, <3>2, <3>4 DEF StreamAfter, TypeOK
      <4>2. Gapless'
        BY <3>2, <3>4, <4>1 DEF Gapless, Streaming
      <4>3. reader = "reading" => turn = NoTurn
        <5>1. 1 \in Streamed(Coming) /\ Coming[1].type = "agent_settled"
          BY <2>2, <3>1, <3>4 DEF Shortened
        <5> QED
          BY <1>4, <5>1 DEF StreamInv, Working, ReachUpTo
      <4>4. Working'
        BY <1>1, <4>3 DEF Working
      <4> QED
        BY <1>2, <2>3, <2>5, <4>2, <4>4 DEF StreamInv
    <3> QED
      BY <2>6, <3>3, <3>4
  <2>7. CASE Head(events).type = "end"
    <3>1. reader # "reading" /\ Len(events) = 1 /\ Head(events).n = starts
      BY <1>4, <2>1, <2>7 DEF StreamInv, MarkerLast
    <3>2. stream'.phase = "exited"
      BY <1>1, <2>7, <3>1 DEF StreamAfter, TypeOK
    <3>3. Coming' = <<>>
      BY <1>1, <3>1 DEF Coming
    <3>4. Gapless'
      BY <3>2, <3>3 DEF Gapless, Streaming, Streamed
    <3>5. Working'
      BY <1>1, <3>1 DEF Working
    <3> QED
      BY <1>2, <2>3, <2>5, <3>4, <3>5 DEF StreamInv
  <2>8. CASE Head(events).type \notin {"event", "agent_settled", "end"}
    <3>1. stream' = stream
      BY <1>1, <2>8 DEF StreamAfter
    <3>2. /\ Coming = <<>> \o Coming /\ Coming' = <<>> \o Tail(Coming)
          /\ <<>> \in Seq(Line)
      BY <2>2
    <3>3. /\ Continue(Coming', stream.prompt, stream.seen) /\ SettledLast(Coming')
          /\ ReachUpTo(Coming, stream.seen, turn.n) =>
               ReachUpTo(Coming', stream.seen, turn.n)
      BY <1>1, <2>2, <2>4, <2>8, <3>2, DropOther
    <3>4. Gapless'
      BY <1>1, <1>4, <3>1, <3>3 DEF StreamInv, Gapless, Streaming
    <3>5. Working'
      BY <1>1, <1>4, <3>1, <3>3 DEF StreamInv, Working, Streaming
    <3> QED
      BY <1>2, <2>3, <2>5, <3>4, <3>5 DEF StreamInv
  <2> QED
    BY <2>6, <2>7, <2>8
<1> QED
  BY <1>3, <1>4

-----------------------------------------------------------------------------
(* Every step keeps the lines of the stream in order and without a gap.      *)
LEMMA StreamKept ==
  ASSUME TypeOK, Numbered, Delivery, StreamInv, [Next]_vars
  PROVE  StreamInv'
<1>1. CASE PiGarbles
  <2>1. /\ Garbage \in Line /\ Garbage.type \notin {"event", "agent_settled"}
        /\ stdout' = Append(stdout, Garbage)
        /\ UNCHANGED <<process, starts, inbox, turn, reader, events, stream, leftover>>
    BY <1>1, LinesTyped DEF PiGarbles, Garbage, client
  <2>2. Coming' = Coming \/ Coming' = Append(Coming, Garbage)
    BY <2>1, PrintedLineComes
  <2> QED
    BY <2>1, <2>2, StreamStays
<1>2. CASE PiExits
  <2>1. /\ inbox' = <<>> /\ turn' = NoTurn /\ process # "none"
        /\ UNCHANGED <<starts, stdout, reader, events, stream, leftover>>
    BY <1>2 DEF PiExits, client
  <2>2. Coming' = Coming
    BY <2>1 DEF Coming
  <2> QED
    BY <2>1, <2>2, StreamStays
<1>3. CASE \/ Reaped \/ CloseReturns \/ UNCHANGED vars
           \/ \E r \in Requests : Resume(r) \/ Timeout(r) \/ Cancel(r)
  <2>1. /\ UNCHANGED <<starts, inbox, turn, stdout, reader, events, stream, leftover>>
        /\ process = "none" => process' = "none"
    BY <1>3 DEF Reaped, CloseReturns, vars, Resume, Timeout, Cancel, pi, client
  <2>2. Coming' = Coming
    BY <2>1 DEF Coming
  <2> QED
    BY <2>1, <2>2, StreamStays
<1>4. ASSUME NEW r \in Requests, Command(r)
      PROVE  StreamInv'
  <2>1. /\ r \notin Prompts
        /\ inbox' = inbox \/ inbox' = Append(inbox, r)
        /\ UNCHANGED <<process, starts, turn, stdout, reader, events, stream, leftover>>
    BY <1>4 DEF Command, Send
  <2>2. Coming' = Coming
    BY <2>1 DEF Coming
  <2>3. \A i \in DOMAIN inbox' : inbox'[i] \in Prompts =>
          \E j \in DOMAIN inbox : inbox[j] = inbox'[i]
    <3>1. inbox \in Seq(Requests)
      BY DEF TypeOK
    <3> QED
      BY <2>1, <3>1, AppendFacts
  <2> QED
    BY <2>1, <2>2, <2>3, StreamStays
<1>5. CASE Abandon
  <2>1. leftover' /\ UNCHANGED <<process, starts, reader, events>>
    BY <1>5 DEF Abandon, client
  <2>2. Unstarted'
    BY <2>1 DEF StreamInv, Unstarted
  <2> QED
    BY <2>1, <2>2, LeftoverStays
<1> QED
  BY <1>1, <1>2, <1>3, <1>4, <1>5, StartKeepsStream, AskKeepsStream,
     PiAnswersKeepsStream, PiEmitsKeepsStream, ReadLineKeepsStream,
     ReadEndsKeepsStream, AskedKeepsStream, NextEventKeepsStream DEF Next

Inv == TypeOK /\ Numbered /\ Delivery /\ StreamInv

(* The invariant holds before the first start.                               *)
LEMMA InvInitially == Init => Inv
<1> SUFFICES ASSUME Init PROVE Inv
  OBVIOUS
<1> USE DEF Init
<1>1. TypeOK
  <2>1. /\ 0 \in 0..MaxStarts /\ 0 \in 0..MaxFaults /\ 0 \in 0..MaxEvents
    BY PiRpcAssumption
  <2>2. request \in [Requests -> Phases] /\ pending \subseteq Requests
    BY DEF Phases
  <2>3. turn \in [of: Requests \cup {NoRequest}, n: 0..MaxEvents]
    BY <2>1 DEF NoTurn
  <2>4. stream \in [phase: {"idle", "asking", "open", "settled", "exited", "early"},
                    prompt: Requests \cup {NoRequest}, seen: 0..MaxEvents]
    BY <2>1 DEF NoStream
  <2> QED
    <3>1. inbox \in Seq(Requests) /\ stdout \in Seq(Line) /\ events \in Seq(Line)
      OBVIOUS
    <3> QED
      BY <2>1, <2>2, <2>3, <2>4, <3>1 DEF TypeOK
<1>2. Numbered /\ Delivery
  BY DEF Numbered, Delivery, Registered, Once, Taken, Nowhere
<1>3. StreamInv
  <2>1. Coming = <<>>
    BY DEF Coming
  <2> QED
    BY <2>1 DEF StreamInv, Unstarted, MarkerLast, Gapless, Working, Asking,
                NoStream, Streaming, Streamed
<1> QED
  BY <1>1, <1>2, <1>3 DEF Inv

(* The inductive invariant: the types, the bounds of the lines, the way of a *)
(* request to Pi and of its answer back, and that of the events.             *)
THEOREM InvariantHolds == Spec => []Inv
<1>1. Inv /\ [Next]_vars => Inv'
  BY TypesKept, DeliveryKept, StreamKept DEF Inv
<1> QED
  BY <1>1, InvInitially, PTL DEF Spec

(* Every variable of PiRpcClient and of stream() keeps its type, within the  *)
(* bounds of the faults, the events and the processes.                       *)
THEOREM TypesHold == Spec => []TypeOK
<1>1. Inv => TypeOK
  BY DEF Inv
<1> QED
  BY <1>1, InvariantHolds, PTL

(* A call of request() that waits can still be woken, nothing stays in       *)
(* _pending but for cancelled calls, and an answer reaches the call whose    *)
(* command it answers, only once: for any number of calls at a time, and     *)
(* whatever times out, is cancelled, or dies meanwhile.                      *)
THEOREM CallersGetTheirAnswers == Spec => []CallersAreAnswered
<1>1. Inv => CallersAreAnswered
  <2>1. SUFFICES ASSUME Inv, NEW r \in Requests
                 PROVE  /\ request[r] = "waiting" => r \in pending
                        /\ r \in pending => request[r] \in {"waiting", "cancelled"}
                        /\ request[r] \in {"resolved", "rejected", "answered"} =>
                             /\ \A i \in DOMAIN inbox : inbox[i] # r
                             /\ \A line \in ToSet(events \o stdout) :
                                  ~(line.type \in Answers /\ line.of = r)
    BY DEF CallersAreAnswered
  <2>2. request[r] \in {"resolved", "rejected", "answered"} => Nowhere(r)
    BY <2>1 DEF Inv, Delivery, Taken
  <2>3. Nowhere(r) => \A line \in ToSet(events \o stdout) :
                        ~(line.type \in Answers /\ line.of = r)
    <3>1. events \in Seq(Line) /\ stdout \in Seq(Line)
      BY <2>1 DEF Inv, TypeOK
    <3>2. \A i \in DOMAIN (events \o stdout) :
            \/ \E j \in DOMAIN events : (events \o stdout)[i] = events[j]
            \/ \E j \in DOMAIN stdout : (events \o stdout)[i] = stdout[j]
      BY <3>1
    <3> HIDE <3>1
    <3> QED
      BY <3>2 DEF Nowhere, ToSet
  <2> QED
    BY <2>1, <2>2, <2>3 DEF Inv, Delivery, Registered, Nowhere
<1> QED
  BY <1>1, InvariantHolds, PTL

(* While no stream was abandoned and Pi was started once, stream() yields    *)
(* every event of its prompt, in order, and takes the end of no other prompt *)
(* for its own: for any number of prompts, one after the other, of events,   *)
(* and of commands beside them.                                              *)
THEOREM SoleStreamsAreComplete == Spec => []SoleStreamIsComplete
<1>1. Inv => SoleStreamIsComplete
  BY DEF Inv, StreamInv, Gapless, SoleStreamIsComplete, Streaming
<1> QED
  BY <1>1, InvariantHolds, PTL

=============================================================================
