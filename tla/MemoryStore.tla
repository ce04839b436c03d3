---------------------------- MODULE MemoryStore ----------------------------
(*****************************************************************************)
(* The long-term memory table of memory/repository.py and the operations     *)
(* that reach it: the agent's save_memory tool (memory/tools.py) and the     *)
(* reviewer's confirm, reject and supersede endpoints (api.py).              *)
(*                                                                           *)
(* Each handler is one step: it runs synchronous SQLite calls between two    *)
(* awaits of a single asyncio thread, and commits one transaction.  Text,    *)
(* evidence, confidence and timestamps are abstracted away: no property      *)
(* depends on them.  A handler that raises changes nothing, so it is the     *)
(* absence of a step.                                                        *)
(*****************************************************************************)
EXTENDS FiniteSets

CONSTANTS
  Memories,  \* the memory ids the run may use: uuid4() never repeats one
  Kinds,     \* MemoryKind
  Sessions,  \* ids of the sessions that own session and branch memories
  NoSession, \* source_session_id IS NULL
  NoMemory,  \* superseded_by_id IS NULL
  Migrated   \* ids of the rows a database written by an older version holds

ASSUME MemoryAssumption ==
  /\ NoSession \notin Sessions
  /\ NoMemory \notin Memories
  /\ Migrated \subseteq Memories /\ IsFiniteSet(Migrated)

VARIABLE memories  \* the table: a function from the ids stored to their rows

Scopes == {"global", "session", "branch"}
Statuses == {"candidate", "confirmed", "rejected", "superseded"}

Memory == [kind: Kinds, scope: Scopes, status: Statuses,
           source_session_id: Sessions \cup {NoSession},
           superseded_by_id: Memories \cup {NoMemory}]

Stored == DOMAIN memories
Superseded == {m \in Stored : memories[m].status = "superseded"}

TypeOK == /\ Stored \subseteq Memories
          /\ memories \in [Stored -> Memory]

-----------------------------------------------------------------------------
(* _initialize adds superseded_by_id to an existing table: the rows found    *)
(* there may have any status, "superseded" included, and none has a          *)
(* replacement.                                                              *)
Init == memories \in [Migrated -> {r \in Memory : r.superseded_by_id = NoMemory}]

(* save: a scope other than global needs a runtime context that names the    *)
(* session.  The evidence is verified against the paper store before this;   *)
(* a quote that is not there raises and nothing is stored.                   *)
ContextAllows(scope, session) == scope # "global" => session # NoSession


\* fault: two columns of the INSERT are swapped
CreateCandidateSwapped(m, kind, scope, session) ==
  /\ m \in Memories \ Stored
  /\ ContextAllows(scope, session)
  /\ memories' = [x \in Stored \cup {m} |->
                    IF x = m
                    THEN [kind |-> kind, scope |-> scope, status |-> "candidate",
                          source_session_id |-> NoMemory,
                          superseded_by_id |-> session]
                    ELSE memories[x]]

CreateCandidate(m, kind, scope, session) ==
  /\ m \in Memories \ Stored
  /\ ContextAllows(scope, session)
  /\ memories' = [x \in Stored \cup {m} |->
                    IF x = m
                    THEN [kind |-> kind, scope |-> scope, status |-> "candidate",
                          source_session_id |-> session,
                          superseded_by_id |-> NoMemory]
                    ELSE memories[x]]

(* set_status, as confirm_memory and reject_memory call it.                  *)

\* fault: a superseded row may be reviewed again
SetStatusUnguarded(m, status) ==
  /\ m \in Stored
  /\ memories' = [memories EXCEPT ![m].status = status]

SetStatus(m, status) ==
  /\ m \in Stored
  /\ memories[m].status # "superseded"
  /\ memories' = [memories EXCEPT ![m].status = status]

(* The checks supersede makes on the two rows it loads.                      *)

\* fault: no check of the replacement's status
MaySupersedeByAny(m, r) ==
  /\ memories[m].status = "confirmed"
  /\ memories[m].kind = memories[r].kind
  /\ memories[m].scope = memories[r].scope
  /\ memories[m].source_session_id = memories[r].source_session_id

MaySupersede(m, r) ==
  LET source == memories[m]
      replacement == memories[r]
  IN /\ source.status = "confirmed"
     /\ replacement.status = "confirmed"
     /\ source.kind = replacement.kind
     /\ source.scope = replacement.scope
     /\ source.scope # "global" =>
          source.source_session_id = replacement.source_session_id

(* supersede.  Its idempotent early return, the same replacement a second    *)
(* time, changes nothing and is no step.                                     *)
Supersede(m, r) ==
  /\ m # r
  /\ m \in Stored /\ r \in Stored
  /\ MaySupersede(m, r)
  /\ memories' = [memories EXCEPT ![m].status = "superseded",
                                  ![m].superseded_by_id = r]

Next ==
  \/ \E m \in Memories, k \in Kinds, sc \in Scopes, s \in Sessions \cup {NoSession} :
       CreateCandidate(m, k, sc, s)
  \/ \E m \in Memories, status \in {"confirmed", "rejected"} : SetStatus(m, status)
  \/ \E m, r \in Memories : Supersede(m, r)

Spec == Init /\ [][Next]_memories

-----------------------------------------------------------------------------
(* A row names a replacement only once it is superseded, and then a stored   *)
(* one: no dangling or premature audit link.                                 *)
LinksAreSound ==
  \A m \in Stored : memories[m].superseded_by_id # NoMemory =>
    /\ memories[m].status = "superseded"
    /\ memories[m].superseded_by_id \in Stored \ {m}

(* Supersession never crosses a trust boundary, at any later time either:    *)
(* a memory and its replacement have one kind, one scope and, unless         *)
(* global, one owning session (SUPERSEDE-002).                               *)
TrustBoundary ==
  \A m \in Stored : memories[m].superseded_by_id # NoMemory =>
    LET r == memories[m].superseded_by_id
    IN /\ r \in Stored
       /\ memories[m].kind = memories[r].kind
       /\ memories[m].scope = memories[r].scope
       /\ memories[m].scope # "global" =>
            memories[m].source_session_id = memories[r].source_session_id

(* No cycle of replacements (SUPERSEDE-004): however supersede calls are     *)
(* ordered, every set of memories has a member whose replacement, if any,    *)
(* is outside the set, so the audit trail of a memory ends.                  *)
Acyclic ==
  \A S \in SUBSET Stored : S # {} =>
    \E m \in S : memories[m].superseded_by_id \notin S

(* A reviewed memory is never a candidate again, and a superseded one keeps  *)
(* its status and its replacement for ever: a late confirm or reject of a    *)
(* memory already replaced must not bring it back to recall.                 *)
ReviewIsFinal ==
  [][\A m \in Stored :
       /\ m \in DOMAIN memories'
       /\ memories[m].status # "candidate" => memories'[m].status # "candidate"
       /\ m \in Superseded => memories'[m] = memories[m]]_memories
=============================================================================
