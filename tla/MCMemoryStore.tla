--------------------------- MODULE MCMemoryStore ---------------------------
(* Three memories, one of them migrated from an older database, two kinds    *)
(* and two sessions: enough for a chain of two supersessions, for every      *)
(* mismatch supersede refuses and for a closed ring of replacements.  The    *)
(* lengths make one budget hold two memories exactly or cut the longest, the *)
(* other hold one exactly or leave no room to cut.                           *)
EXTENDS ContextPolicy, TLC

CONSTANTS m1, m2, m3, k1, k2, s1, s2

MCMemories == {m1, m2, m3}
MCMigrated == {m1}
MCKinds == {k1, k2}
MCSessions == {s1, s2}
MCPrefixLength == [m \in MCMemories |-> 2]
MCContentLength == [m \in MCMemories |-> CASE m = m1 -> 1 [] m = m2 -> 4 [] m = m3 -> 12]
MCCharLimits == {4, 12}
Symmetric == Permutations(MCKinds) \cup Permutations(MCSessions)
=============================================================================
