CONSTANTS
  m1 = m1
  m2 = m2
  m3 = m3
  k1 = k1
  k2 = k2
  s1 = s1
  s2 = s2
  Memories <- MCMemories
  Migrated <- MCMigrated
  Kinds <- MCKinds
  Sessions <- MCSessions
  NoSession = NoSession
  NoMemory = NoMemory
  SearchLimit = 3
  ItemLimit = 2
  Frame = 1
  CharLimits <- MCCharLimits
  PrefixLength <- MCPrefixLength
  ContentLength <- MCContentLength
SPECIFICATION Spec
SYMMETRY Symmetric
INVARIANTS TypeOK Acyclic MostRelevantFirst
PROPERTIES ReviewIsFinal
CHECK_DEADLOCK FALSE
