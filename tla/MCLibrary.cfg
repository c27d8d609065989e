SPECIFICATION FairSpec
CONSTANTS
  e1 = e1
  e2 = e2
  e3 = e3
  a1 = a1
  a2 = a2
  a3 = a3
  h1 = h1
  h2 = h2
  t1 = t1
  t2 = t2
  t3 = t3
  k1 = k1
  k2 = k2
  k3 = k3
  v1 = v1
  NaN = NaN
  Infinity = Infinity
  Limits = {0, 1, 6, NaN, Infinity}
  IterationCeiling = 4
  CacheKeys = {k1, k2, k3}
  CacheValues = {v1}
  MaxEntries = 2
  Executions = {e1, e2, e3}
  Nobody = Nobody
  Takers = {a1, a2, a3}
  Handlers = {h1, h2}
  Lines = {t1, t2, t3}
  NoLine = NoLine
  MaxCount = 3
  Evidence <- MCEvidence
  EvidenceRoot = "root"
  OtherNames <- MCOtherNames
  MaxFieldDepth = 3
  MaxDepth = 5
  Graphs <- MCGraphs
  Refs <- MCRefs
  Fields <- MCFields
  Ownerships <- MCOwnerships
  ValueHeaps <- MCValueHeaps
  ItemHeaps <- MCItemHeaps
  IdentityKeys <- MCIdentityKeys
  StateTrees <- MCStateTrees
  TreePatches <- MCTreePatches
  RawValues <- MCRawValues
  Helpers <- MCHelpers
  GetterCalls = {"c1", "c2"}
  Getters = {"g", "h"}
  Observers = {"o", "q"}
  Strangers = {"undeclared"}
  OperationNames = {"load", "describe"}
  Writes = {"all", "user"}
INVARIANTS OwnershipHolds MergeIsExact ValuesAreExact SelfUseIsContained SourcesAccountForReads
PROPERTIES RetryHolds EvictsLeastRecent SnapshotsHold
CHECK_DEADLOCK FALSE
