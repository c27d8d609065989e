SPECIFICATION FairSpec
CHECK_DEADLOCK FALSE
CONSTANTS
  c1 = c1
  c2 = c2
  c3 = c3
  k = k
  m = m
  Calls = {c1, c2}
  Getters = {"get"}
  Mutators = {"set", "edit"}
  Undeclared = {"edit"}
  Root = "root"
  Keys = {k}
  Fields = {"f", "g"}
  Writes <- TwoMutators
  Default <- Defaults
  Invalid = "bad"
  Outputs <- Results
  OptimisticPatches <- Guesses
  OptimisticMayThrow = TRUE
  ListenersMayThrow = TRUE
  ExecuteMayThrow = TRUE
  Errors = {"e"}
  AbortError = "aborted"
  ListenerError = "thrown"
  MaxOperationHistory = 1
  NoCall = NoCall
  Opaque = {"e", "aborted", "thrown"}
PROPERTIES OverlayClears EveryCallSettles
