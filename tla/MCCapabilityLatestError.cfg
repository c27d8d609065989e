SPECIFICATION Spec
CHECK_DEADLOCK FALSE
CONSTANTS
  c1 = c1
  c2 = c2
  c3 = c3
  k = k
  m = m
  Calls = {c1, c2, c3}
  Getters = {"get"}
  Mutators = {"set"}
  Undeclared = {}
  Root = "root"
  Keys = {k, m}
  Fields = {"f", "g"}
  Writes <- GetterWrites
  Default <- Defaults
  Invalid = "bad"
  Outputs <- Results
  OptimisticPatches <- Guesses
  OptimisticMayThrow = FALSE
  ListenersMayThrow = FALSE
  ExecuteMayThrow = FALSE
  Errors = {"e"}
  AbortError = "aborted"
  ListenerError = "thrown"
  MaxOperationHistory = 1
  NoCall = NoCall
  Opaque = {"e", "aborted", "thrown"}
PROPERTY LatestErrorKept
