SPECIFICATION Spec
CHECK_DEADLOCK FALSE
CONSTANTS
  c1 = c1
  c2 = c2
  c3 = c3
  Calls = {c1, c2, c3}
  Getters = {"get"}
  Mutators = {"set"}
  Undeclared = {}
  Root = "root"
  k = k
  m = m
  Keys = {k, m}
  Fields = {"f", "g"}
  Writes <- GetterWrites
  Default <- Defaults
  Invalid = "bad"
  Outputs <- Results
  OptimisticPatches <- Guesses
  OptimisticMayThrow = TRUE
  ListenersMayThrow = TRUE
  ExecuteMayThrow = FALSE
  Errors = {"e"}
  AbortError = "e"
  ListenerError = "e"
  MaxOperationHistory = 1
  NoCall = NoCall
  Opaque = {"e"}
SYMMETRY CallSymmetry
INVARIANTS TypeOK LoadingMeansInFlight OverlaysMatchCalls AuthoritativeIsConfirmed
PROPERTIES OnlyCurrentOwnersWrite
