SPECIFICATION Spec
CONSTANTS
  c1 = c1
  c2 = c2
  c3 = c3
  e1 = e1
  e2 = e2
  ok = ok
  err = err
  Callers = {c1, c2, c3}
  Keys = {"k", "m"}
  Executions = {e1, e2}
  Outcomes = {ok, err}
  NoKey = NoKey
  NoExec = NoExec
  NoCaller = NoCaller
  Reliable = {}
SYMMETRY MCSymmetry
INVARIANTS CleanupFindsItsOwnEntry NoStaleResult ResultIsOwn
PROPERTIES ImplementsSingleFlight
