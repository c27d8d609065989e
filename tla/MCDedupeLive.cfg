SPECIFICATION FairSpec
CONSTANTS
  c1 = c1
  c2 = c2
  c3 = c3
  e1 = e1
  e2 = e2
  ok = ok
  err = err
  Callers = {c1, c2}
  Keys = {"k"}
  Executions = {e1, e2}
  Outcomes = {ok, "rejected"}
  NoKey = NoKey
  NoExec = NoExec
  NoCaller = NoCaller
  Reliable = {e1}
PROPERTIES CallersContinue RegistryDrains
