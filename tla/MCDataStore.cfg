SPECIFICATION Spec
CONSTANTS
  name = name
  status = status
  v0 = v0
  v1 = v1
  e1 = e1
  e2 = e2
  t1 = t1
  t2 = t2
  l1 = l1
  l2 = l2
  Fields = {name}
  Info = {status}
  Values = {v0, v1}
  Opaque = {}
  Transitions = {t1, t2}
  Listeners = {l1, l2}
  MaxNesting = 2
SYMMETRY MCSymmetry
INVARIANTS NoMissedUpdate ProjectionIsDerived
PROPERTIES NoOpSuppressedWhenSettled
