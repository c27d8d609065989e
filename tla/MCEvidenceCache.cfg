SPECIFICATION Spec
CONSTANTS
  input = input
  v = v
  w = w
  g1 = g1
  g2 = g2
  r1 = r1
  Files = {input}
  Hashed = {input}
  Contents = {v, w}
  Generators = {g1, g2}
  Readers = {r1}
  Unreadable = Unreadable
SYMMETRY MCSymmetry
INVARIANTS EvidenceIsOfOneMoment
