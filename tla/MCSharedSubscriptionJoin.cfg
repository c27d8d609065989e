SPECIFICATION Spec
CONSTANTS
  a1 = a1
  a2 = a2
  a3 = a3
  h1 = h1
  h2 = h2
  h3 = h3
  t1 = t1
  t2 = t2
  Acquisitions = {a1, a2, a3}
  Handlers = {h1, h2, h3}
  Transports = {t1, t2}
  Statuses = {"connecting", "connected"}
  NoTransport = NoTransport
  NoHandlers = NoHandlers
  MayThrow = FALSE
  MaxNesting = 1
PROPERTY LateJoinerLearnsStatus
