SPECIFICATION Spec
CONSTANTS
  a1 = a1
  a2 = a2
  key1 = key1
  key2 = key2
  v = v
  w = w
  Acquisitions = {a1, a2}
  Keys = {key1, key2}
  Reports <- OneOfEach
  NoJoiner = NoJoiner
  Default = "d"
  Unprocessable = {"throws"}
  SubscribeMayThrow = TRUE
  TeardownMayThrow = TRUE
  ListenersMayThrow = TRUE
  MaxFrames = 4
  Opaque = {"e"}
SYMMETRY MCSymmetry
INVARIANTS UnheldIsDisconnected LastWordShown
