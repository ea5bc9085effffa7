\* Two callbacks at a time, as with WithChord or RequestValidation.
SPECIFICATION Spec
CONSTANTS
  A = A
  B = B
  C = C
  NoNode = NoNode
  Node = {A, B}
  Peers <- PairPeers
  LatePeers = {}
  Worker = {w1, w2}
  AckTimeout = TRUE
  Mongering = FALSE
  Faults = {}
  MaxSequence <- OneFromA
  MaxInFlight = 1
INVARIANTS
  StatusIsLastSequence
