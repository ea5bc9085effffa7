\* Two peers, two rumors of one origin, a network that loses and doubles.
SPECIFICATION Spec
CONSTANTS
  A = A
  B = B
  C = C
  NoNode = NoNode
  Node = {A, B}
  Peers <- PairPeers
  LatePeers <- LateBack
  Worker = {w1}
  AckTimeout = TRUE
  Mongering = TRUE
  Faults = {"loss", "duplicate", "handler", "unreachable"}
  MaxSequence <- TwoFromA
  MaxInFlight = 1
INVARIANTS
  InOrder
  EqualStatusEqualTables
  AckMeansTaken
  AnswersFit
PROPERTIES
  ImplementsBroadcast
