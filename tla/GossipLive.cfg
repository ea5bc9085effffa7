\* A chain told about one way only, no acks, a lossy network.
SPECIFICATION FairSpec
CONSTANTS
  A = A
  B = B
  C = C
  NoNode = NoNode
  Node = {A, B, C}
  Peers <- ChainPeers
  LatePeers = {}
  Worker = {w1}
  AckTimeout = FALSE
  Mongering = TRUE
  Faults = {"loss"}
  MaxSequence <- OneFromA
  MaxInFlight = 1
PROPERTIES
  ReliableDelivery
