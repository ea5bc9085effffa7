\* One rumor for two peers, and acks that come after AckTimeout.
SPECIFICATION Spec
CONSTANTS
  A = A
  B = B
  C = C
  NoNode = NoNode
  Node = {A, B, C}
  Peers <- StarPeers
  LatePeers = {}
  Worker = {w1}
  AckTimeout = TRUE
  Mongering = FALSE
  Faults = {"timeout"}
  MaxSequence <- OneFromA
  MaxInFlight = 1
INVARIANTS
  AckSharesStatus
