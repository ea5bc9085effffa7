\* Three of five nodes join one after another, in every order, while keys are
\* looked up: one at a node, one past the last.
SPECIFICATION Spec
CONSTANTS
  M = 3
  Node = {1, 3, 4, 5, 7}
  NoNode = NoNode
  Asked = {0, 4}
  Introduced = FALSE
  MaxMembers = 3
  MaxJoins = 1
  MaxJobs = 2
INVARIANTS
  TypeOK
  SuccessorsFormRing
  RingWhenQuiet
PROPERTIES
  ImplementsDirectory
  FingersGetNearer
