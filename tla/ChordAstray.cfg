\* Four of five nodes of 4 bits join one after another, and a key is looked up.
\* Joins fail and look-ups spin here.
SPECIFICATION FairSpec
CONSTANTS
  M = 4
  Node = {0, 2, 11, 14, 15}
  NoNode = NoNode
  Asked = {12}
  Introduced = FALSE
  MaxMembers = 4
  MaxJoins = 1
  MaxJobs = 1
PROPERTIES
  OnlyHalfJoinedMislead
  CallsEnd
CHECK_DEADLOCK FALSE
