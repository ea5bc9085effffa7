SPECIFICATION Spec
CONSTANTS
    peerInfo = peerInfo
    routing = routing
    NoAttribute = NoAttribute
    Element = {1, 2, 3}
    Identifier = {peerInfo, routing}
    Attribute <- PageAttribute
    InitialParent <- PageParent
    InitialValue <- PageValue
    Needs <- PageNeeds
    MaxChanges = 4
INVARIANTS
    ConnectedWhenQuiet
    CallsAlternate
    NeedsFound
PROPERTY CatchesUp
CHECK_DEADLOCK FALSE
