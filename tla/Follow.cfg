SPECIFICATION Spec
CONSTANTS
    Node = {a, b, c}
    Worker = {w1, w2}
    User = user
    Nobody = nobody
    MaxCalls = 3
    Lossy = TRUE
INVARIANTS
    TypeOK
    FollowersGetKeys
    FollowersAreListed
PROPERTIES
    BlockLasts
SYMMETRY Symmetry
CHECK_DEADLOCK FALSE
