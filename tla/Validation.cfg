SPECIFICATION Spec
CONSTANTS
    Peer = {p, q}
    Job = {j1, j2, j3}
    Challenge = {c1, c2, c3}
    Nobody = nobody
    NoChallenge = none
INVARIANTS
    TypeOK
    ValidMeansAnswered
    AnswersLetThrough
    NothingLeft
SYMMETRY Symmetry
CHECK_DEADLOCK FALSE
