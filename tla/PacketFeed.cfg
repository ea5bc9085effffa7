\* Two pages and the receive loop: with the timeout packets overlap.
SPECIFICATION Spec
CONSTANTS
    Thread = {receiver}
    Page = {page1, page2}
    Capacity = 1
    MaxPackets = 2
    MaxRequests = 2
INVARIANTS
    TypeOK
    Gapless
    NothingTwice
PROPERTY SentUnlessClogged
CHECK_DEADLOCK FALSE
