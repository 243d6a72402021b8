SPECIFICATION FairSpec
CONSTANTS
    c1 = c1
    c2 = c2
    NoConn = NoConn
    Conns = {c1, c2}
INVARIANTS
    TypeOK
    ConnectedIsOpen
    ConnectedIsWatched
    AbandonedIsUnserved
PROPERTIES
    LostIsGivenUp
    Reconnects
CHECK_DEADLOCK FALSE
