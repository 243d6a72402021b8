SPECIFICATION FairSpec
CONSTANTS
    n1 = n1
    NoConn = NoConn
    Nodes = {n1}
    Conns = {c1, c2}
    Reqs = {r1}
    NodeOf <- OneNode
INVARIANTS
    TypeOK
    NoGhostSession
    PendingHasCaller
PROPERTIES
    ImplementsRemoteCall
    EveryCallReturns
    DeadSessionsLeave
CHECK_DEADLOCK FALSE
