SPECIFICATION Spec
CONSTANTS
    n1 = n1
    NoConn = NoConn
    Nodes = {n1}
    Conns = {c1, c2}
    Reqs = {r1}
    NodeOf <- OneNode
PROPERTY OfflineOnlyCurrent
CHECK_DEADLOCK FALSE
