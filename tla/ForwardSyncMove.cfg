SPECIFICATION Spec
CONSTANTS
    n1 = n1
    n2 = n2
    t1 = t1
    t2 = t2
    p1 = p1
    p2 = p2
    g1 = g1
    g2 = g2
    u1 = u1
    u2 = u2
    NoNode = NoNode
    Absent = Absent
    Nodes <- MCNodes
    Tunnels <- TwoTunnels
    InNode <- MoveIn
    OutNode <- MoveOut
    Ports <- MCPorts
    Targets <- OneTarget
    Requests <- OneRequest
    MaxLate = 0
    Locked <- MCNodeB
    Faults <- NoFaults
CHECK_DEADLOCK FALSE
INVARIANTS
    OnlyOrphansPurged
