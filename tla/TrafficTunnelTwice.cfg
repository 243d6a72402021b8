SPECIFICATION PanelSpec
CONSTANTS
    Parts = {"bytes"}
    one = one
    two = two
    n1 = n1
    n2 = n2
    long = long
    short = short
    Forwards = {one, two}
    PTunnels = {long, short}
    PNodes = {n1, n2}
    EntryNode <- MCEntryNode
    ExitNode <- MCExitNode
    Chained = {long}
    NodePorts <- MCNodePorts
    PRequests = {one, two}
    NoRow = NoRow
    AnyPort = AnyPort
    i1 = i1
    i2 = i2
    i3 = i3
    p1 = p1
    Rules = {long, short}
    Tunnelled = {long}
    Permits = {p1}
    PermitOf <- MCPermitOf
    PermitLimit <- MCPermitLimit
    Weight = 1
    UserLimit = 1
    Uploads = {y1, y2}
    MaxBytes = 2
    MaxResets = 1
    MaxRequests = 1
    NetworkFaults = TRUE
    XClients = {one, two}
    XInbounds = {i1, i2, i3}
    NoId = NoId
    TagId <- MCTagId
    Of <- MCOf
    XRequests = {y1, y2}
    Quota = 1
    UserQuota = 2
    MaxUses = 2
    CallFaults = {"offline", "refused", "timeout"}
    u1 = u1
    f1 = f1
    s1 = s1
    c1 = c1
    r1 = r1
    Records <- MCRecords
    KindOf <- MCKindOf
    Shapes <- MCShapes
    Writers = {w1}
    Erasers = {w1}

INVARIANT ChargedOnce
CHECK_DEADLOCK FALSE
