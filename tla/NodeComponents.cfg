SPECIFICATION NodeSpec
CONSTANTS
    one = one
    two = two
    tcp = tcp
    udp = udp
    Names = {tcp, udp}
    Requests <- PairAndSingles
    Targets = {one, two}
    NoTarget = NoTarget
    MaxEntries = 2
    XProcs = {one, two}
    NoProc = NoProc
    XWorkers = {w1, w2}
    Receivers = {w1}
    NoWorker = NoWorker
    Tags = {g1}
    Users = {s1}
    MaxCopies = 2
    XFaults = {"crash", "exec", "refused", "old"}
    Addresses = {a1, a2}
    Sessions = {one, two}
    NoSession = NoSession
    Keepalive = FALSE
    Backlog = 1
    ReadQueueSize = 1
SYMMETRY Symmetry
INVARIANTS
    NodeTypeOK
    RegisteredIsConfigured
    ClosedIsPaused
    LeakedIsUnregistered
    EntryIsService
    AnsweredIsSaved
    FlagTruthful
    RunningWatched
    FileAgrees
    SomebodyCloses
CHECK_DEADLOCK FALSE
