SPECIFICATION Spec
CONSTANTS
    h1 = h1
    h2 = h2
    Handlers = {h1, h2}
    Shells = {c}
    c = c
    Targets = {"eth", "pid"}
    Requests <- Everyone
    NoRequest = NoRequest
    FailingOps = {"link", "dhcp", "kill", "share"}
    LogFails = TRUE
    Breaks = {"leave", "die", "deadline", "serve", "crash"}
    MaxRequests = 2
SYMMETRY Symmetry
INVARIANTS
    TypeOK
    OnlyAuthorized
    AckedRecorded
    RecordsTrue
    CleanStop
    LogReplays
CHECK_DEADLOCK FALSE
