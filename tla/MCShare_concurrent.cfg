SPECIFICATION Spec
CONSTANTS
    Names = {"a", "b"}
    BadName = "/"
    Data = {"d"}
    Procs = {"agent"}
    w1 = w1
    w2 = w2
    Workers = {w1, w2}
    Host <- AgentOnly
    Requests <- Contended
    Initial <- LeftOver
    NoRequest = NoRequest
    Absent = Absent
    Empty = Empty
    Torn = Torn
    FailingReads = {"state"}
    FailingWrites = {"smb"}
    FailingCommands = {"smb"}
    Overlap = TRUE
    Ends = {"crash"}
    MaxRequests = 2
SYMMETRY Symmetry
INVARIANTS
    TypeOK
    MemoryWellFormed
    ConsistentVersions
    AckedInMemory
PROPERTY
    OtherSharesUntouched

CHECK_DEADLOCK FALSE
