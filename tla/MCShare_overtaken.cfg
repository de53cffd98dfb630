SPECIFICATION Spec
CONSTANTS
    Names = {"a", "b"}
    BadName = "/"
    Data = {"d"}
    Procs = {"agent"}
    Workers = {"w1", "w2"}
    Host <- AgentOnly
    Requests <- TwoCreates
    Initial <- Nothing
    NoRequest = NoRequest
    Absent = Absent
    Empty = Empty
    Torn = Torn
    FailingReads = {}
    FailingWrites = {}
    FailingCommands = {}
    Overlap = TRUE
    Ends = {}
    MaxRequests = 2
INVARIANT
    AckedPersisted
CHECK_DEADLOCK FALSE
