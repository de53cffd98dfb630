SPECIFICATION FairSpec
CONSTANTS
    Names = {"a", "b"}
    BadName = "/"
    Data = {"d"}
    Procs = {"agent"}
    Workers = {"w"}
    Host <- AgentOnly
    Requests <- AllRoutes
    Initial <- Nothing
    NoRequest = NoRequest
    Absent = Absent
    Empty = Empty
    Torn = Torn
    FailingReads = {}
    FailingWrites = {}
    FailingCommands = {"smb"}
    Overlap = FALSE
    Ends = {"stop"}
    MaxRequests = 4
INVARIANTS
    AckedPersisted
    FilesAgree
    LossWindow
    ServicesCurrent
PROPERTIES
    ImplementsStore
    Answered
CHECK_DEADLOCK FALSE
