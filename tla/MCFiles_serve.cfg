SPECIFICATION Spec
CONSTANTS
    w1 = w1
    w2 = w2
    Paths <- MCPaths
    Inodes <- MCInodes
    Absent = Absent
    Dir = Dir
    NoFile = NoFile
    Data <- MCData
    InitialNode <- MCNode
    InitialContent <- MCContent
    Requests <- MCRequests
    NoRequest = NoRequest
    Workers = {w1, w2}
    NoTree = NoTree
    MayFail = TRUE
    MaxRequests = 3
SYMMETRY Symmetry
INVARIANTS
    TypeOK
    OnlyPermitted
    Recorded
    AnswersTrue
CHECK_DEADLOCK FALSE
