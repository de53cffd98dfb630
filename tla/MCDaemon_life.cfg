SPECIFICATION FairSpec
CONSTANTS
    Pids = {"p1", "p2"}
    NoPid = NoPid
    Absent = Absent
    Garbled = Garbled
    Stoppers = {"s1", "s2"}
    Careful = FALSE
    Others = TRUE
    Crashes = TRUE
    MayFail = TRUE
INVARIANTS
    TypeOK
    StatusTrue
    CleanExit
PROPERTY
    SignalledEnds
CHECK_DEADLOCK FALSE
