SPECIFICATION Spec
CONSTANTS
    Pids = {"p1", "p2"}
    NoPid = NoPid
    Absent = Absent
    Garbled = Garbled
    Stoppers = {"s"}
    Careful = TRUE
    Others = FALSE
    Crashes = FALSE
    MayFail = FALSE
INVARIANT
    StatusDescribes
CHECK_DEADLOCK FALSE
