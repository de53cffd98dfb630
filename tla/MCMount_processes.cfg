SPECIFICATION Spec
CONSTANTS
    Points = {"/mnt/a", "/mnt/b"}
    Dirs = {"/mnt/a", "/mnt/b"}
    DirOf <- MCDirOf
    Shown <- MCShown
    Sources = {"sdb", "//s/x", "s/x", "/x"}
    BadSources = {"/x"}
    Normal <- MCNormal
    Blank = {"/mnt/my disk"}
    Secrets = {"bob", "eve"}
    NoSecret = NoSecret
    NoPoint = NoPoint
    Requests <- Persistent
    Fstab <- Lines
    Procs = {"agent", "cli"}
    Workers = {"agent", "cli"}
    Host <- OneEach
    Nobody = Nobody
    NoRequest = NoRequest
    Failing = {"read", "write"}
    Crashes = TRUE
    MaxRequests = 4
INVARIANTS
    OneLinePerPoint
    CredsBeforeEntry
CHECK_DEADLOCK FALSE
