SPECIFICATION FairSpec
CONSTANTS
    Points = {"/mnt/a", "/mnt/b"}
    Dirs = {"/mnt/a", "/mnt/b"}
    DirOf <- MCDirOf
    Shown <- MCShown
    Sources = {"sdb", "//s/x", "s/x", "/x"}
    BadSources = {"/x"}
    Normal <- MCNormal
    Blank = {"/mnt/my disk"}
    Secrets = {"bob", "eve"}
    NoSecret = NoSecret
    NoPoint = NoPoint
    Requests <- AllRequests
    Fstab <- Lines
    Procs = {"agent"}
    Workers = {"w1", "w2"}
    Host <- AgentOnly
    Nobody = Nobody
    NoRequest = NoRequest
    Failing = {"list", "temp", "mount", "umount", "creds", "read", "write"}
    Crashes = FALSE
    MaxRequests = 4
INVARIANTS
    TypeOK
    OneMountPerDir
    KeptAcrossBoot
PROPERTIES
    AnswersTrue
    OtherLinesKept
    Answered
CHECK_DEADLOCK FALSE
