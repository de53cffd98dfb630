SPECIFICATION FrontendSpec
CONSTANTS
    Agent = {"nas1", "nas2"}
    Key <- MCKey
    Interval = 3
    Timeouts = {3, 5, 8}
    MaxDelay = 1
    MaxLosses = 1
    MaxPid = 3
    MaxProcess = 5
    MaxInt = 7
    Pages <- MCPages
    Limits <- MCLimits
    WalkLimits = {1, 2}
INVARIANTS
    HeardAlive
    PagesRight
    WalkSees
