SPECIFICATION Spec
CONSTANTS
    k1 = k1
    k2 = k2
    k3 = k3
    t1 = t1
    t2 = t2
    Keys = {k1, k2, k3}
    NoKey = NoKey
    Agents = {"agent"}
    Tools = {t1, t2}
    MayFail = TRUE
    Crashes = TRUE
    MaxRuns = 5
SYMMETRY Symmetry
INVARIANTS
    TypeOK
    NeverLockedOut
    KeysKept
PROPERTY
    RestartEnforces
CHECK_DEADLOCK FALSE
