SPECIFICATION FairSpec

CONSTANTS
    Invocation = {p1, p2, p3}
    NoCaller = NoCaller
    SemValueMax = 4
    LockTimeouts = TRUE
    Crashes = TRUE
    ExecFailures = TRUE

INVARIANTS
    TypeOK
    FreeAtRest

PROPERTIES
    LostCommandIsRestored
