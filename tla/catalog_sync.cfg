SPECIFICATION CatSpec

CONSTANTS
    Invocation = {p1, p2, p3}
    NoCaller = NoCaller
    SemValueMax = 4
    LockTimeouts = FALSE
    Crashes = FALSE
    ExecFailures = FALSE
    MaxChanges = 2

INVARIANTS
    CommandExclusion
    BconsoleAccount
    EverySavedMappingIsReported

PROPERTIES
    EveryInvocationEnds
