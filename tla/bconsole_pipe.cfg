SPECIFICATION Spec

CONSTANTS
    PipeSize = 3
    CommandSize = 2
    MaxOutput = 4
    Faults = TRUE

INVARIANTS
    NothingLeftBehind
    AnswerReadInFull

PROPERTIES
    EveryCommandReturns

CHECK_DEADLOCK FALSE
