SPECIFICATION Spec

CONSTANTS
    Character <- MCCharacter
    Device <- MCDevice
    Label <- MCLabel

INVARIANTS
    RestoredIsWritten

PROPERTIES
    ReadingEnds
