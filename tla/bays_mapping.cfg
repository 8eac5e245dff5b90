SPECIFICATION Spec

CONSTANTS
    Bays = 3
    MaxVolumes = 2
    MinSlots = 2
    Crashes = FALSE
    LossyWrites = FALSE

INVARIANTS
    TypeOK
    KeepsSlots
    UpdateIffRangesChange

PROPERTIES
    SlotsNeverDecrease
