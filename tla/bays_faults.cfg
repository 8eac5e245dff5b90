SPECIFICATION Spec

CONSTANTS
    Bays = 2
    MaxVolumes = 3
    MinSlots = 2
    Crashes = TRUE
    LossyWrites = TRUE

INVARIANTS
    SlotsMatchVolumes
    RefreshIsIdempotent
