SPECIFICATION Spec

CONSTANTS
    Slots = 3
    Drives = 2
    Volume = {v1, v2}
    LabelOf <- DistinctLabels
    MountPoint = {mnt1, mnt2}
    NoVolume = NoVolume
    Empty = Empty
    NoLink = NoLink
    Crashes = TRUE
    DiskErrors = FALSE

INVARIANTS
    TypeOK
    DrivesAgree
    NoSlotInTwoDrives

PROPERTIES
    IsAutochanger
