SPECIFICATION SpecChanger

CONSTANTS
    Bays = 2
    MaxVolumes = 2
    MinSlots = 4
    Crashes = TRUE
    LossyWrites = FALSE
    Slots = 6
    Drives = 1
    NamesOn <- MCNamesOn
    MountPoint = {mnt1}
    NoVolume = NoVolume
    Empty = Empty
    NoLink = NoLink

VIEW Relevant

INVARIANTS
    LoadedVolumeStays

PROPERTIES
    ImplementsDrives
    NothingMovesSilently
