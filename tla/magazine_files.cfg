SPECIFICATION Spec

CONSTANTS
    Drive = {d1, d2}
    MaxNumber = 3
    MaxCount = 2
    MaxCreated = 2
    Others = 0
    Fails = {"opendir", "rename", "unlink", "fopen"}

SYMMETRY Symmetry

INVARIANTS
    TypeOK
    ConvertedKeepNames
    NextIsFree

PROPERTIES
    NoVolumeLost
    NewNumbersComeLast
