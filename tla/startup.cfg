SPECIFICATION Spec

CONSTANTS
    Atom = {"magazine", "storageresource", "user", "global",
            "bconsole", "bconsoleconfig"}
    Quoted = {""}
    Keyword <- MCKeyword
    List <- MCList
    MaxTokens = 7
    IntHalf = 4
    CommandLines <- MCCommandLines
    KnownUser <- MCKnownUser
    KnownGroup <- MCKnownGroup
    UuidMagazine <- MCUuidMagazine
    NumberIn <- MCNumberIn
    Dir = {"/a", "/b"}
    Device <- MCDevice
    MaxMounts = 2
    MaxChanges = 1

CONSTRAINT Bounded

INVARIANTS
    ReadAsWritten
    LookupAgrees
    FilesBelongToUser
    CommandIsAsTyped
    ConfigIsAsWritten

PROPERTIES
    ReadsStatements
