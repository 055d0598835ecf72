SPECIFICATION Spec
CONSTANTS
    Tables = {1, 2}
    Keys = {1, 2}
    Versions = {"a", "b"}
    Parent <- Parents
    PerRow = {2}
    LooksLikeSeed = {2}
    Databases <- SomeDatabases
    Requests <- SomeRequests
    MaxRuns = 2
    MaxChanges = 2
INVARIANTS
    NothingHalfWritten
    FolderMatchesLock
    ExportIsClosed
PROPERTY AcceptancesSurvive
