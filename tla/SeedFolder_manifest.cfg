SPECIFICATION Spec
CONSTANTS
    Tables = {1, 2}
    Keys = {1, 2}
    Versions = {"a", "b"}
    Parent <- Parents
    PerRow = {2}
    LooksLikeSeed = {2}
    Databases <- SomeDatabases
    Requests <- OnlyEverything
    MaxRuns = 2
    MaxChanges = 1
INVARIANT ExportVerifies
