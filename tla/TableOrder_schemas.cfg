SPECIFICATION FairSpec
CONSTANTS
    Tables = {1, 2, 3, 4}
    Schemas <- AllSchemas
    Selections <- AllOrSome
INVARIANTS
    ParentsFirst
    StuckIsTangle
    SmallestReadyFirst
    EveryTableOnce
    ReportedCyclesAreReal
    StuckTablesAreExplained
PROPERTY Terminates
