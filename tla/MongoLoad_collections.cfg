SPECIFICATION Spec
CONSTANTS
    Jobs <- MCJobs
    Ids <- MCIds
    Sample = 2
    MaxRuns = 3
    MaxCuts = 2
    Words <- MCWords
    Quoted <- MCQuoted
    SortKeys <- MCSortKeys
    Error = Error
INVARIANTS
    DocumentsArrive
    PrefixLoaded
    RerunConverges
    RefusedForProfiles
CHECK_DEADLOCK FALSE
