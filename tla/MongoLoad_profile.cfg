SPECIFICATION Spec
CONSTANTS
    Jobs <- ProfileJobs
    Ids <- MCIds
    Sample = 2
    MaxRuns = 2
    MaxCuts = 1
    Words <- MCWords
    Quoted <- MCQuoted
    SortKeys <- MCSortKeys
    Error = Error
INVARIANTS
    ProfilesNeverFailLoads
CHECK_DEADLOCK FALSE
