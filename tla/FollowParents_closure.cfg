SPECIFICATION Spec
CONSTANTS
    Tables = {1, 2}
    Columns = {1}
    Keys = {1, 2, 3}
    MaxDepth = 3
    Jobs <- AllJobs
INVARIANTS
    NothingNeedless
    FollowedIsClosed
    GivesUpOnlyWhenDeep
