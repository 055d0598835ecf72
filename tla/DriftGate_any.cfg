SPECIFICATION Spec
CONSTANTS
    Tables = {1, 2}
    Columns = {1, 2, 3, 4}
    TypeNames = {"mood", "tone"}
    Labels = {"a", "b"}
    Jobs <- AllJobs
    MaxRuns = 2
INVARIANTS
    GateForeseesRejections
    LossIsAgreed
    RelockSurvives
PROPERTIES
    RememberedAfterAll
    NotAskedAgain
