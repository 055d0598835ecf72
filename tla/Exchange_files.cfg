SPECIFICATION Spec
CONSTANTS
    Error = Error
    Jobs <- MCJobs
INVARIANTS
    
    ExportedAsMeant
    ValuesArrive
    DiffForetells
    SecondExportIsTheSame
CHECK_DEADLOCK FALSE
