SPECIFICATION Spec
CONSTANTS
    Tables = {1, 2}
    Keys = {1, 2, 3}
    Versions = {"old", "new"}
    Jobs <- AutocommittedOrFlagged
    MaxFaults = 1
INVARIANTS
    RerunConverges
PROPERTIES
    WritesByConsent
