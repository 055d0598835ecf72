SPECIFICATION Spec
CONSTANTS
    Tables = {1, 2}
    Keys = {1, 2, 3}
    Versions = {"old", "new"}
    Jobs <- Autocommitted
    MaxFaults = 0
INVARIANTS
    LoadsWithoutTransaction
