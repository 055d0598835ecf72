SPECIFICATION FairSpec
CONSTANTS
    Tables = {1, 2}
    Keys = {1, 2, 3}
    Versions = {"old", "new"}
    Jobs <- InTransactionOrCyclic
    MaxFaults = 1
INVARIANTS
    NothingDangles
    SequencesAhead
    ObjectsHaveRows
PROPERTIES
    LoadsAtomically
    LoadableLoadsSucceed
    Terminates
