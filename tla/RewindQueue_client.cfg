SPECIFICATION Spec
CONSTANTS
    IsServer = FALSE
    StateFreq = 1
    FinishCheck = 1
    MaxTick = 4
    MaxEvents = 2
    MaxStates = 2
INVARIANTS Sorted UndoFindsState ReplayComplete
    EndControllerKept LocalStateFound NewestStateAdopted
CHECK_DEADLOCK FALSE
