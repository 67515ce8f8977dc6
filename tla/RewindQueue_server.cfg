SPECIFICATION Spec
CONSTANTS
    IsServer = TRUE
    StateFreq = 1
    FinishCheck = 1
    MaxTick = 3
    MaxEvents = 4
    MaxStates = 0
INVARIANTS ServerExactlyOnce
PROPERTIES EventuallyPlayed
CHECK_DEADLOCK FALSE
