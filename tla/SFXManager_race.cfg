SPECIFICATION Spec
CONSTANTS
    Sounds = {s1, s2}
    None = None
    Ops = {"create", "play", "pauseAll", "resumeAll", "delete"}
    Throttle = 2
    MaxQueue = 2
INVARIANTS UsedWhileAlive StatusMatchesSource
PROPERTIES DeletedIsFreed
