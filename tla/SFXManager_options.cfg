SPECIFICATION Spec
CONSTANTS
    Sounds = {s1}
    None = None
    Ops = {"create", "play", "stop", "loop", "delete", "volume", "toggle", "pause", "resume", "position"}
    Throttle = 1
    MaxQueue = 2
INVARIANTS UpdatedWhilePlaying
PROPERTIES QuitEnds
