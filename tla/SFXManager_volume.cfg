SPECIFICATION Spec
CONSTANTS
    Sounds = {s1}
    None = None
    Ops = {"create", "delete", "volume"}
    Throttle = 2
    MaxQueue = 3
INVARIANTS UsedWhileAlive
