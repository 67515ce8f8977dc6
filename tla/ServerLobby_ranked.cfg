CONSTANTS
    Peers = {p1, p2}
    Ranked = TRUE
SPECIFICATION Spec
PROPERTY WaitingEnds
