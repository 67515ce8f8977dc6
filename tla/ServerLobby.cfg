CONSTANTS
    Peers = {p1, p2}
    Ranked = FALSE
SPECIFICATION Spec
INVARIANTS WorldAlive LoadsOneWorld ResetAfterMain AllHaveLoaded
           InGameListed
PROPERTIES EmptyServerResets ResetEnds WaitingEnds
