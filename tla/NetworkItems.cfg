SPECIFICATION Spec
CONSTANTS
    Clients = {c1, c2}
    Starters = {c1}
    Leavers = {c1}
    c1 = c1
    c2 = c2
    FirstItems <- MCFirstItems
    SwitchTicks = 1
    ReturnTicks = 1
    BombTicks = 2
    MaxTick = 2
    MaxEvents = 3
    MaxSlots = 2
    MaxStates = 2
INVARIANTS TypeOK ItemsAgree AssertionsHold KeptUnlessUnasked CaughtUp
PROPERTY ImplementsLog
