SPECIFICATION Spec
CONSTANTS
    lobby = lobby
    game = game
    ev1 = ev1
    ev2 = ev2
    LobbyType = LobbyType
    GameType = GameType
    EvType = EvType
    None = None
    Protocols <- ServerProtocols
    TypeOf <- ServerTypeOf
    CtrlType <- GameType
    Disconnects <- MCDisconnects
    Treats <- ServerTreats
    IsServer = TRUE
    Kinds <- ServerKinds
    MaxEvents = 2
INVARIANTS OneOwner
PROPERTIES AbortEnds
CHECK_DEADLOCK FALSE
