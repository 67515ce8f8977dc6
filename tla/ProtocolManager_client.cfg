SPECIFICATION Spec
CONSTANTS
    lobby = lobby
    game = game
    ev1 = ev1
    ev2 = ev2
    LobbyType = LobbyType
    GameType = GameType
    EvType = EvType
    None = None
    Protocols <- ClientProtocols
    TypeOf <- ClientTypeOf
    CtrlType <- GameType
    Disconnects <- MCDisconnects
    Treats <- ClientTreats
    IsServer = FALSE
    Kinds <- ClientKinds
    MaxEvents = 2
INVARIANTS HandledOnce InOrder
PROPERTIES Served
CHECK_DEADLOCK FALSE
