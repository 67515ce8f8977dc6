------------------------- MODULE MCProtocolManager -------------------------
(* A lobby that handles messages and disconnections in both ways, the game *)
(* protocol, for controller events only, and two further protocols of one  *)
(* type, the second of which has no handler.                               *)
EXTENDS ProtocolManager

CONSTANTS lobby, game, ev1, ev2, LobbyType, GameType, EvType

MCType == [p \in {lobby, game, ev1, ev2} |->
              CASE p = lobby -> LobbyType [] p = game -> GameType
                [] OTHER -> EvType]
MCDisconnects == {LobbyType}
MCTreats == {<<lobby, FALSE>>, <<lobby, TRUE>>, <<game, FALSE>>, <<ev1, TRUE>>}

Message(ty, s) == [message |-> TRUE, type |-> ty, sync |-> s]
Disconnection  == [message |-> FALSE, type |-> LobbyType, sync |-> FALSE]

ClientProtocols == {lobby, ev1, ev2}
ClientTypeOf    == [p \in ClientProtocols |-> MCType[p]]
ClientTreats    == MCTreats \ {<<game, FALSE>>}
ClientKinds     == {Message(EvType, TRUE), Disconnection}

ServerProtocols == {game}
ServerTypeOf    == [p \in ServerProtocols |-> MCType[p]]
ServerTreats    == {<<game, FALSE>>}
ServerKinds     == {Message(GameType, FALSE), Message(LobbyType, TRUE)}
=============================================================================
