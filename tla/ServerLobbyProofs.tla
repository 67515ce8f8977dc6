------------------------- MODULE ServerLobbyProofs -------------------------
(***************************************************************************)
(* Proofs about ServerLobby, for any number of peers.                      *)
(***************************************************************************)
EXTENDS ServerLobby, TLAPS

LEMMA TypeNext == ASSUME TypeOK, [Next]_vars PROVE TypeOK'
<1>1. ASSUME NEW p \in Peers, Disconnect(p) PROVE TypeOK'
  BY <1>1 DEF Disconnect, TypeOK, lobbyVars, readyVars, raceVars, asyncVars,
              mainVars, Connected
<1>2. ASSUME NEW p \in Peers, ClientLoaded(p) PROVE TypeOK'
  BY <1>2 DEF ClientLoaded, TypeOK, lobbyVars, readyVars, raceVars,
              asyncVars, mainVars
<1>3. CASE Time
  <2>1. timeUp' \in BOOLEAN /\ loaded' \in BOOLEAN
    BY <1>3, Zenon DEF Time, TypeOK
  <2>2. voting' \in {"none", "running", "late", "over"}
    BY <1>3 DEF Time, TypeOK
  <2>3. UNCHANGED <<state, rs, readyVars, peerVars, raceVars, asyncVars,
                    mainVars, starter>>
    BY <1>3, Zenon DEF Time
  <2> QED
    BY <2>1, <2>2, <2>3 DEF TypeOK, readyVars, peerVars, raceVars, asyncVars,
                            mainVars
<1>4. CASE AsyncBegin
  BY <1>4 DEF AsyncBegin, TypeOK, lobbyVars, readyVars, peerVars, raceVars,
              mainVars
<1>5. ASSUME NEW p \in Peers, ConnectionRequested(p) PROVE TypeOK'
  BY <1>5 DEF ConnectionRequested, TypeOK, lobbyVars, readyVars, raceVars,
              asyncVars, mainVars
<1>6. CASE StartSelection
  <2>1. timeUp' \in BOOLEAN /\ loaded' \in BOOLEAN
    BY <1>6, Zenon DEF StartSelection, TypeOK
  <2>2. /\ voting' \in {"none", "running", "late", "over"}
        /\ state' \in AfterWaiting
    BY <1>6 DEF StartSelection, AfterWaiting
  <2>3. UNCHANGED <<rs, readyVars, peerVars, raceVars, asyncVars, mainVars,
                    starter>>
    BY <1>6, Zenon DEF StartSelection
  <2> QED
    BY <2>1, <2>2, <2>3 DEF TypeOK, readyVars, peerVars, raceVars, asyncVars,
                            mainVars
<1>7. ASSUME NEW p \in Peers, FinishedLoadingWorldClient(p) PROVE TypeOK'
  BY <1>7 DEF FinishedLoadingWorldClient, TypeOK, lobbyVars, raceVars,
              asyncVars, mainVars
<1>8. ASSUME NEW p \in Peers, SelectingWantsToBackLobby(p) PROVE TypeOK'
  BY <1>8 DEF SelectingWantsToBackLobby, TypeOK, lobbyVars, raceVars,
              asyncVars, mainVars
<1>9. CASE AsyncUpdate
  BY <1>9 DEF AsyncUpdate, TypeOK, lobbyVars, readyVars, peerVars, raceVars,
              mainVars
<1>10. CASE ResetServer
  <2>1. loaded' \in BOOLEAN /\ timeUp' \in BOOLEAN
    BY <1>10, Zenon DEF ResetServer
  <2>2. /\ conn' \in [Peers -> {"new", "waiting", "ingame", "left"}]
        /\ listed' \in SUBSET Peers /\ ready' \in SUBSET listed'
    BY <1>10 DEF ResetServer, WaitingListed, Connected, TypeOK
  <2>3. /\ state' = "WAITING_FOR_START_GAME" /\ voting' = "none"
        /\ asyncAt' = "cleared"
    BY <1>10 DEF ResetServer
  <2>4. UNCHANGED <<rs, joining, toLoad, inbox, raceVars, asyncHas, mainVars,
                    starter>>
    BY <1>10, Zenon DEF ResetServer
  <2> QED
    BY <2>1, <2>2, <2>3, <2>4 DEF TypeOK, raceVars, mainVars
<1>11. CASE ResetDone
  BY <1>11 DEF ResetDone, TypeOK, readyVars, peerVars, raceVars, mainVars
<1>12. CASE AsyncSwitch
  BY <1>12 DEF AsyncSwitch, TypeOK, readyVars, peerVars, raceVars, mainVars
<1>13. CASE HandleAllVotes
  BY <1>13 DEF HandleAllVotes, TypeOK, lobbyVars, readyVars, peerVars,
               raceVars, mainVars
<1>14. CASE SetRace
  BY <1>14 DEF SetRace, TypeOK, mainVars, ResetPeersReady, Connected, InGame,
               AfterWaiting, InRace
<1>15. CASE ConfigPeersStartTime
  BY <1>15 DEF ConfigPeersStartTime, TypeOK, peerVars, mainVars,
               ResetPeersReady, Connected, AfterWaiting, InRace
<1>16. CASE StartGameThread
  BY <1>16 DEF StartGameThread, TypeOK, lobbyVars, readyVars, peerVars,
               raceVars, mainVars
<1>17. CASE AsyncEnd
  <2>1. asyncHas' \in BOOLEAN BY <1>17, Zenon DEF AsyncEnd
  <2>2. UNCHANGED <<lobbyVars, readyVars, peerVars, raceVars, mainVars,
                    starter>>
    BY <1>17, Zenon DEF AsyncEnd
  <2>3. asyncAt' = "idle" BY <1>17 DEF AsyncEnd
  <2> QED
    BY <2>1, <2>2, <2>3 DEF TypeOK, lobbyVars, readyVars, peerVars, raceVars,
                            mainVars
<1>18. CASE StarterWakes
  BY <1>18 DEF StarterWakes, TypeOK, readyVars, peerVars, raceVars,
               asyncVars, mainVars, AfterWaiting, InRace
<1>19. ASSUME NEW p \in Peers, PlayerFinishedResult(p) PROVE TypeOK'
  BY <1>19 DEF PlayerFinishedResult, TypeOK, lobbyVars, peerVars, raceVars,
               asyncVars, mainVars, InGame
<1>20. ASSUME NEW p \in Peers, NEW b \in BOOLEAN, LiveJoinRequest(p, b)
       PROVE  TypeOK'
  BY <1>20 DEF LiveJoinRequest, TypeOK, lobbyVars, readyVars, asyncVars,
               mainVars
<1>21. ASSUME NEW p \in Peers, FinishedLoadingLiveJoin(p) PROVE TypeOK'
  BY <1>21 DEF FinishedLoadingLiveJoin, TypeOK, lobbyVars, readyVars,
               raceVars, asyncVars, mainVars
<1>22. ASSUME NEW p \in Peers, InGameWantsToBackLobby(p) PROVE TypeOK'
  BY <1>22 DEF InGameWantsToBackLobby, TypeOK, lobbyVars, asyncVars, mainVars
<1>23. CASE WorldLoaded
  BY <1>23 DEF WorldLoaded, TypeOK, readyVars, peerVars, asyncVars, mainVars
<1>24. CASE WorldProceeds
  BY <1>24 DEF WorldProceeds, TypeOK, lobbyVars, readyVars, peerVars,
               asyncVars, mainVars
<1>25. CASE Update
  BY <1>25 DEF Update, TypeOK, readyVars, peerVars, asyncVars, BackToLobby,
               Connected, InRace, ProtocolStopped
<1>26. CASE UpdatePlayers
  <2>1. running' \in BOOLEAN /\ protos' \in BOOLEAN
    BY <1>26 DEF UpdatePlayers, TypeOK
  <2>2. /\ rs' \in {"NONE", "WAITING", "ASYNC_RESET"}
        /\ voting' \in {"none", "running", "late", "over"}
        /\ mainAt' \in {"idle", "players", "switch", "load", "loaded"}
    BY <1>26 DEF UpdatePlayers, TypeOK
  <2>3. UNCHANGED <<state, loaded, timeUp, readyVars, peerVars, world, karts,
                    asyncVars, allGone, starter>>
    BY <1>26, Zenon DEF UpdatePlayers
  <2> QED
    BY <2>1, <2>2, <2>3 DEF TypeOK, readyVars, peerVars, asyncVars
<1>27. CASE Nothing
  BY <1>27 DEF Nothing, TypeOK, lobbyVars, readyVars, peerVars, raceVars,
               asyncVars, ProtocolStopped
<1>28. CASE CaseLoadWorld
  BY <1>28 DEF CaseLoadWorld, TypeOK, lobbyVars, readyVars, peerVars,
               raceVars, asyncVars
<1>29. CASE LoadWorld
  BY <1>29 DEF LoadWorld, TypeOK, lobbyVars, readyVars, peerVars, asyncVars
<1>30. CASE LoadedWorld
  BY <1>30 DEF LoadedWorld, TypeOK, readyVars, peerVars, raceVars, asyncVars,
               AfterWaiting, InRace
<1>31. CASE RaceFinished
  <2>1. running' \in BOOLEAN /\ protos' \in BOOLEAN
    BY <1>31, Zenon DEF RaceFinished
  <2>2. state' \in AfterWaiting /\ mainAt' = "idle"
    BY <1>31 DEF RaceFinished, AfterWaiting
  <2>3. UNCHANGED <<rs, voting, loaded, timeUp, readyVars, peerVars, world,
                    karts, asyncVars, allGone, starter>>
    BY <1>31, Zenon DEF RaceFinished
  <2> QED
    BY <2>1, <2>2, <2>3 DEF TypeOK, readyVars, peerVars, asyncVars
<1>32. CASE RaceStopped
  <2>1. timeUp' \in BOOLEAN BY <1>32, Zenon DEF RaceStopped
  <2>2. /\ listed' \in SUBSET Peers /\ ready' \in SUBSET listed'
        /\ world' = "none" /\ karts' \in SUBSET Peers
    BY <1>32 DEF RaceStopped, ResetPeersReady, BackToLobby, TypeOK
  <2>3. state' \in AfterWaiting /\ mainAt' = "idle"
    BY <1>32 DEF RaceStopped, AfterWaiting
  <2>4. UNCHANGED <<rs, voting, loaded, peerVars, running, protos, asyncVars,
                    allGone, starter>>
    BY <1>32, Zenon DEF RaceStopped
  <2> QED BY <2>1, <2>2, <2>3, <2>4 DEF TypeOK, peerVars, asyncVars
<1>33. CASE ResultDisplayed
  BY <1>33 DEF ResultDisplayed, TypeOK, readyVars, peerVars, raceVars,
               asyncVars
<1>34. CASE UNCHANGED vars BY <1>34 DEF vars, TypeOK
<1> QED
  BY <1>1, <1>2, <1>3, <1>4, <1>5, <1>6, <1>7, <1>8, <1>9, <1>10, <1>11,
     <1>12, <1>13, <1>14, <1>15, <1>16, <1>17, <1>18, <1>19, <1>20, <1>21,
     <1>22, <1>23, <1>24, <1>25, <1>26, <1>27, <1>28, <1>29, <1>30, <1>31,
     <1>32, <1>33, <1>34
     DEF Next, AsyncEvents, Async, MainEvents, MainUpdate

-----------------------------------------------------------------------------
(* The race and its world                                                  *)

RaceInv == StateFits /\ MainLoads /\ AsyncSelects /\ Handshake /\ WorldHeld

LEMMA RaceNext ==
  ASSUME ~Ranked, TypeOK, RaceInv, [Next]_vars PROVE RaceInv'
<1> USE DEF RaceGone, Loading
<1>0. ASSUME UNCHANGED <<state, rs, voting, loaded, world, running, protos,
                         asyncHas, asyncAt, mainAt>>
      PROVE  RaceInv'
  BY <1>0 DEF RaceInv, StateFits, MainLoads, AsyncSelects, Handshake, WorldHeld
<1>1. ASSUME NEW p \in Peers, Disconnect(p) PROVE RaceInv'
  BY <1>0, <1>1 DEF Disconnect, lobbyVars, readyVars, raceVars, asyncVars,
                    mainVars
<1>2. ASSUME NEW p \in Peers, ClientLoaded(p) PROVE RaceInv'
  BY <1>0, <1>2 DEF ClientLoaded, lobbyVars, readyVars, raceVars, asyncVars,
                    mainVars
<1>3. CASE Time
  BY <1>3 DEF Time, TypeOK, readyVars, peerVars, raceVars, asyncVars,
              mainVars, RaceInv, StateFits, MainLoads, AsyncSelects,
              Handshake, WorldHeld
<1>4. CASE AsyncBegin
  BY <1>4 DEF AsyncBegin, TypeOK, lobbyVars, readyVars, peerVars, raceVars,
              mainVars, RaceInv, StateFits, MainLoads, AsyncSelects,
              Handshake, WorldHeld
<1>5. ASSUME NEW p \in Peers, ConnectionRequested(p) PROVE RaceInv'
  BY <1>0, <1>5 DEF ConnectionRequested, lobbyVars, readyVars, raceVars,
                    asyncVars, mainVars
<1>6. CASE StartSelection
  BY <1>6 DEF StartSelection, TypeOK, readyVars, peerVars, raceVars,
              asyncVars, mainVars, RaceInv, StateFits, MainLoads,
              AsyncSelects, Handshake, WorldHeld
<1>7. ASSUME NEW p \in Peers, FinishedLoadingWorldClient(p) PROVE RaceInv'
  BY <1>0, <1>7 DEF FinishedLoadingWorldClient, lobbyVars, raceVars,
                    asyncVars, mainVars
<1>8. ASSUME NEW p \in Peers, SelectingWantsToBackLobby(p) PROVE RaceInv'
  BY <1>0, <1>8 DEF SelectingWantsToBackLobby, lobbyVars, raceVars,
                    asyncVars, mainVars
<1>9. CASE AsyncUpdate
  BY <1>9 DEF AsyncUpdate, TypeOK, lobbyVars, readyVars, peerVars, raceVars,
              mainVars, RaceInv, StateFits, MainLoads, AsyncSelects,
              Handshake, WorldHeld
<1>10. CASE ResetServer
  BY <1>10 DEF ResetServer, TypeOK, raceVars, mainVars, RaceInv, StateFits,
               MainLoads, AsyncSelects, Handshake, WorldHeld
<1>11. CASE ResetDone
  BY <1>11 DEF ResetDone, TypeOK, readyVars, peerVars, raceVars, mainVars,
               RaceInv, StateFits, MainLoads, AsyncSelects, Handshake,
               WorldHeld
<1>12. CASE AsyncSwitch
  BY <1>12 DEF AsyncSwitch, TypeOK, readyVars, peerVars, raceVars, mainVars,
               RaceInv, StateFits, MainLoads, AsyncSelects, Handshake,
               WorldHeld
<1>13. CASE HandleAllVotes
  BY <1>13 DEF HandleAllVotes, TypeOK, lobbyVars, readyVars, peerVars,
               raceVars, mainVars, RaceInv, StateFits, MainLoads,
               AsyncSelects, Handshake, WorldHeld
<1>14. CASE SetRace
  BY <1>14 DEF SetRace, TypeOK, mainVars, RaceInv, StateFits, MainLoads,
               AsyncSelects, Handshake, WorldHeld
<1>15. CASE ConfigPeersStartTime
  BY <1>15 DEF ConfigPeersStartTime, TypeOK, peerVars, mainVars, RaceInv,
               StateFits, MainLoads, AsyncSelects, Handshake, WorldHeld
<1>16. CASE StartGameThread
  BY <1>16 DEF StartGameThread, TypeOK, lobbyVars, readyVars, peerVars,
               raceVars, mainVars, RaceInv, StateFits, MainLoads,
               AsyncSelects, Handshake, WorldHeld
<1>17. CASE AsyncEnd
  BY <1>17 DEF AsyncEnd, TypeOK, lobbyVars, readyVars, peerVars, raceVars,
               mainVars, RaceInv, StateFits, MainLoads, AsyncSelects,
               Handshake, WorldHeld
<1>18. CASE StarterWakes
  BY <1>18 DEF StarterWakes, TypeOK, readyVars, peerVars, raceVars,
               asyncVars, mainVars, RaceInv, StateFits, MainLoads,
               AsyncSelects, Handshake, WorldHeld
<1>19. ASSUME NEW p \in Peers, PlayerFinishedResult(p) PROVE RaceInv'
  BY <1>0, <1>19 DEF PlayerFinishedResult, lobbyVars, peerVars, raceVars,
                     asyncVars, mainVars
<1>20. ASSUME NEW p \in Peers, NEW b \in BOOLEAN, LiveJoinRequest(p, b)
       PROVE  RaceInv'
  BY <1>0, <1>20 DEF LiveJoinRequest, lobbyVars, readyVars, asyncVars,
                     mainVars
<1>21. ASSUME NEW p \in Peers, FinishedLoadingLiveJoin(p) PROVE RaceInv'
  BY <1>0, <1>21 DEF FinishedLoadingLiveJoin, lobbyVars, readyVars, raceVars,
                     asyncVars, mainVars
<1>22. ASSUME NEW p \in Peers, InGameWantsToBackLobby(p) PROVE RaceInv'
  BY <1>0, <1>22 DEF InGameWantsToBackLobby, lobbyVars, asyncVars, mainVars
<1>23. CASE WorldLoaded
  BY <1>23 DEF WorldLoaded, TypeOK, readyVars, peerVars, asyncVars, mainVars,
               RaceInv, StateFits, MainLoads, AsyncSelects, Handshake,
               WorldHeld
<1>24. CASE WorldProceeds
  BY <1>24 DEF WorldProceeds, TypeOK, lobbyVars, readyVars, peerVars,
               asyncVars, mainVars, RaceInv, StateFits, MainLoads,
               AsyncSelects, Handshake, WorldHeld
<1>25. CASE Update
  BY <1>25 DEF Update, TypeOK, readyVars, peerVars, asyncVars, BackToLobby,
               ProtocolStopped, InRace, RaceInv, StateFits, MainLoads,
               AsyncSelects, Handshake, WorldHeld
<1>26. CASE UpdatePlayers
  BY <1>26 DEF UpdatePlayers, TypeOK, readyVars, peerVars, asyncVars,
               RaceInv, StateFits, MainLoads, AsyncSelects, Handshake,
               WorldHeld
<1>27. CASE Nothing
  BY <1>27 DEF Nothing, TypeOK, lobbyVars, readyVars, peerVars, raceVars,
               asyncVars, ProtocolStopped, RaceInv, StateFits, MainLoads,
               AsyncSelects, Handshake, WorldHeld
<1>28. CASE CaseLoadWorld
  BY <1>28 DEF CaseLoadWorld, TypeOK, lobbyVars, readyVars, peerVars,
               raceVars, asyncVars, RaceInv, StateFits, MainLoads,
               AsyncSelects, Handshake, WorldHeld
<1>29. CASE LoadWorld
  BY <1>29 DEF LoadWorld, TypeOK, lobbyVars, readyVars, peerVars, asyncVars,
               RaceInv, StateFits, MainLoads, AsyncSelects, Handshake,
               WorldHeld
<1>30. CASE LoadedWorld
  BY <1>30 DEF LoadedWorld, TypeOK, readyVars, peerVars, raceVars, asyncVars,
               RaceInv, StateFits, MainLoads, AsyncSelects, Handshake,
               WorldHeld
<1>31. CASE RaceFinished
  BY <1>31 DEF RaceFinished, TypeOK, readyVars, peerVars, asyncVars, RaceInv,
               StateFits, MainLoads, AsyncSelects, Handshake, WorldHeld
<1>32. CASE RaceStopped
  BY <1>32 DEF RaceStopped, TypeOK, peerVars, asyncVars, BackToLobby,
               ProtocolStopped, RaceInv, StateFits, MainLoads, AsyncSelects,
               Handshake, WorldHeld
<1>33. CASE ResultDisplayed
  BY <1>33 DEF ResultDisplayed, TypeOK, readyVars, peerVars, raceVars,
               asyncVars, RaceInv, StateFits, MainLoads, AsyncSelects,
               Handshake, WorldHeld
<1>34. CASE UNCHANGED vars BY <1>0, <1>34 DEF vars
<1> QED
  BY <1>1, <1>2, <1>3, <1>4, <1>5, <1>6, <1>7, <1>8, <1>9, <1>10, <1>11,
     <1>12, <1>13, <1>14, <1>15, <1>16, <1>17, <1>18, <1>19, <1>20, <1>21,
     <1>22, <1>23, <1>24, <1>25, <1>26, <1>27, <1>28, <1>29, <1>30, <1>31,
     <1>32, <1>33, <1>34
     DEF Next, AsyncEvents, Async, MainEvents, MainUpdate

-----------------------------------------------------------------------------
(* Who is waited for                                                       *)

\* InGameListed is inductive together with the types.
LEMMA ListedNext ==
  ASSUME TypeOK, InGameListed, [Next]_vars PROVE InGameListed'
<1> USE DEF InGame
<1>0. ASSUME UNCHANGED <<conn, listed>> PROVE InGameListed'
  BY <1>0 DEF InGameListed
<1>1. ASSUME NEW p \in Peers, NEW to \in {"waiting", "left"},
             conn' = [conn EXCEPT ![p] = to],
             listed' \in {listed, listed \ {p}}
      PROVE  InGameListed'
  BY <1>1 DEF InGameListed, TypeOK
<1>2. ASSUME NEW p \in Peers, conn' = [conn EXCEPT ![p] = "ingame"],
             listed' = listed \cup {p}
      PROVE  InGameListed'
  BY <1>2 DEF InGameListed, TypeOK
<1>3. ASSUME conn' = conn, ResetPeersReady PROVE InGameListed'
  BY <1>3 DEF InGameListed, ResetPeersReady, Connected
<1>4. ASSUME NEW p \in Peers, Disconnect(p) PROVE InGameListed'
  BY <1>1, <1>4 DEF Disconnect, readyVars
<1>5. ASSUME NEW p \in Peers, ConnectionRequested(p) PROVE InGameListed'
  BY <1>1, <1>2, <1>5 DEF ConnectionRequested, readyVars
<1>6. ASSUME NEW p \in Peers,
             SelectingWantsToBackLobby(p) \/ InGameWantsToBackLobby(p)
      PROVE  InGameListed'
  BY <1>1, <1>6 DEF SelectingWantsToBackLobby, InGameWantsToBackLobby
<1>7. ASSUME NEW p \in Peers, FinishedLoadingLiveJoin(p) PROVE InGameListed'
  BY <1>0, <1>2, <1>7 DEF FinishedLoadingLiveJoin, readyVars
<1>8. CASE ResetServer
  BY <1>8 DEF ResetServer, WaitingListed, InGameListed, Connected, TypeOK
<1>9. CASE SetRace BY <1>3, <1>9 DEF SetRace
<1>10. CASE ConfigPeersStartTime
  BY <1>3, <1>10 DEF ConfigPeersStartTime, peerVars
<1>11. CASE RaceStopped BY <1>3, <1>11 DEF RaceStopped, peerVars
<1>12. ASSUME NEW p \in Peers,
              \/ ClientLoaded(p) \/ FinishedLoadingWorldClient(p)
              \/ PlayerFinishedResult(p)
              \/ \E spectator \in BOOLEAN : LiveJoinRequest(p, spectator)
       PROVE  InGameListed'
  BY <1>0, <1>12 DEF ClientLoaded, FinishedLoadingWorldClient,
                     PlayerFinishedResult, LiveJoinRequest, readyVars, peerVars
<1>13. CASE \/ Time \/ AsyncBegin \/ StartSelection \/ AsyncUpdate
            \/ ResetDone \/ AsyncSwitch \/ HandleAllVotes \/ StartGameThread
            \/ AsyncEnd \/ StarterWakes
  BY <1>0, <1>13 DEF Time, AsyncBegin, StartSelection, AsyncUpdate, ResetDone,
                     AsyncSwitch, HandleAllVotes, StartGameThread, AsyncEnd,
                     StarterWakes, readyVars, peerVars
<1>14. CASE \/ WorldLoaded \/ WorldProceeds \/ Update \/ UpdatePlayers
            \/ Nothing \/ CaseLoadWorld \/ LoadWorld \/ LoadedWorld
            \/ RaceFinished \/ ResultDisplayed \/ UNCHANGED vars
  BY <1>0, <1>14 DEF WorldLoaded, WorldProceeds, Update, UpdatePlayers, Nothing,
                     CaseLoadWorld, LoadWorld, LoadedWorld, RaceFinished,
                     ResultDisplayed, readyVars, peerVars, vars
<1> QED
  BY <1>4, <1>5, <1>6, <1>7, <1>8, <1>9, <1>10, <1>11, <1>12, <1>13, <1>14
     DEF Next, AsyncEvents, Async, MainEvents, MainUpdate

-----------------------------------------------------------------------------
(* Who has still to load the world                                         *)

\* Those whose message that they have loaded the world has not been handled.
Owing == toLoad \cup inbox

\* As long as somebody owes that message, he is a player of the race who is
\* not marked as ready, and the race has not got beyond loading.
LoadPhase ==
    Owing # {} =>
        /\ Owing \subseteq karts \cap InGame
        /\ toLoad \cap inbox = {} /\ ready \cap Owing = {}
        /\ state \in {"LOAD_WORLD", "WAIT_FOR_WORLD_LOADED", "RACING"}
        /\ world \in {"none", "setup", "server"}
        /\ asyncAt \notin {"votes", "race", "config"}

\* A reset begins only when nobody owes it; a race that the async thread is
\* still setting up then is one of no players.
ResetQuiet ==
    rs # "NONE" =>
        /\ Owing = {}
        /\ state = "WAITING_FOR_START_GAME" => asyncAt = "cleared"
        /\ state = "SELECTING" => voting = "none"
        /\ asyncAt \in {"votes", "race"} => InGame = {}

\* Between its two tests, update() holds the answer to the first one, which
\* still excludes that another race is being set up.
AllGoneFits ==
    mainAt = "players" /\ allGone =>
        /\ Owing = {}
        /\ state \in InRace \cup {"WAITING_FOR_START_GAME"}
        /\ state = "WAITING_FOR_START_GAME" => asyncAt # "events"
        /\ asyncAt \notin {"votes", "race"}

LoadInv == LoadPhase /\ ResetQuiet /\ AllGoneFits

LEMMA LoadPhaseNext ==
  ASSUME ~Ranked, TypeOK, RaceInv, InGameListed, LoadInv, [Next]_vars
  PROVE  LoadPhase'
<1> USE DEF lobbyVars, readyVars, peerVars, raceVars, asyncVars, mainVars
<1>0. ASSUME UNCHANGED <<toLoad, inbox, karts, conn, ready>>,
             state' \in {state, "WAIT_FOR_WORLD_LOADED", "RACING"},
             Owing # {} => /\ world' \in {"none", "setup", "server"}
                           /\ asyncAt' \notin {"votes", "race", "config"}
      PROVE  LoadPhase'
  BY <1>0 DEF LoadInv, LoadPhase, Owing, InGame
<1>1. ASSUME Owing' = {} PROVE LoadPhase'
  BY <1>1 DEF LoadPhase
<1>2. ASSUME NEW p \in Peers, Disconnect(p) PROVE LoadPhase'
  BY <1>2 DEF Disconnect, Connected, TypeOK, LoadInv, LoadPhase, Owing, InGame
<1>3. ASSUME NEW p \in Peers, ClientLoaded(p) PROVE LoadPhase'
  BY <1>3 DEF ClientLoaded, LoadInv, LoadPhase, Owing, InGame
<1>4. ASSUME NEW p \in Peers, ConnectionRequested(p) PROVE LoadPhase'
  BY <1>4 DEF ConnectionRequested, TypeOK, LoadInv, LoadPhase, Owing, InGame
<1>5. ASSUME NEW p \in Peers, FinishedLoadingWorldClient(p) PROVE LoadPhase'
  BY <1>5 DEF FinishedLoadingWorldClient, LoadInv, LoadPhase, Owing, InGame
<1>6. ASSUME NEW p \in Peers, SelectingWantsToBackLobby(p) PROVE LoadPhase'
  BY <1>1, <1>6 DEF SelectingWantsToBackLobby, LoadInv, LoadPhase, Owing
<1>7. CASE StartSelection
  BY <1>1, <1>7 DEF StartSelection, LoadInv, LoadPhase, Owing
<1>8. CASE ResetServer
  BY <1>1, <1>8 DEF ResetServer, RaceInv, Handshake, LoadInv, ResetQuiet, Owing
<1>9. CASE AsyncSwitch
  <2>1. asyncAt' = "votes" => state = "SELECTING"
    BY <1>9 DEF AsyncSwitch
  <2>2. asyncAt' = "config" => InGame \subseteq ready
    BY <1>9 DEF AsyncSwitch, CheckPeersReady, InGameListed, InGame, Connected
  <2>3. asyncAt' \in {"votes", "config", "end"} BY <1>9 DEF AsyncSwitch
  <2>4. UNCHANGED <<toLoad, inbox, karts, conn, ready, state, world>>
    BY <1>9 DEF AsyncSwitch
  <2>5. Owing # {} => asyncAt' \notin {"votes", "race", "config"}
    BY <2>1, <2>2, <2>3 DEF LoadInv, LoadPhase
  <2> QED BY <2>4, <2>5, <1>0 DEF LoadInv, LoadPhase
<1>10. CASE SetRace
  <2>1. Owing = {} /\ world = "none"
    BY <1>10 DEF SetRace, LoadInv, LoadPhase, RaceInv, AsyncSelects, RaceGone
  <2>2. /\ toLoad' = InGame /\ inbox' = {} /\ karts' = InGame /\ ready' = {}
        /\ state' = "LOAD_WORLD" /\ world' = "none" /\ asyncAt' = "end"
        /\ conn' = conn
    BY <1>10, <2>1 DEF SetRace, Owing, ResetPeersReady
  <2> QED BY <2>2 DEF LoadPhase, Owing, InGame
<1>11. CASE ConfigPeersStartTime
  BY <1>1, <1>11 DEF ConfigPeersStartTime, LoadInv, LoadPhase, Owing
<1>12. CASE \/ AsyncBegin \/ AsyncUpdate \/ ResetDone \/ HandleAllVotes
            \/ StartGameThread \/ AsyncEnd
  <2>1. UNCHANGED <<toLoad, inbox, karts, conn, ready, state, world>>
    BY <1>12 DEF AsyncBegin, AsyncUpdate, ResetDone, HandleAllVotes,
                 StartGameThread, AsyncEnd
  <2>2. Owing # {} => asyncAt' \notin {"votes", "race", "config"}
    BY <1>12 DEF AsyncBegin, AsyncUpdate, ResetDone, HandleAllVotes,
                 StartGameThread, AsyncEnd, LoadInv, LoadPhase
  <2> QED BY <2>1, <2>2, <1>0 DEF LoadInv, LoadPhase
<1>13. CASE StarterWakes BY <1>0, <1>13 DEF StarterWakes, LoadInv, LoadPhase
<1>14. CASE Time BY <1>0, <1>14 DEF Time, LoadInv, LoadPhase
<1>15. ASSUME NEW p \in Peers, PlayerFinishedResult(p) PROVE LoadPhase'
  BY <1>1, <1>15 DEF PlayerFinishedResult, LoadInv, LoadPhase, Owing
<1>16. ASSUME WorldIsActive, UNCHANGED <<toLoad, inbox>> PROVE LoadPhase'
  BY <1>1, <1>16 DEF WorldIsActive, LoadInv, LoadPhase, Owing
<1>17. ASSUME NEW p \in Peers, NEW b \in BOOLEAN, LiveJoinRequest(p, b)
       PROVE  LoadPhase'
  BY <1>16, <1>17 DEF LiveJoinRequest
<1>18. ASSUME NEW p \in Peers, FinishedLoadingLiveJoin(p) PROVE LoadPhase'
  BY <1>0, <1>16, <1>18 DEF FinishedLoadingLiveJoin, LoadInv, LoadPhase
<1>19. ASSUME NEW p \in Peers, InGameWantsToBackLobby(p) PROVE LoadPhase'
  BY <1>16, <1>19 DEF InGameWantsToBackLobby
<1>20. CASE WorldLoaded BY <1>0, <1>20 DEF WorldLoaded, LoadInv, LoadPhase
<1>21. CASE WorldProceeds
  BY <1>1, <1>21 DEF WorldProceeds, LoadInv, LoadPhase, Owing
<1>22. CASE Update
  <2>1. CASE UNCHANGED <<world, karts>>
    BY <1>0, <1>22, <2>1 DEF Update, LoadInv, LoadPhase
  <2>2. CASE rs = "WAITING"
    BY <1>1, <1>22, <2>2 DEF Update, LoadInv, ResetQuiet, Owing
  <2> QED BY <1>22, <2>1, <2>2 DEF Update
<1>23. CASE UpdatePlayers BY <1>0, <1>23 DEF UpdatePlayers, LoadInv, LoadPhase
<1>24. CASE Nothing \/ CaseLoadWorld \/ ResultDisplayed \/ UNCHANGED vars
  BY <1>0, <1>24 DEF Nothing, CaseLoadWorld, ResultDisplayed, vars, LoadInv,
                     LoadPhase
<1>25. CASE LoadWorld \/ LoadedWorld
  BY <1>0, <1>25 DEF LoadWorld, LoadedWorld, LoadInv, LoadPhase
<1>26. CASE RaceFinished
  BY <1>1, <1>26 DEF RaceFinished, LoadInv, LoadPhase, Owing
<1>27. CASE RaceStopped
  BY <1>1, <1>27 DEF RaceStopped, LoadInv, LoadPhase, Owing
<1> QED
  BY <1>2, <1>3, <1>4, <1>5, <1>6, <1>7, <1>8, <1>9, <1>10, <1>11, <1>12,
     <1>13, <1>14, <1>15, <1>17, <1>18, <1>19, <1>20, <1>21, <1>22, <1>23,
     <1>24, <1>25, <1>26, <1>27
     DEF Next, AsyncEvents, Async, MainEvents, MainUpdate

LEMMA ResetQuietNext ==
  ASSUME ~Ranked, TypeOK, RaceInv, LoadInv, [Next]_vars
  PROVE  ResetQuiet'
<1> USE DEF lobbyVars, readyVars, peerVars, raceVars, asyncVars, mainVars
<1>0. ASSUME Owing' \subseteq Owing, InGame' \subseteq InGame,
             state' \in {state, "RACING"}, voting' = "none" \/ voting' = voting
                                                \/ voting # "none",
             rs' = rs, asyncAt' = asyncAt
      PROVE  ResetQuiet'
  BY <1>0 DEF LoadInv, ResetQuiet
<1>1. ASSUME rs' = "NONE" PROVE ResetQuiet'
  BY <1>1 DEF ResetQuiet
<1>2. ASSUME NEW p \in Peers, Disconnect(p) PROVE ResetQuiet'
  BY <1>0, <1>2 DEF Disconnect, TypeOK, Owing, InGame
<1>3. ASSUME NEW p \in Peers,
             ClientLoaded(p) \/ FinishedLoadingWorldClient(p)
      PROVE  ResetQuiet'
  BY <1>0, <1>3 DEF ClientLoaded, FinishedLoadingWorldClient, Owing, InGame
<1>4. ASSUME NEW p \in Peers, ConnectionRequested(p) PROVE ResetQuiet'
  BY <1>4 DEF ConnectionRequested, LoadInv, ResetQuiet, Owing
<1>5. ASSUME NEW p \in Peers, SelectingWantsToBackLobby(p) PROVE ResetQuiet'
  BY <1>0, <1>5 DEF SelectingWantsToBackLobby, TypeOK, Owing, InGame
<1>6. CASE StartSelection
  BY <1>6 DEF StartSelection, LoadInv, ResetQuiet
<1>7. CASE ResetServer
  BY <1>7 DEF ResetServer, RaceInv, Handshake, LoadInv, ResetQuiet, Owing
<1>8. CASE ResetDone BY <1>1, <1>8 DEF ResetDone
<1>9. CASE AsyncSwitch
  BY <1>9 DEF AsyncSwitch, LoadInv, ResetQuiet, Owing, InGame
<1>10. CASE SetRace
  BY <1>10 DEF SetRace, LoadInv, ResetQuiet, Owing
<1>11. CASE ConfigPeersStartTime
  BY <1>11 DEF ConfigPeersStartTime, LoadInv, ResetQuiet, Owing
<1>12. CASE AsyncBegin \/ AsyncUpdate \/ HandleAllVotes \/ StartGameThread
            \/ AsyncEnd
  BY <1>12 DEF AsyncBegin, AsyncUpdate, HandleAllVotes, StartGameThread,
               AsyncEnd, LoadInv, ResetQuiet, Owing, InGame
<1>13. CASE StarterWakes BY <1>0, <1>13 DEF StarterWakes, Owing, InGame
<1>14. CASE Time BY <1>0, <1>14 DEF Time, Owing, InGame
<1>15. ASSUME NEW p \in Peers,
              \/ PlayerFinishedResult(p)
              \/ \E b \in BOOLEAN : LiveJoinRequest(p, b)
       PROVE  ResetQuiet'
  BY <1>0, <1>15 DEF PlayerFinishedResult, LiveJoinRequest, Owing, InGame
<1>16. ASSUME WorldIsActive, rs' = rs PROVE ResetQuiet'
  BY <1>1, <1>16 DEF WorldIsActive, RaceInv, Handshake, TypeOK
<1>17. ASSUME NEW p \in Peers, FinishedLoadingLiveJoin(p) PROVE ResetQuiet'
  BY <1>0, <1>16, <1>17 DEF FinishedLoadingLiveJoin, Owing, InGame
<1>18. ASSUME NEW p \in Peers, InGameWantsToBackLobby(p) PROVE ResetQuiet'
  BY <1>16, <1>18 DEF InGameWantsToBackLobby
<1>19. CASE WorldLoaded \/ WorldProceeds \/ Nothing \/ CaseLoadWorld \/ LoadWorld
            \/ UNCHANGED vars
  BY <1>0, <1>19 DEF WorldLoaded, WorldProceeds, Nothing, CaseLoadWorld,
                     LoadWorld, vars, Owing, InGame
<1>20. CASE Update
  BY <1>20 DEF Update, BackToLobby, LoadInv, ResetQuiet, Owing, InGame
<1>21. CASE UpdatePlayers
  <2>1. CASE rs = "NONE" /\ state \in AfterWaiting /\ NobodyLeft
    <3>1. /\ voting' = "none"
          /\ UNCHANGED <<state, conn, toLoad, inbox, asyncAt>>
          /\ mainAt = "players"
      BY <1>21, <2>1 DEF UpdatePlayers
    <3>2. Owing = {} /\ (asyncAt \in {"votes", "race"} => InGame = {})
      BY <2>1, <3>1 DEF NobodyLeft, LoadInv, AllGoneFits, LoadPhase
    <3>3. state # "WAITING_FOR_START_GAME" BY <2>1 DEF AfterWaiting, InRace
    <3> QED BY <3>1, <3>2, <3>3 DEF ResetQuiet, Owing, InGame
  <2>2. CASE ~(rs = "NONE" /\ state \in AfterWaiting /\ NobodyLeft)
    <3>1. UNCHANGED <<rs, voting, state, conn, toLoad, inbox, asyncAt>>
      BY <1>21, <2>2 DEF UpdatePlayers
    <3> QED BY <1>0, <3>1 DEF Owing, InGame
  <2> QED BY <2>1, <2>2
<1>22. CASE LoadedWorld \/ RaceFinished
  <2>1. rs = "NONE" /\ rs' = rs
    BY <1>22 DEF LoadedWorld, RaceFinished, RaceInv, Handshake
  <2> QED BY <1>1, <2>1
<1>23. CASE RaceStopped
  BY <1>1, <1>23 DEF RaceStopped, RaceInv, Handshake
<1>24. CASE ResultDisplayed
  BY <1>24 DEF ResultDisplayed, LoadInv, LoadPhase, ResetQuiet, RaceInv,
               AsyncSelects, Owing
<1> QED
  BY <1>2, <1>3, <1>4, <1>5, <1>6, <1>7, <1>8, <1>9, <1>10, <1>11, <1>12,
     <1>13, <1>14, <1>15, <1>17, <1>18, <1>19, <1>20, <1>21, <1>22, <1>23,
     <1>24
     DEF Next, AsyncEvents, Async, MainEvents, MainUpdate

LEMMA AllGoneNext ==
  ASSUME ~Ranked, TypeOK, RaceInv, LoadInv, [Next]_vars
  PROVE  AllGoneFits'
<1> USE DEF lobbyVars, readyVars, peerVars, raceVars, asyncVars, mainVars
<1>0. ASSUME mainAt' = "players" => mainAt = "players", allGone' = allGone,
             Owing' \subseteq Owing, asyncAt' = asyncAt,
             state' \in {state, "RACING"}
      PROVE  AllGoneFits'
  BY <1>0 DEF LoadInv, AllGoneFits, InRace
<1>1. ASSUME mainAt' # "players" PROVE AllGoneFits'
  BY <1>1 DEF AllGoneFits
<1>2. ASSUME NEW p \in Peers,
             \/ Disconnect(p) \/ ClientLoaded(p) \/ ConnectionRequested(p)
             \/ FinishedLoadingWorldClient(p) \/ SelectingWantsToBackLobby(p)
      PROVE  AllGoneFits'
  BY <1>0, <1>2 DEF Disconnect, ClientLoaded, ConnectionRequested,
       FinishedLoadingWorldClient, SelectingWantsToBackLobby, Owing
<1>3. CASE Time \/ StarterWakes \/ UNCHANGED vars
  BY <1>0, <1>3 DEF Time, StarterWakes, vars, Owing
<1>4. CASE StartSelection
  BY <1>4 DEF StartSelection, LoadInv, AllGoneFits
<1>5. CASE AsyncBegin BY <1>1, <1>5 DEF AsyncBegin
<1>6. CASE ResetServer BY <1>6 DEF ResetServer, LoadInv, AllGoneFits, Owing
<1>7. CASE SetRace BY <1>7 DEF SetRace, LoadInv, AllGoneFits
<1>8. CASE ConfigPeersStartTime
  BY <1>8 DEF ConfigPeersStartTime, LoadInv, AllGoneFits, Owing, InRace
<1>9. CASE AsyncUpdate \/ ResetDone \/ AsyncSwitch \/ HandleAllVotes
           \/ StartGameThread \/ AsyncEnd
  BY <1>9 DEF AsyncUpdate, ResetDone, AsyncSwitch, HandleAllVotes,
              StartGameThread, AsyncEnd, LoadInv, AllGoneFits, Owing, InRace
<1>10. CASE Update
  <2> SUFFICES ASSUME allGone' = TRUE PROVE AllGoneFits' BY DEF AllGoneFits
  <2>1. /\ world # "none" /\ state \in InRace /\ karts \cap Connected = {}
        /\ UNCHANGED <<toLoad, inbox, state, asyncAt>>
    BY <1>10 DEF Update
  <2>2. Owing = {}
    BY <2>1 DEF LoadInv, LoadPhase, InGame, Connected
  <2>3. asyncAt \notin {"votes", "race"}
    BY <2>1 DEF RaceInv, AsyncSelects, RaceGone
  <2>4. state # "WAITING_FOR_START_GAME" BY <2>1 DEF InRace
  <2> QED BY <2>1, <2>2, <2>3, <2>4 DEF AllGoneFits, Owing
<1>11. CASE UpdatePlayers BY <1>1, <1>11 DEF UpdatePlayers
<1>12. CASE \/ Nothing \/ CaseLoadWorld \/ LoadWorld \/ LoadedWorld
            \/ RaceFinished \/ RaceStopped \/ ResultDisplayed
  BY <1>1, <1>12 DEF Nothing, CaseLoadWorld, LoadWorld, LoadedWorld,
                     RaceFinished, RaceStopped, ResultDisplayed
<1>13. CASE MainEvents \/ WorldLoaded \/ WorldProceeds
  BY <1>1, <1>13 DEF MainEvents, PlayerFinishedResult, LiveJoinRequest,
       FinishedLoadingLiveJoin, InGameWantsToBackLobby, WorldLoaded,
       WorldProceeds
<1> QED
  BY <1>2, <1>3, <1>4, <1>5, <1>6, <1>7, <1>8, <1>9, <1>10, <1>11, <1>12, <1>13
     DEF Next, AsyncEvents, Async, MainUpdate

-----------------------------------------------------------------------------
(* The theorems                                                            *)

LEMMA TypeInit == Init => TypeOK
BY DEF Init, TypeOK, AfterWaiting

LEMMA RaceInit == Init => RaceInv
BY DEF Init, RaceInv, StateFits, MainLoads, AsyncSelects, Handshake, WorldHeld,
       RaceGone, Loading

\* Every variable keeps its type.
THEOREM TypeCorrect == Spec => []TypeOK
BY TypeInit, TypeNext, PTL DEF Spec

\* A peer that is in the game is one the server waits for, through connection,
\* live join, giving up, disconnection and every kind of reset.
THEOREM AlwaysListed == Spec => []InGameListed
<1>1. Init => InGameListed
  BY DEF Init, InGameListed, InGame
<1> QED BY <1>1, TypeInit, TypeNext, ListedNext, PTL DEF Spec

\* The conjunction that is inductive on an unranked server.
THEOREM Invariant == ~Ranked => (Spec => []IInv)
<1>1. SUFFICES ASSUME ~Ranked PROVE Spec => []IInv
  OBVIOUS
<1>2. Init => IInv BY TypeInit, RaceInit DEF IInv, RaceInv
<1>3. IInv /\ [Next]_vars => IInv'
  BY <1>1, TypeNext, RaceNext DEF IInv, RaceInv
<1> QED BY <1>2, <1>3, PTL DEF Spec

\* configPeersStartTime, on the async thread, finds the world it uses without
\* a lock, although the main thread may be resetting the server.
THEOREM WorldIsAlive == ~Ranked => (Spec => []WorldAlive)
<1>1. IInv => WorldAlive BY DEF IInv, WorldHeld, WorldAlive
<1> QED BY <1>1, Invariant, PTL

\* A world is loaded only when nothing of the previous one is left.
THEOREM OneWorld == ~Ranked => (Spec => []LoadsOneWorld)
<1>1. IInv => LoadsOneWorld
  BY DEF IInv, MainLoads, RaceGone, LoadsOneWorld
<1> QED BY <1>1, Invariant, PTL

\* The async thread resets the lobby only after the main thread's half of the
\* handshake: the race, its protocols and its world are gone.
THEOREM ResetOrder == ~Ranked => (Spec => []ResetAfterMain)
<1>1. IInv => ResetAfterMain
  BY DEF IInv, Handshake, RaceGone, ResetAfterMain
<1> QED BY <1>1, Invariant, PTL

\* On an unranked server the start time is sent only when every player of the
\* race has loaded the world and said so, although the main thread may begin a
\* reset, and a starter left over from the last race may wake, at any time.
THEOREM AllLoaded == ~Ranked => (Spec => []AllHaveLoaded)
<1>1. SUFFICES ASSUME ~Ranked PROVE Spec => []AllHaveLoaded
  OBVIOUS
<1>2. Init => LoadInv
  BY DEF Init, LoadInv, LoadPhase, ResetQuiet, AllGoneFits, Owing
<1>3. IInv /\ InGameListed /\ LoadInv /\ [Next]_vars => LoadInv'
  BY <1>1, LoadPhaseNext, ResetQuietNext, AllGoneNext
     DEF IInv, RaceInv, LoadInv
<1>4. LoadInv => AllHaveLoaded
  BY DEF LoadInv, LoadPhase, Owing, AllHaveLoaded
<1>5. Spec => []IInv BY <1>1, Invariant
<1> QED BY <1>2, <1>3, <1>4, <1>5, AlwaysListed, PTL DEF Spec
=============================================================================
