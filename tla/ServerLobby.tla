---------------------------- MODULE ServerLobby ----------------------------
(***************************************************************************)
(* ServerLobby (server_lobby.cpp), the state machine of a server, as three *)
(* threads run it at once:                                                 *)
(*   main     update(), the synchronous messages, and the world            *)
(*   async    asynchronousUpdate(), the other messages                     *)
(*   starter  m_start_game_thread, which sleeps until the race starts      *)
(* No lock protects m_state: each thread stores its successor states.  The *)
(* lobby is put back to its initial state by a handshake over m_rs_state:  *)
(* main lets the protocols of the race stop and deletes the world, then    *)
(* async resets the lobby.                                                 *)
(*                                                                         *)
(* Left out: Grand Prix, AI peers, owner-less servers, the start of the    *)
(* program up to the first WAITING_FOR_START_GAME, and what is voted.      *)
(***************************************************************************)
EXTENDS FiniteSets, Naturals

CONSTANTS Peers,   \* the connections (STKPeer), each of which connects once
          Ranked   \* ServerConfig::m_ranked

ASSUME LobbyAssumption == IsFiniteSet(Peers) /\ Ranked \in BOOLEAN

VARIABLES
    state,    \* m_state
    rs,       \* m_rs_state
    voting,   \* m_end_voting_period: 0, in the future or in the past
    loaded,   \* m_server_has_loaded_world
    timeUp,   \* m_timeout is in the past
    listed,   \* keys of m_peers_ready
    ready,    \* those that map to true
    conn,     \* validated peers: waitingForGame or not
    joining,  \* peers that live-join: loading the world, or done with it
    toLoad,   \* peers that load the world because of LE_LOAD_WORLD
    inbox,    \* peers whose LE_CLIENT_LOADED_WORLD waits to be handled
    world,    \* World::getWorld(), by its phase
    karts,    \* peers with a player of theirs in the kart info of the race
    running,  \* RaceEventManager::isRunning()
    protos,   \* GameProtocol and GameEventsProtocol run
    asyncHas, \* the copy of the running protocols async works with has them
    asyncAt,  \* where the async thread is
    mainAt,   \* where the main thread is
    allGone,  \* update: all_players_in_world_disconnected
    starter   \* m_start_game_thread

lobbyVars == <<state, rs, voting, loaded, timeUp>>
readyVars == <<listed, ready>>
peerVars  == <<conn, joining, toLoad, inbox>>
raceVars  == <<world, karts, running, protos>>
asyncVars == <<asyncHas, asyncAt>>
mainVars  == <<mainAt, allGone>>
vars == <<state, rs, voting, loaded, timeUp, listed, ready, conn, joining,
          toLoad, inbox, world, karts, running, protos, asyncHas, asyncAt,
          mainAt, allGone, starter>>

Connected == {p \in Peers : conn[p] \in {"waiting", "ingame"}}

\* updatePlayers: what getPlayersInGame counts.
InGame == {p \in Peers : conn[p] = "ingame"}

InRace == {"WAIT_FOR_WORLD_LOADED", "WAIT_FOR_RACE_STARTED", "RACING"}
AfterWaiting == InRace \cup
    {"SELECTING", "LOAD_WORLD", "WAIT_FOR_RACE_STOPPED", "RESULT_DISPLAY"}

\* Mutant: one peer that is ready is enough.
AnyPeerReady == listed \cap Connected \cap ready # {}

CheckPeersReady == listed \cap Connected \subseteq ready

\* The entries of peers that have disconnected go, the others become false.
ResetPeersReady ==
    /\ listed' = listed \cap Connected
    /\ ready' = {}

WorldIsActive == world = "race" /\ running

\* Mutant: nobody waits for those who still use the protocols.
ProtocolsTerminated == ~protos

\* protocolStopped() and GameProtocol::emptyInstance(): weak pointers, which
\* expire with the last copy.  The copy of the main thread does not count: it
\* renews that one between requestTerminate and this test.
ProtocolStopped == ~protos /\ ~asyncHas

-----------------------------------------------------------------------------
Init ==
    /\ state = "WAITING_FOR_START_GAME" /\ rs = "NONE" /\ voting = "none"
    /\ loaded = FALSE /\ timeUp = FALSE
    /\ listed = {} /\ ready = {}
    /\ conn = [p \in Peers |-> "new"]
    /\ joining = {} /\ toLoad = {} /\ inbox = {}
    /\ world = "none" /\ karts = {} /\ running = FALSE /\ protos = FALSE
    /\ asyncHas = FALSE /\ asyncAt = "idle"
    /\ mainAt = "idle" /\ allGone = FALSE
    /\ starter = "idle"

-----------------------------------------------------------------------------
(* The clients and time                                                    *)

\* A peer disconnects, is kicked or times out, at any time; its entry in
\* m_peers_ready expires and so do its players in the race.
Disconnect(p) ==
    /\ p \in Connected
    /\ conn' = [conn EXCEPT ![p] = "left"]
    /\ joining' = joining \ {p} /\ toLoad' = toLoad \ {p}
    /\ inbox' = inbox \ {p}
    /\ UNCHANGED <<lobbyVars, readyVars, raceVars, asyncVars, mainVars,
                   starter>>

\* A client has loaded the world it was told to load.
ClientLoaded(p) ==
    /\ p \in toLoad
    /\ toLoad' = toLoad \ {p} /\ inbox' = inbox \cup {p}
    /\ UNCHANGED <<lobbyVars, readyVars, conn, joining, raceVars, asyncVars,
                   mainVars, starter>>

Time ==
    /\ \/ /\ voting \in {"running", "late"}
          /\ voting' = IF voting = "running" THEN "late" ELSE "over"
          /\ UNCHANGED timeUp
       \/ /\ state = "RESULT_DISPLAY" /\ ~timeUp /\ timeUp' = TRUE
          /\ UNCHANGED voting
    /\ UNCHANGED <<state, rs, loaded, readyVars, peerVars, raceVars, asyncVars,
                   mainVars, starter>>

-----------------------------------------------------------------------------
(* The async thread: a pass of ProtocolManager::asynchronousUpdate copies  *)
(* the list of protocols, delivers messages, and then calls                *)
(* ServerLobby::asynchronousUpdate.                                        *)

\* The thread sleeps for 2 ms between two passes: there is no whole pass
\* between the first two tests of update().
AsyncBegin ==
    /\ asyncAt = "idle" /\ mainAt # "players"
    /\ asyncHas' = protos
    /\ asyncAt' = "events"
    /\ UNCHANGED <<lobbyVars, readyVars, peerVars, raceVars, mainVars, starter>>

\* connectionRequested and what follows when the player is accepted.
ConnectionRequested(p) ==
    /\ asyncAt = "events" /\ conn[p] = "new"
    /\ IF state # "WAITING_FOR_START_GAME"
       THEN /\ conn' = [conn EXCEPT ![p] = "waiting"]
            /\ UNCHANGED readyVars
       ELSE /\ conn' = [conn EXCEPT ![p] = "ingame"]
            /\ listed' = listed \cup {p} /\ ready' = ready \ {p}
    /\ UNCHANGED <<lobbyVars, joining, toLoad, inbox, raceVars, asyncVars,
                   mainVars, starter>>

\* The owner of the server, the first of the peers, starts the game.
StartSelection ==
    /\ asyncAt = "events" /\ state = "WAITING_FOR_START_GAME"
    /\ Connected # {}
    /\ voting' = "running"
    /\ state' = "SELECTING"
    /\ timeUp' = FALSE
    /\ UNCHANGED <<rs, loaded, readyVars, peerVars, raceVars, asyncVars,
                   mainVars, starter>>

\* finishedLoadingWorldClient; m_peers_ready.at throws for an unknown peer.
FinishedLoadingWorldClient(p) ==
    /\ asyncAt = "events" /\ p \in inbox
    /\ inbox' = inbox \ {p}
    /\ ready' = IF p \in listed THEN ready \cup {p} ELSE ready
    /\ UNCHANGED <<lobbyVars, listed, conn, joining, toLoad, raceVars,
                   asyncVars, mainVars, starter>>

\* clientSelectingAssetsWantsToBackLobby
SelectingWantsToBackLobby(p) ==
    /\ asyncAt = "events" /\ state = "SELECTING" /\ conn[p] = "ingame"
    /\ listed' = listed \ {p} /\ ready' = ready \ {p}
    /\ conn' = [conn EXCEPT ![p] = "waiting"]
    /\ UNCHANGED <<lobbyVars, joining, toLoad, inbox, raceVars, asyncVars,
                   mainVars, starter>>

\* asynchronousUpdate, once all messages are delivered.
AsyncUpdate ==
    /\ asyncAt = "events" /\ inbox = {}
    /\ asyncAt' = IF rs = "ASYNC_RESET" THEN "reset" ELSE "switch"
    /\ UNCHANGED <<lobbyVars, readyVars, peerVars, raceVars, asyncHas,
                   mainVars, starter>>

\* Mutant: a peer that waited is told that it is in the game, but not listed.
PlayersListed == listed \cap Connected

\* addWaitingPlayersToGame adds every validated peer, and resetPeersReady
\* removes the others.
WaitingListed == Connected

\* resetVotingTime and resetServer, which ends in setup().
ResetServer ==
    /\ asyncAt = "reset"
    /\ voting' = "none"
    /\ conn' = [p \in Peers |->
                    IF p \in Connected THEN "ingame" ELSE conn[p]]
    /\ listed' = WaitingListed /\ ready' = {}
    /\ loaded' = FALSE /\ timeUp' = FALSE
    /\ state' = "WAITING_FOR_START_GAME"
    /\ asyncAt' = "cleared"
    /\ UNCHANGED <<rs, joining, toLoad, inbox, raceVars, asyncHas, mainVars,
                   starter>>

\* Mutant: the other thread is not told that the reset is done.
ResetNotTold ==
    /\ asyncAt = "cleared"
    /\ asyncAt' = "switch"
    /\ UNCHANGED <<lobbyVars, readyVars, peerVars, raceVars, asyncHas, mainVars,
                   starter>>

\* m_rs_state.store(RS_NONE)
ResetDone ==
    /\ asyncAt = "cleared"
    /\ rs' = "NONE"
    /\ asyncAt' = "switch"
    /\ UNCHANGED <<state, voting, loaded, timeUp, readyVars, peerVars, raceVars,
                   asyncHas, mainVars, starter>>

\* SELECTING and WAIT_FOR_WORLD_LOADED: "make sure there are enough players".
TooFewPlayers ==
    InGame = {} \/ (Ranked /\ Cardinality(InGame) = 1)

\* The tests of the two states that wait; the thread acts on them later.
AsyncSwitch ==
    /\ asyncAt = "switch"
    /\ LET waits == /\ state \in {"SELECTING", "WAIT_FOR_WORLD_LOADED"}
                    /\ voting # "none"
       IN /\ voting' = IF waits /\ TooFewPlayers THEN "none" ELSE voting
          /\ asyncAt' = CASE ~waits \/ TooFewPlayers -> "end"
                          [] OTHER ->
                               IF state = "SELECTING" THEN "votes"
                               ELSE IF loaded /\ CheckPeersReady THEN "config"
                               ELSE "end"
    /\ UNCHANGED <<state, rs, loaded, timeUp, readyVars, peerVars, raceVars,
                   asyncHas, mainVars, starter>>

\* handleAllVotes: when at most 35% of the time remain a majority decides, and
\* at the end the votes there are.  No time remains of a period that has been
\* reset in the meantime.
HandleAllVotes ==
    /\ asyncAt = "votes"
    /\ \/ voting # "running" /\ asyncAt' = "race"
       \/ voting # "over" /\ asyncAt' = "end"
    /\ UNCHANGED <<lobbyVars, readyVars, peerVars, raceVars, asyncHas, mainVars,
                   starter>>

\* The rest of case SELECTING: the race is set up for those in the game, who
\* are told to load the world.
SetRace ==
    /\ asyncAt = "race"
    /\ karts' = InGame
    /\ ResetPeersReady
    /\ state' = "LOAD_WORLD"
    /\ toLoad' = toLoad \cup InGame
    /\ asyncAt' = "end"
    /\ UNCHANGED <<rs, voting, loaded, timeUp, conn, joining, inbox, world,
                   running, protos, asyncHas, mainVars, starter>>

\* resetPeersReady and configPeersStartTime up to setPhase.
ConfigPeersStartTime ==
    /\ asyncAt = "config"
    /\ ResetPeersReady
    /\ state' = "WAIT_FOR_RACE_STARTED"
    /\ world' = IF world = "none" THEN world ELSE "ready"
    /\ asyncAt' = "start"
    /\ UNCHANGED <<rs, voting, loaded, timeUp, peerVars, karts, running,
                   protos, asyncHas, mainVars, starter>>

\* joinStartGameThread and the new thread.
StartGameThread ==
    /\ asyncAt = "start" /\ starter = "idle"
    /\ starter' = "asleep"
    /\ asyncAt' = "end"
    /\ UNCHANGED <<lobbyVars, readyVars, peerVars, raceVars, asyncHas,
                   mainVars>>

AsyncEnd ==
    /\ asyncAt = "end"
    /\ asyncHas' = FALSE
    /\ asyncAt' = "idle"
    /\ UNCHANGED <<lobbyVars, readyVars, peerVars, raceVars, mainVars, starter>>

-----------------------------------------------------------------------------
(* The starter thread                                                      *)

StarterWakes ==
    /\ starter = "asleep"
    /\ state' = "RACING"
    /\ starter' = "idle"
    /\ UNCHANGED <<rs, voting, loaded, timeUp, readyVars, peerVars, raceVars,
                   asyncVars, mainVars>>

-----------------------------------------------------------------------------
(* The main thread: messages and world between two calls of update()       *)

\* playerFinishedResult
PlayerFinishedResult(p) ==
    /\ mainAt = "idle" /\ state = "RESULT_DISPLAY" /\ rs # "ASYNC_RESET"
    /\ p \in InGame \cap listed
    /\ ready' = ready \cup {p}
    /\ UNCHANGED <<lobbyVars, listed, peerVars, raceVars, asyncVars, mainVars,
                   starter>>

\* liveJoinRequest of a player, who gets a reserved kart, or of a spectator.
LiveJoinRequest(p, spectator) ==
    /\ mainAt = "idle" /\ WorldIsActive
    /\ conn[p] = "waiting" /\ p \notin joining
    /\ joining' = joining \cup {p}
    /\ karts' = IF spectator THEN karts ELSE karts \cup {p}
    /\ UNCHANGED <<lobbyVars, readyVars, conn, toLoad, inbox, world, running,
                   protos, asyncVars, mainVars, starter>>

\* finishedLoadingLiveJoinClient, which rejects who is too late.
FinishedLoadingLiveJoin(p) ==
    /\ mainAt = "idle" /\ p \in joining
    /\ joining' = joining \ {p}
    /\ IF WorldIsActive
       THEN /\ conn' = [conn EXCEPT ![p] = "ingame"]
            /\ listed' = listed \cup {p} /\ ready' = ready \ {p}
       ELSE UNCHANGED <<conn, readyVars>>
    /\ UNCHANGED <<lobbyVars, toLoad, inbox, raceVars, asyncVars, mainVars,
                   starter>>

\* clientInGameWantsToBackLobby
InGameWantsToBackLobby(p) ==
    /\ mainAt = "idle" /\ WorldIsActive /\ conn[p] = "ingame"
    /\ karts' = karts \ {p}
    /\ listed' = listed \ {p} /\ ready' = ready \ {p}
    /\ conn' = [conn EXCEPT ![p] = "waiting"]
    /\ UNCHANGED <<lobbyVars, joining, toLoad, inbox, world, running, protos,
                   asyncVars, mainVars, starter>>

\* WorldStatus::updateTime: the world is loaded.  Before that it shows the
\* track for three seconds, and an async pass does not last as long: by now
\* async works with, or will make, a copy that has the game protocol.
WorldLoaded ==
    /\ mainAt = "idle" /\ world = "setup"
    /\ asyncHas \/ asyncAt = "idle"
    /\ world' = "server"
    /\ loaded' = TRUE
    /\ UNCHANGED <<state, rs, voting, timeUp, readyVars, peerVars, karts,
                   running, protos, asyncVars, mainVars, starter>>

WorldProceeds ==
    /\ mainAt = "idle"
    /\ \/ world = "ready" /\ state = "RACING" /\ world' = "race"
       \/ world = "race" /\ world' = "over"
    /\ UNCHANGED <<lobbyVars, readyVars, peerVars, karts, running, protos,
                   asyncVars, mainVars, starter>>

-----------------------------------------------------------------------------
(* The main thread: ServerLobby::update                                    *)

\* Mutant: the race is left, but its world is not deleted.
KeepsWorld == karts' = {} /\ UNCHANGED world

\* backToLobby leaves the race and deletes the world.
BackToLobby == world' = "none" /\ karts' = {}

\* all_players_in_world_disconnected, then the second half of the handshake.
Update ==
    /\ mainAt = "idle"
    /\ allGone' = (world # "none" /\ state \in InRace /\ loaded
                    /\ karts \cap Connected = {})
    /\ IF rs = "WAITING"
       THEN IF ProtocolStopped
            THEN BackToLobby /\ rs' = "ASYNC_RESET" /\ mainAt' = "players"
            ELSE mainAt' = "idle" /\ UNCHANGED <<rs, world, karts>>
       ELSE mainAt' = "players" /\ UNCHANGED <<rs, world, karts>>
    /\ UNCHANGED <<state, voting, loaded, timeUp, readyVars, peerVars, running,
                   protos, asyncVars, starter>>

\* Mutant: only the players of the world are asked for.
NobodyInWorld == allGone

NobodyLeft == InGame = {} \/ allGone

\* "Reset server to initial state if no more connected players", and "for
\* ranked server if in kart / track selection has only 1 player".
UpdatePlayers ==
    /\ mainAt = "players"
    /\ CASE rs = "NONE" /\ state \in AfterWaiting /\ NobodyLeft ->
              /\ running' = FALSE
              /\ protos' = (protos /\ ~running)
              /\ voting' = "none"
              /\ rs' = "WAITING"
              /\ mainAt' = "idle"
         [] rs = "NONE" /\ ~(state \in AfterWaiting /\ NobodyLeft) ->
              /\ IF Ranked /\ state = "SELECTING" /\ Cardinality(InGame) = 1
                 THEN voting' = "none" /\ rs' = "ASYNC_RESET"
                 ELSE UNCHANGED <<voting, rs>>
              /\ mainAt' = "switch"
              /\ UNCHANGED <<running, protos>>
         [] OTHER ->
              mainAt' = "idle" /\ UNCHANGED <<running, protos, voting, rs>>
    /\ UNCHANGED <<state, loaded, timeUp, readyVars, peerVars, world, karts,
                   asyncVars, allGone, starter>>

\* switch (m_state): the states the main thread has nothing to do in.
Nothing ==
    /\ mainAt = "switch"
    /\ \/ state \in {"WAITING_FOR_START_GAME", "SELECTING",
                     "WAIT_FOR_WORLD_LOADED", "WAIT_FOR_RACE_STARTED"}
       \/ state = "RACING" /\ ~(running /\ world = "over")
       \/ state = "WAIT_FOR_RACE_STOPPED" /\ ~ProtocolStopped
       \/ state = "RESULT_DISPLAY" /\ ~CheckPeersReady /\ ~timeUp
    /\ mainAt' = "idle"
    /\ UNCHANGED <<lobbyVars, readyVars, peerVars, raceVars, asyncVars, allGone,
                   starter>>

CaseLoadWorld ==
    /\ mainAt = "switch" /\ state = "LOAD_WORLD"
    /\ mainAt' = "load"
    /\ UNCHANGED <<lobbyVars, readyVars, peerVars, raceVars, asyncVars, allGone,
                   starter>>

\* LobbyProtocol::loadWorld
LoadWorld ==
    /\ mainAt = "load"
    /\ running' = TRUE /\ world' = "setup" /\ protos' = TRUE
    /\ mainAt' = "loaded"
    /\ UNCHANGED <<lobbyVars, readyVars, peerVars, karts, asyncVars, allGone,
                   starter>>

LoadedWorld ==
    /\ mainAt = "loaded"
    /\ state' = "WAIT_FOR_WORLD_LOADED"
    /\ mainAt' = "idle"
    /\ UNCHANGED <<rs, voting, loaded, timeUp, readyVars, peerVars, raceVars,
                   asyncVars, allGone, starter>>

\* checkRaceFinished, when the race is over.
RaceFinished ==
    /\ mainAt = "switch" /\ state = "RACING" /\ running /\ world = "over"
    /\ running' = FALSE /\ protos' = FALSE
    /\ state' = "WAIT_FOR_RACE_STOPPED"
    /\ mainAt' = "idle"
    /\ UNCHANGED <<rs, voting, loaded, timeUp, readyVars, peerVars, world,
                   karts, asyncVars, allGone, starter>>

RaceStopped ==
    /\ mainAt = "switch" /\ state = "WAIT_FOR_RACE_STOPPED" /\ ProtocolStopped
    /\ BackToLobby
    /\ ResetPeersReady
    /\ timeUp' = FALSE
    /\ state' = "RESULT_DISPLAY"
    /\ mainAt' = "idle"
    /\ UNCHANGED <<rs, voting, loaded, peerVars, running, protos, asyncVars,
                   allGone, starter>>

ResultDisplayed ==
    /\ mainAt = "switch" /\ state = "RESULT_DISPLAY"
    /\ CheckPeersReady \/ timeUp
    /\ rs' = "ASYNC_RESET"
    /\ mainAt' = "idle"
    /\ UNCHANGED <<state, voting, loaded, timeUp, readyVars, peerVars, raceVars,
                   asyncVars, allGone, starter>>

-----------------------------------------------------------------------------
AsyncEvents ==
    \/ StartSelection
    \/ \E p \in Peers : \/ ConnectionRequested(p)
                        \/ SelectingWantsToBackLobby(p)

Async ==
    \/ AsyncBegin \/ AsyncUpdate \/ ResetServer \/ ResetDone \/ AsyncSwitch
    \/ HandleAllVotes \/ SetRace \/ ConfigPeersStartTime \/ StartGameThread
    \/ AsyncEnd
    \/ \E p \in Peers : FinishedLoadingWorldClient(p)

MainEvents ==
    \E p \in Peers : \/ PlayerFinishedResult(p)
                     \/ \E spectator \in BOOLEAN : LiveJoinRequest(p, spectator)
                     \/ FinishedLoadingLiveJoin(p)
                     \/ InGameWantsToBackLobby(p)

MainUpdate ==
    \/ Update \/ UpdatePlayers \/ Nothing \/ CaseLoadWorld \/ LoadWorld
    \/ LoadedWorld \/ RaceFinished \/ RaceStopped \/ ResultDisplayed

Next ==
    \/ \E p \in Peers : Disconnect(p) \/ ClientLoaded(p)
    \/ Time \/ AsyncEvents \/ Async \/ StarterWakes
    \/ MainEvents \/ WorldLoaded \/ WorldProceeds \/ MainUpdate

\* The threads are scheduled, time passes, the server's own world gets loaded
\* (the main loop calls its update again and again) and a client loads the
\* world or disconnects.  Nothing else is assumed of the players.
Spec == Init /\ [][Next]_vars
             /\ WF_vars(Async) /\ SF_vars(AsyncBegin)
             /\ WF_vars(MainUpdate) /\ SF_vars(WorldLoaded)
             /\ WF_vars(StarterWakes) /\ WF_vars(Time)
             /\ \A p \in Peers : WF_vars(ClientLoaded(p))

-----------------------------------------------------------------------------
TypeOK ==
    /\ state \in AfterWaiting \cup {"WAITING_FOR_START_GAME"}
    /\ rs \in {"NONE", "WAITING", "ASYNC_RESET"}
    /\ voting \in {"none", "running", "late", "over"}
    /\ loaded \in BOOLEAN /\ timeUp \in BOOLEAN
    /\ listed \in SUBSET Peers /\ ready \in SUBSET listed
    /\ conn \in [Peers -> {"new", "waiting", "ingame", "left"}]
    /\ joining \in SUBSET Peers /\ toLoad \in SUBSET Peers
    /\ inbox \in SUBSET Peers
    /\ world \in {"none", "setup", "server", "ready", "race", "over"}
    /\ karts \in SUBSET Peers /\ running \in BOOLEAN /\ protos \in BOOLEAN
    /\ asyncHas \in BOOLEAN
    /\ asyncAt \in {"idle", "events", "reset", "cleared", "switch", "votes",
                    "race", "config", "start", "end"}
    /\ mainAt \in {"idle", "players", "switch", "load", "loaded"}
    /\ allGone \in BOOLEAN /\ starter \in {"idle", "asleep"}

\* The async thread uses World::getWorld() without a test and without a lock
\* in configPeersStartTime.  The world is there, although the main thread may
\* have begun to reset the server after the tests that led there: it does not
\* delete the world while the async thread has a copy of the game protocol.
WorldAlive == asyncAt = "config" => world # "none"

\* A world is loaded, and the game protocol created ("Create only 1 instance
\* of GameProtocol!"), only when those of the previous race are gone.
LoadsOneWorld == mainAt = "load" => world = "none" /\ ~protos /\ ~asyncHas

\* The lobby is put back to its initial state only when the race is gone:
\* "Finished reseting server in main thread, now async thread".
ResetAfterMain ==
    asyncAt \in {"reset", "cleared"} => world = "none" /\ ~protos /\ ~running

\* The start time is sent only when all players of the race have loaded the
\* world, whoever left, joined or gave up in the meantime.
AllHaveLoaded ==
    asyncAt = "config" =>
        \A p \in karts \cap InGame : p \notin toLoad \cup inbox

\* Every player in the game is an entry of m_peers_ready: the server waits for
\* each of them, and none of their messages makes at() throw.
InGameListed == InGame \subseteq listed

\* A server that everybody has left returns to its initial state, with the
\* race gone, wherever it was when the last one left.
EmptyServerResets ==
    (\A p \in Peers : conn[p] = "left") ~>
        (state = "WAITING_FOR_START_GAME" /\ rs = "NONE" /\ world = "none")

\* A reset that has begun is completed by the other thread.
ResetEnds == rs # "NONE" ~> rs = "NONE"

\* server_lobby.cpp: "For WAIT_FOR_WORLD_LOADED and SELECTING make sure there
\* are enough players to start next game, otherwise exiting and let main
\* thread reset" - one way or the other, the server leaves these states.
WaitingEnds ==
    /\ state = "SELECTING" ~> state # "SELECTING"
    /\ state = "WAIT_FOR_WORLD_LOADED" ~> state # "WAIT_FOR_WORLD_LOADED"

-----------------------------------------------------------------------------
(* The inductive invariant of an unranked server, behind WorldAlive,       *)
(* LoadsOneWorld and ResetAfterMain                                        *)

\* Nothing of a race is there, and no thread still uses it.
RaceGone == world = "none" /\ ~protos /\ ~running /\ ~asyncHas

Loading == mainAt \in {"load", "loaded"}

\* What the states before and after a race say of it.  The starter may have
\* stored RACING over any of them, so only one direction holds.
StateFits ==
    /\ state \in {"WAITING_FOR_START_GAME", "SELECTING", "RESULT_DISPLAY"} =>
         RaceGone /\ ~Loading
    /\ state \in {"WAITING_FOR_START_GAME", "SELECTING", "LOAD_WORLD"} => ~loaded
    /\ state = "LOAD_WORLD" /\ mainAt # "loaded" => RaceGone
    /\ state = "WAIT_FOR_RACE_STOPPED" => ~Loading /\ ~running /\ ~protos

\* While one thread acts on a state it has read, the other does not.
MainLoads ==
    /\ Loading => state \in {"LOAD_WORLD", "RACING"} /\ ~loaded
    /\ mainAt = "load" => RaceGone
    /\ mainAt = "loaded" => world = "setup" /\ protos

AsyncSelects ==
    asyncAt \in {"votes", "race"} =>
        RaceGone /\ ~Loading /\ ~loaded /\ state \in {"SELECTING", "RACING"}

\* The handshake over m_rs_state.
Handshake ==
    /\ mainAt \in {"switch", "load", "loaded"} => rs = "NONE"
    /\ rs # "NONE" => ~running
    /\ rs = "ASYNC_RESET" => RaceGone
    /\ asyncAt \in {"reset", "cleared"} => rs = "ASYNC_RESET"

\* Until the reset begins the race is there, and once it is loaded the async
\* thread holds the game protocol for as long as it may use the world.
WorldHeld ==
    /\ state = "WAIT_FOR_WORLD_LOADED" /\ voting # "none" =>
         /\ rs = "NONE" /\ protos /\ world \in {"setup", "server"}
         /\ loaded => world = "server" /\ (asyncAt = "idle" \/ asyncHas)
    /\ asyncAt = "config" =>
         /\ world = "server" /\ asyncHas /\ ~Loading
         /\ state \in {"WAIT_FOR_WORLD_LOADED", "RACING"}

IInv == /\ TypeOK /\ StateFits /\ MainLoads /\ AsyncSelects /\ Handshake
        /\ WorldHeld
=============================================================================
