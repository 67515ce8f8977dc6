# SuperTuxKart: models, checks and proofs

TLA+ modules about the part of SuperTuxKart (1.1 development tree) whose
correctness depends on order, threads and lost messages: the network code in
`src/src/network`, the online requests in `src/src/online`, the code of the
race that they call, and the queue of the sound thread in `src/src/audio`. Each module names the source it models;
`PROJECT.json` maps every definition to the lines it stands for.

## 1. The system

One process is a client or a server (a client may start a server as a second
process). The threads that matter here:

| thread | runs | touches |
|---|---|---|
| main | `MainLoop::run`: input, `RewindManager::playEventsTill`, `World::updateWorld`, `ProtocolManager::update`, GUI, `RequestManager::update` | everything |
| listening | `STKHost::mainLoop`: ENet, hands events on | `m_network_events`, the lists of events, peers |
| async | `ProtocolManager::asynchronousUpdate` every 2 ms | asynchronous handlers, the lobby |
| CtrlEvents | on a server: controller events at once | `GameProtocol`, `m_network_events` |
| starter | one per race on a server: sleeps until the start | `m_state` of the lobby |
| request worker | `RequestManager::mainLoop`: curl | both request queues |
| sound | `SFXManager::mainLoop`: OpenAL | the command queue, the list of sounds, their status |
| loading, ... | not in these models | |

### Inventory

| component | state | operations | what is hard | what makes it correct |
|---|---|---|---|---|
| RewindQueue, RewindManager | list of states and events by tick, `m_current`, latest confirmed state, network list, local states | insert, merge network data, clean up, undo, replay, save local state | late, lost, overtaking states; going back under the iterator; the listening thread | order of the list; a rewind finds its state; each event of the past replayed once; the server plays each event once |
| GameProtocol | pending actions | controller events, states, adjusting clocks | unreliable delivery | as above |
| ProtocolManager | protocols by type, three lists of events | start, terminate, propagate, deliver (main, async, CtrlEvents), abort | four threads, a copy of the protocols per pass, handlers that throw, shared ownership | each event delivered at most once per protocol, in order, freed once; shutdown ends |
| RequestManager, Request | priority queue, result queue, worker, abort flag | add, execute, answer, cancel, stop | ownership that changes, wake-ups, abort in the middle of execution | one owner per request; sign-out before quit; nothing answered unexecuted |
| ServerLobby | `m_state`, `m_rs_state`, `m_peers_ready`, voting time, world, start-game thread | selection, votes, load, start, results, reset, live join, back to lobby | three threads store one state; players leave at any time | world alive when used; everyone waited for, nobody else; the server always comes back |
| ClientLobby | its own state machine | the server's messages in order | messages of an earlier race, disconnection in any state | never in a race without a server |
| STKHost, STKPeer | peers, ping times, exit time-out | connect, disconnect, time synchronisation, shutdown | listening thread against main thread | peers removed once; monotone clock |
| ConnectToServer | connection states, retries, timer | intercept LAN, hole punching, fall back to port | time-outs racing late answers | ends in connected or failed, once |
| NetworkItemManager, ItemManager | items, item events, confirmed times per peer, a client's confirmed copy | collect, drop, switch, confirm, save and restore states, late join, back to lobby | lost, overtaking and repeated states; confirmations of several clients on another thread; late joins | nothing forgotten that a client needs; each event applied once, in order; a client's copy is the server's items at that time |
| WorldStatus, World | phase, clock | update, pause, end | phases waiting for the lobby | phases only go forward |
| LinearWorld, WorldWithRank, StandardRace | laps, distances, places, `m_position_index`, finish time-out | new lap, ranking, finish, early end, elimination | laps that end in one tick; players who leave; clients count messages instead of laps | one kart at each place; clients show the places of the server |
| CheckManager | active checklines per kart | trigger, activate, rewind | activation chains, rewinds | no lap without all checklines |
| CTF, soccer, battle | flags, scores, lives | events from the server | delayed events | score and flag agree |
| RaceManager, GrandPrix | tracks, scores | next race, exit | sequential | ranks follow scores |
| SFXManager, SFXOpenAL | command queue, list of sounds, their status, the setting | create, play, stop, pause, delete, volume, switch on and off, stop thread | a status that both threads store; commands executed late; two mutexes | no use after deletion; the status is what OpenAL does; the thread ends |
| GUI stacks, dialog queue | stack of screens | push, pop, dismiss | re-entrancy | stack never empty while running |
| HTTP, add-ons, news | files, lists | download, install | owned by the request manager | |
| input, replay, unlocks, achievements, physics, graphics | - | - | one thread, I/O or numeric | out of scope |

The components call each other as follows. STKHost hands every event to
ProtocolManager, which calls the handlers of the lobby, of GameProtocol and of
the other protocols. GameProtocol feeds the RewindQueue; MainLoop drives
RewindManager, which replays into the karts. ServerLobby starts and stops
GameProtocol and GameEventsProtocol through RaceEventManager, waits for their
shared pointers to expire, and creates and deletes World. RequestManager and
SFXManager are independent of all these: everybody calls them.

## 2. Modules

| module | models | lines of the source |
|---|---|---|
| `RewindQueue` | the rewind queue, its driver in RewindManager and MainLoop, GameProtocol as a source of events and states, and the end controller of a kart | `rewind_queue.cpp`, `rewind_manager.cpp`, `game_protocol.cpp`, `main_loop.cpp`, `kart.cpp` |
| `RewindQueueProofs` | theorems about it | |
| `ProtocolManager`, `MCProtocolManager` | the manager of protocols and events on a host, with its shutdown | `protocol_manager.cpp`, `stk_host.cpp` |
| `ProtocolManagerProofs` | theorems about it | |
| `RequestManager`, `MCRequestManager` | the online requests | `request_manager.cpp`, `request.cpp`, `addons_loading.cpp` |
| `RequestManagerProofs` | theorems about it | |
| `ServerLobby` | the state machine of a server | `server_lobby.cpp`, `lobby_protocol.cpp`, `world_status.cpp` |
| `ServerLobbyProofs` | theorems about it | |
| `EventLog` | what the item protocol promises: one log, of which each replica has applied an initial part | |
| `NetworkItems`, `MCNetworkItems` | the items of a server and of its clients, with states, confirmations, late joins and departures; it implements `EventLog` | `network_item_manager.cpp`, `item_manager.cpp`, `item.cpp`, `server_lobby.cpp` |
| `NetworkItemsProofs` | theorems about it, the refinement among them | |
| `RaceRanking` | places and laps on the server, players who leave, the early end, and the places that clients and spectators work out | `linear_world.cpp`, `standard_race.cpp`, `world_with_rank.cpp`, `game_events_protocol.cpp`, `kart_rewinder.cpp`, `client_lobby.cpp` |
| `RaceRankingProofs` | theorems about it | |
| `SFXManager` | the queue of sound commands, its thread, and the sounds | `sfx_manager.cpp`, `sfx_openal.cpp`, `options_screen_audio.cpp` |
| `SFXManagerProofs` | theorems about it | |
| `SequenceLemmas` | lemmas that several proofs share: induction and recursion over the positions of a sequence | |

### RewindQueue

A client simulates ahead of the server. Server states arrive late; the client
then goes back to the state and simulates up to the present again, replaying
all events. `q` is the list `m_all_rewind_info` and `cur` the position of
`m_current`, with `Len(q)+1` for `end()`. `net` is `m_network_events`, which
the listening thread appends to (`NetEvent`, `NetState`) between any two steps
of the main thread except during the merge, when the main thread holds its
lock. The main thread goes through `BeginStep` (`playEventsTill`),
`MergeSkip`/`MergeDrop`/`MergeInsert` (one iteration of the loop of
`mergeNetworkData` each), `MergeEnd` (the clean-ups after it), `Undo`,
`ReplayTick`, `EndRewind` (`rewindTo`), `Play`, and `Simulate` (the rest of the
step: saving local states, a kart that finishes). Events are controller events
of others, of this host (`LocalEvent`), and the pair of undo and replay
functions that the kart adds when it crosses the line. `Selected` picks from a
part of the list the events of some kind: those that `replayAllEvents` plays.

A state is its tick: what it contains is left out. Events carry an id, so that
"exactly once" means something. States are lost and overtake one another, but
are not duplicated by ENet. `wt` is the world clock that a rewind turns back.

The kart has its end controller (`endCtrl`), the player's is saved
(`hasSaved`), and `check` is `m_network_finish_check_ticks`. `CrossFinish` is
the part of `Kart::finishedRace` that a client runs by itself: the controller
is replaced, the pair of functions is queued, and the server has one second
(`FinishCheck` ticks) to confirm. `ServerFinish` is the confirmation, which may
also come first, or between a crossing and a rewind over it. `UpdateKart` is
the head of `Kart::update`, in a simulated tick (`Drive`) and in a replayed one
(`ReplayTick`): when the time is over the end controller is deleted, the
player's is put back, and `check` is -1, which makes the functions in the queue
do nothing (`Active`) until the kart crosses the line again. `crossed` numbers
the crossings, so that a function knows its own end controller. `ff` is the
`fast_forward` of the main loop, in which the world is not updated.

### ProtocolManager

`running` is the set `m_all_protocols` (by type, `TypeOf`), `list` the three
lists of events, and `snap[t]` the copy a pass of `update` or
`asynchronousUpdate` works with. `Deliver` is one iteration of the loop: the
handlers of the receivers run, or one throws after some have run; the iterator
`pos` stays or goes on. Events that nobody wants stay, until they are older
than one second (`Age`). On a server controller events go to the thread
`CtrlEvents`. `holders` counts the shared pointers to the manager: its threads
each hold one, and STKHost's two threads while they use it. Who drops the last
one runs the destructor (`Release`).

### RequestManager

`loc` says who holds a request, `managed` is `m_manage_memory`. The steps of
`Request::execute` are separate because each is preceded by a test of the
abort flag; `WorkerPost` is the second test of that flag in `mainLoop`. A
dialog (`AddonsLoading`) frees its request itself, or hands it to the manager
when it is closed (`GiveToManager`). `StopSignOut` to `Join` are the end of the
program, including the time-out of five seconds after which the program goes
on without the worker.

### ServerLobby

The variables are `m_state`, `m_rs_state`, the voting period, the readiness
map, the peers (`conn`: not yet connected, waiting for the game, in the game,
left), the world by its phase, the players in the race (`karts`), and program
counters of the main and the asynchronous thread. The state machine is

    WAITING_FOR_START_GAME -> SELECTING -> LOAD_WORLD -> WAIT_FOR_WORLD_LOADED
      -> WAIT_FOR_RACE_STARTED -> RACING -> WAIT_FOR_RACE_STOPPED
      -> RESULT_DISPLAY -> (reset) WAITING_FOR_START_GAME

and its arrows belong to different threads: the asynchronous thread does
`StartSelection`, `SetRace` (after the votes), `ConfigPeersStartTime` and
`ResetServer`; the main thread `LoadWorld`/`LoadedWorld`, `RaceFinished`,
`RaceStopped`; the starter thread stores `RACING`. A test of one thread and
the store that follows are separate steps, so that the other threads may run
in between: `AsyncSwitch` decides and `SetRace`, `ConfigPeersStartTime` act;
`Update`, `UpdatePlayers` and the `switch` are three steps of `update()`.

The reset is a handshake. Main finds that nobody is left, terminates the
protocols of the race and sets `RS_WAITING`; when the weak pointers to them
have expired it deletes the world and sets `RS_ASYNC_RESET`; the asynchronous
thread then resets the lobby and sets `RS_NONE`. The copy of the protocols
that the asynchronous thread holds during a pass (`asyncHas`) is what keeps
the world from being deleted under it: the property `WorldAlive`.

Assumptions of this model, with their reasons:

- The asynchronous thread sleeps 2 ms between passes (`protocol_manager.cpp:57`),
  so no whole pass fits between the first two tests of one call of `update()`
  (`AsyncBegin` requires `mainAt # "players"`).
- Before the server's world reports that it is loaded it shows the track for
  three seconds of game time (`world_status.cpp:230`); an asynchronous pass does
  not last that long, so by then that thread has begun a new copy
  (`WorldLoaded`).
- A handler of a message is one step. `m_peers_ready` is in fact changed by two
  threads without a lock; the corruption of the map itself is not modelled.
- A peer connects once; a player who comes back is another peer, as in the code.
- `FinishedLoadingLiveJoin` of a player who is too late because his kart was
  taken is the same as any other late one: he stays waiting.

### NetworkItems

The server's `items` are `m_all_items`, each with its type, the type it had
before a switch, the uses left and the ticks till it returns; `switch` is
`m_switch_ticks`. A tick of the server is `SaveState` (RewindManager::update:
all of `m_item_events` is written into the state), then `CollectItem`,
`DropItem` and `SwitchItems` of the karts in any number and order, then
`UpdateItems` (ItemManager::update), which also moves the clock. Between two
ticks the lobby may let a player join: `SaveCompleteState` writes the items and
`AddLiveJoinPeer` enters the peer in `m_last_confirmed_item_ticks`. When nobody
is in the race the lobby stops it (`RaceStops`). The thread that handles
confirmations runs `setItemConfirmationTime` at any time, also between those
steps. The code takes one lock to raise the entry of the peer, to take out
expired peers and to find the earliest time (`ConfirmItems`, `minTime`), and
another to discard the events before it (`DiscardEvents`); the server and the
clients go on between the two. A confirmation may be handled when its peer has
gone back to the lobby, or has joined again; a peer that is not in the map has
no entry to raise. If the map is empty the earliest time is `INT_MAX`, and all
events are discarded. `unasked` says that this was done while somebody was in
the race; what the properties say ends there (see section 4).
`ItemsAssumption` says that the items of a track are of the types `SwitchTo`
knows, and that the ticks an item stays away are natural numbers.

A client has `copy`, its `m_confirmed_state` with its time. `RestoreState` is
the whole of `restoreState`: it forwards the copy from event to event
(`Forward`), applies what is new (`Replayed`), confirms, and forwards the copy
to the time of the state. `Course` is the copy at the start of this loop and
after each of its events, `Restored` the last of them. The rewind queue drops a
state that is older than the last one (`latest`), so a client only goes on in time. States and confirmations
are sets from which any element is taken next: they are lost, when they are
never taken, and overtake one another.

`log`, `past` and `applied` are history variables. They define the refinement:
`EventLog` has a log of so many events, and for each replica that takes part
the set of those it has applied, which must always be an initial part.

What is left out: a client predicts items between two states, but every state
overwrites all of them from its copy, so the prediction never enters the copy.
A client that leaves no longer receives packets of that race.

### RaceRanking

A tick of the server is `UpdateLobby` (`handlePlayerDisconnection`, which
eliminates karts, and `checkRaceFinished`), `EndRaceEarly` if the time-out has
run out, `UpdateTrackSectors`, one `NewLap` for each kart that crossed the line,
in the order of the karts, and `UpdateRacePosition` with the end of
`World::updateWorld`. `EndRaceEarly` is the two loops of that function: the first
goes through the places and is the recursive function `PassedOver`, the second
gives the last places to those that were still racing. Players disconnect at any
time; the lobby notices in its next update. `place` is a kart's `m_position`, `index` is `m_position_index`,
the array from which `getKartAtPosition`, `endRaceEarly` and `canLiveJoinNow`
look up karts.

No message of the server carries a place. Each client counts
`GE_KART_FINISHED_RACE` messages (`KartFinishedRace`), eliminates karts that are
missing in a state (`ComputeError`), and settles the rest when the result comes
(`RaceFinished`). A spectator comes late and counts from one, which is right
only because `canLiveJoinNow` admits nobody when the first kart is nearly home.

How far a kart drives and when it crosses the line are choices: any distance,
any set of karts, in any tick. A state is the set of karts in it. There are no
AI karts, and in races with laps nobody joins as a player.

### SFXManager

A sound has a `status` in the program, which both threads store, and a `source`
in OpenAL, which follows the commands; `loop` and `looping` are the two flags in
the same way. `m_sfx_commands` is the queue, `m_all_sfx` the list. The main
thread queues (`Play`, `Stop`, ..., `DeleteSFX`), and once per frame queues an
update and signals the condition (`Update`, `Signal`). `main` and `at` hold what
is left of a call that takes more than one step: adding a new sound to the list,
the loop of the volume, the loops of `toggleSound`.

The sound thread goes from `Take` to the execution of one command and to `Post`,
which may queue an update of its own, a millisecond later (`UpdateAgain`).
`init()` takes two steps, since the sound is in the status `unknown` meanwhile
(`BeginInit`, `EndInit`). `ExecuteDelete` stops the sound, `Erase` removes it
from the list and frees it. `Scan` and `UpdatePlayingSFX` are the loop of
`reallyUpdateNow`, with the test of a status and its second test apart. A loop
of one thread over the list excludes those of the other (`MainHolds`,
`AudioHolds`); a loop whose steps nobody can observe is one step.

The owner of a sound forgets it when it calls `deleteSFX()`. After `stopThread()`
the game only deletes. How long a sound lasts is a choice. `setPosition`,
`setSpeed`, `setVolume` are one kind of command; `current` is kept until the
command is done.

## 3. Runs

| run | question | size |
|---|---|---|
| `rewind_client` | order and completeness of rewinds, their state is found, the newest state, the local states, the end controller | 2 events, 2 states, ticks 0..4, a finish is waited for 1 tick; 15.9 million states |
| `rewind_server` | each event exactly once and eventually | 4 events, ticks 0..3 |
| `pm_client` | delivery: once, in order, eventually | 3 protocols, 2 types, 2 events |
| `pm_server` | ownership of events, shutdown | game protocol, 2 events, all threads |
| `requests` | ownership, order, abort, end of the worker | 3 requests, sign-out, quit |
| `lobby` | safety and liveness of the server's state machine | 2 peers |
| `lobby_ranked` | *fails*: a ranked server leaves its waiting states | 2 peers, ranked |
| `items` | nothing forgotten, nothing applied twice, the items agree; implements `EventLog` | 2 clients, 3 events, ticks 0..2, 2 item places; 1.7 million states |
| `positions` | places on the server and on clients, results | 3 karts, 2 laps, 2 clients, automatic end |
| `sfx_race` | deleted sounds are not used and are freed, the status agrees with OpenAL | 2 sounds, calls of a race |
| `sfx_options` | the assertion of `updatePlayingSFX`, the end of the thread | 1 sound, all other calls |
| `sfx_volume` | *fails*: no command for a freed sound, also with the slider of the volume | 1 sound |

Bounds. The rewind runs need two states, to overtake each other, one event
before and one after them, and enough ticks for a state to be confirmed,
cleaned up and followed by another; `MaxTick`, `MaxEvents` and `MaxStates` cap
the counters and appear in guards only. `StateFreq = 1` makes every tick a
candidate for a state, which is the densest case. With `FinishCheck = 1` a
finish is given up in the second tick after the crossing, in time for a second
crossing, for a rewind behind either and for a confirmation at any point of it.
For `ProtocolManager` two
events are enough for one to overtake the other and for one to arrive while
another is delivered; three protocols give two of one type. Requests: one
being executed, one answered, one queued, while the program ends. In the lobby
two peers give "some but not all are ready", "one leaves, one stays" and, for a
ranked server, exactly one left. Its safety invariants were also explored with
three peers. In `NetworkItems` one client starts the race and may leave or
disconnect, the other joins (and each may fall behind the other); three events
let an item be dropped, used up and its place be filled again, or a switch
happen around a drop; two states on their way can overtake each other
(`MaxStates`). The one who leaves may come back while a confirmation of his
first stay is still to be handled, or be the last of the map. At `MaxTick` the clock stops and the server goes on sending, so
that every confirmation can still arrive. Larger instances without departures
(4 ticks, 3 events) were explored once with no error. In `RaceRanking` three
karts give one that is home, one that is out and one that races; two laps give
a lap that is not the last; `Length` is the number of distances told apart.
Four karts over one lap were explored as well. In `SFXManager` a queue of
`MaxQueue` commands (the calls wait then; the update, the threads' own commands
and those of loops may still be added) lets a deletion, a play and a creation
wait at once, and is longer than `Throttle`, so that commands are dropped; a
race has both a sound that is deleted and one that stays. There is no symmetry in the runs, because most check liveness.

Deadlock is checked for the lobby, the items and the sounds, which never stop
(at the end of the program the sounds stutter). The other
systems do stop: at the last tick, at the end of the race or of the program.

### Fairness

- `RewindQueue`: the main thread keeps running while the race does; nothing is
  assumed of the network.
- `ProtocolManager`: all threads are scheduled and handlers return; the
  listening thread finishes with an event it has. Nothing is assumed of what
  arrives or of who starts and stops protocols.
- `RequestManager`: the worker is scheduled and operations end (curl has
  time-outs); the main thread handles a result per frame and, once it stops the
  program, goes on.
- `ServerLobby`: the three threads are scheduled and time passes. `AsyncBegin`
  and `WorldLoaded` have strong fairness: they are enabled again and again
  (between two calls of `update`, between two passes), and a periodic thread
  or the main loop does not always miss those windows. A client that was told
  to load the world loads it or disconnects (time-outs of ENet and the kick of
  idle players see to that). Nothing else is assumed of players.
- `SFXManager`: both threads are scheduled; every frame of the game ends with
  `SFXManager::update()` (`main_loop.cpp:498`), so `Update` has strong fairness:
  without it the sound thread, asleep, would never hear of a command, since only
  `update()` and `stopThread()` signal it. Nothing is assumed of calls.
- `NetworkItems` and `RaceRanking` state no fairness. All their properties are
  safety properties, and nothing makes a lossy network deliver.

## 4. What the failing runs show

- `lobby_ranked`: on a ranked server with one player left in
  `WAIT_FOR_WORLD_LOADED` each thread leaves the reset to the other. With
  `Ranked = TRUE` the property `ResetAfterMain` fails too: `update()` stores
  `RS_ASYNC_RESET` and goes on into the `switch`, which may load a world that
  was decided on at the same moment. With a third peer, who starts the next
  game while that world is being loaded, `LoadsOneWorld` fails as well.
- `sfx_volume`: deletion is queued so that nothing is executed for a sound that
  is gone. `setMasterSFXVolume` queues a command for each sound of the list, and
  those whose deletion is still queued are in it. The same holds for
  `toggleSound(true)`, which plays and pauses all sounds that loop. In a game
  that leaves both alone the theorem `AliveWhenUsed` excludes it.

Observations without a run of their own. The models have these behaviours; the
runs ask other questions.

- Rewind queue: `insertRewindInfo` moves `m_current` to the inserted element
  when `m_current` is at the end of the list, even when that element lies in the
  past. If no state follows it, no rewind moves `m_current` on, and
  `replayAllEvents` stops at once: events of the current tick are passed over
  until a state comes. The comment at `rewind_manager.cpp:258` says they are
  played. The next rewind repairs it (`ReplayComplete`).
- Rewind queue: when a finish is given up, the end controller is deleted but its
  function stays in the queue, where only `m_network_finish_check_ticks` being
  -1 keeps it quiet. If the kart crosses the line again that is over; a rewind
  behind the first crossing then replays both functions, and the first one
  resets and installs the deleted controller (`kart.cpp:985-990`) until the
  second replaces it. No newer state may have been confirmed for over a second.
  `stale` marks this, and `EndControllerKept` says nothing afterwards.
- Items: with an empty map of confirmed times `setItemConfirmationTime` discards
  all events. If the only player of the race has left, a late confirmation of
  his is being handled, and another player joins and an item event is logged
  between the two locks (`network_item_manager.cpp:202-207`), the event is
  discarded though the one who joins needs it, contrary to the comment
  "Once all hosts have confirmed an event, it can be deleted"
  (`network_item_manager.cpp:170-171`). The join must fall into the same pass of
  the main loop as the departure, before `ServerLobby::update` stops the race,
  and the thread that confirms must be kept waiting all the while. `unasked`
  marks the step; up to it `KeptUnlessUnasked` and the others hold.
- Server lobby: if all players leave between the start message and the start,
  the server is reset and the start-game thread then stores `RACING`, an edge
  that the state diagram of the lobby does not have. With nobody there the
  server resets itself once more (`EmptyServerResets` holds all the same); a
  player who joined in those seconds is in a lobby that has no world and refuses
  `startSelection` until he leaves.
- Places: `handlePlayerDisconnection` gives a player who leaves the last place,
  and `endRaceEarly` counts the places of those it punishes back from the number
  of all karts, the eliminated ones included. With one gone and one punished
  both have the last place; `m_position_index` keeps one of them.
  `RankedUnlessPunished` says that this is the only way to a double place. In
  the same function a kart that was eliminated in the tick in which the time
  runs out makes the array it walks through stale: a place of it still names
  the kart that moved up, and one that races may be passed over.
- Sounds: `toggleSound(false)` reads the size of the list before it locks it
  (`sfx_manager.cpp:535`). In the model a read behind the end has no further
  effect.
- Sounds: the options screen stores the setting before it calls `toggleSound`
  (`options_screen_audio.cpp:166`), whose `pauseAll()` then does nothing. Sounds
  that loop go on.
- Sounds: `init()` stores "stopped" over the "playing" of `play()`; until the
  play command is executed the sound looks finished, and a kart that asks in
  this time deletes its terrain sound. Afterwards the status agrees again
  (`StatusMatchesSource`), which is why `reallyPlayNow` stores it once more.
- The listening thread may be the last to hold the protocol manager
  (`stk_host.cpp:1288`, after `STKHost::shutdown` has let go of it) and then runs
  its destructor, which says that "only this main thread is active"
  (`protocol_manager.cpp:109`). `Release` models it, and `OneOwner` holds
  all the same.
- A download dialog that is closed after the frame in which the result was
  handled and before its own next update gives its request to the manager too
  late (`addons_loading.cpp:353`): `m_manage_memory` is read when the result is
  handled, and nobody frees the request.
- `forwardTime` switches the items back when the ticks left reach zero
  (`network_item_manager.cpp:265`), `ItemManager::update` one tick later
  (`item_manager.cpp:477`): for one tick a client's copy is not switched while
  the server's items are. `ItemsAgree` therefore compares items apart from the
  switch.
- A divergence: `protocol_manager.hpp:73-76` says that requests to
  start and terminate protocols are queued until the next update; the code
  carries them out at once under a mutex, and so does the model.

## 5. Proofs

Each proof module proves, for every value of the constants that the named
assumption admits, an invariant `IInv` that is inductive, and derives the
properties that the runs check from it. Every safety property of a passing run
is stated by a theorem. The invariants, the later ones too, were given to TLC on
the instances of their component; `ItemsInv` quantifies over copies without
bound and was tried only on the copies the clients have. Parts of
it that the proof settles are not properties of a run: most of the `TypeOK`, and
`RewindToNewest` and `ServerQueueConsumed` of `RewindQueue`.

**`RewindQueueProofs`** (assumption `ConstAssumption`). `Sorted` alone is not
inductive, and neither are the others: that an insertion keeps the order
depends on the types; that `undoUntil` finds its state (`RewindTarget`) depends
on the merge having inserted it and on the clean-ups having spared it. `IInv`
is the conjunction of

- `TypeOK` and `Sorted`, the order of the list;
- `ConfirmedHeld`: the latest confirmed state is still in the list, and nothing
  older is: the clean-up deletes what is older, and only that;
- `MergeFound`: the tick the merge loop says it will rewind to is that of a
  state of the server that is in the list and not older than the confirmed one;
- `RewindTarget`: a rewind that is under way goes to the confirmed state;
- `ServerQueue`: a server has no states, and what it has not played yet belongs
  to the current tick.

Theorems: `TypeCorrect`, `Invariant`, `AlwaysSorted`, `RewindPossible`
(`UndoFindsState`), `CorrectionNeverActs` (`RewindToNewest`) and
`ServerConsumes`. The lemmas before them say what inserting into and deleting
from the list does to its order, its contents and the position of `m_current`.

A second invariant, `RInv`, rests on the first and says which state a client
stands on. It adds

- `StatesOnce`: the network list has no state of a tick that is already there,
  so that a state that is merged is newer than the confirmed one;
- `BaseConfirmed`: outside of a rewind the simulation rests on the confirmed
  state, and a rewind that is due goes to a newer one;
- `LocalKept`: the local states from the confirmed tick on are kept;
- `PendingFunc`: only event functions are pending, never a state.

Theorems: `RewindInvariant`, `NewestAdopted` (`NewestStateAdopted`) and
`LocalStateIsFound` (`LocalStateFound`).

Three more invariants are about the events of the list.

- `Replaying`: while a rewind replays, `played` is exactly the events before
  `m_current`, all of them earlier than the clock, and nothing after it is
  earlier. It begins right behind the state that `undoUntil` has found, before
  which there are no events, since the clean-up has deleted what is older. Theorems: `ReplayInvariant`, `ReplayIsComplete` (`ReplayComplete`).
- `FuncsPast` and `EndHeld`: the function that gives a kart its end controller
  lies in the past once it is queued, and before the tick at which the finish
  is given up, so no clean-up and no new event comes between it and the clock.
  The player's controller is saved exactly if the finish is confirmed or still
  may be; what a rewind took from such a kart is still in front of `m_current`,
  and so the finish cannot be given up before it is replayed: the controller
  that is deleted is always an end controller. Theorem: `EndControllerStays`
  (`EndControllerKept`).
- `ServerOnce`: an event that a server has received is in exactly one place,
  the network list, the part of the queue that is waiting, or what was played.
  Late events are given the current tick, and the insertion keeps what was
  played in front of `m_current`. Theorem: `ServerPlaysOnce`
  (`ServerExactlyOnce`).

**`ProtocolManagerProofs`** (`PMAssumption`; any protocols, handlers and kinds
of events, clients and servers). That events are in order and handled once is
an argument about what a pass has behind it. `IInv` is

- `Control`: who holds a shared pointer, where each thread is then, and that the
  manager is destroyed only when nobody does;
- `Queued`: the events of a list are in the order of their arrival;
- `InHand`: the event that the controller thread has taken is older than those
  in its list, and not deleted;
- `PassedOver`: no protocol in the copy of a pass wants an event that lies
  behind the iterator. This holds because the copy does not change during the
  pass (the mutant of `InOrder` uses the list of protocols itself);
- `Past`: what a protocol has handled is deleted, and nothing older that it
  wants is left in that list;
- `OneOwner`, `HandledOnce` and `InOrder` themselves.

The steps are grouped by what they do to a list: append, remove, or take the
manager away. Theorems: `TypeCorrect`, `Invariant`, `AlwaysOneOwner`,
`OnceEach`, `AlwaysInOrder`.

**`RequestManagerProofs`** (`ReqAssumption`: any finite set of requests with any
priorities). `IInv` adds to `OneOwner`, `ResultIsExecuted` and `SignOutRuns`

- `WorkerHas`: the worker has a request exactly while it works on one, and at
  the end of `execute()` that request is executed or the abort flag is set. The
  flag is never taken back, which is why its later test in `mainLoop` agrees;
- `SignOutHeld`: a busy sign-out is in the queue or with the worker, and the
  quit request leaves the main thread only after the sign-out. The quit request
  is at the top of the queue only when the sign-out is no longer in it.

Each lemma about one part goes through all actions once and says which of them
can change it. Theorems: `TypeCorrect`, `Invariant`, `AlwaysOneOwner`,
`AnswersWereExecuted`, `SignOutBeforeQuit`.

**`ServerLobbyProofs`** (any number of peers). `AlwaysListed` (`InGameListed`)
holds for every server and is inductive with the types. The other theorems are
about servers that are not ranked (`~Ranked`, as in the run `lobby`): on a
ranked one `update()` goes on into its `switch` after it has begun a reset, and
the order of the threads that the argument rests on is lost. `IInv` is

- `StateFits`: what each state before and after a race says of it, in one
  direction only, because the start-game thread may store `RACING` over any;
- `MainLoads` and `AsyncSelects`: between a test of one thread and the store
  that follows, the other thread cannot be in such a window of its own;
- `Handshake`: what each value of `m_rs_state` says of the race and the threads;
- `WorldHeld`: from the moment the world is loaded the asynchronous thread, if
  it may use the world, has the copy of the protocols that keeps it alive.

Theorems: `TypeCorrect`, `AlwaysListed`, `Invariant`, `WorldIsAlive`
(`WorldAlive`), `OneWorld` (`LoadsOneWorld`), `ResetOrder` (`ResetAfterMain`).
`WorldAlive` rests on the three seconds of the assumption about `WorldLoaded`.

`AllLoaded` (`AllHaveLoaded`) relates the message by which a player says that he
has loaded the world to the race it belongs to. A message of the last race that
came in the next one would count for it; that none does is `LoadInv`:

- `LoadPhase`: as long as a player owes that message, on its way or not yet
  sent, he is in the race, not ready, and the race not beyond loading;
- `ResetQuiet`: a reset begins only when nobody owes it;
- `AllGoneFits`: the answer that `update()` holds between its two tests, nobody
  left, still excludes that a race is being set up.

**`NetworkItemsProofs`** (`ConstAssumption`; any clients, items and bounds).
The server forgets an event by what it knows of its clients, and a client skips
events by the time of its copy; the invariant relates both to the packets on
their way:

- `LogInOrder`, `EventsLogged`: events are logged in the order of time, and
  between ticks all of them lie in the past: this is why the strict `<` of
  `setItemConfirmationTime` and of `restoreState` fit together;
- `Confirmed`: a confirmation on its way, and what the server has noted for a
  peer, is never later than that peer's copy, nor, for one who has left and
  joins again, than the items that are written for him;
- `MinConfirmed`: the time that was worked out under the first lock is still not
  later than what any client knows when the second lock is taken, whoever joined
  or left in between, unless the map was empty;
- `StatesComplement`: a state on its way has every event between the copy of its
  receiver and its own time;
- `OneJoins`: between writing the items and entering the peer in the map the
  clock of the server stands still;
- `KeptUnlessUnasked` and `CaughtUp` themselves, which are inductive only
  together with these.

Theorems: `TypeCorrect`, `Invariant`, `NeededEventsKept` (`KeptUnlessUnasked`),
`AppliedUpToCopy` (`CaughtUp`), and `Refinement` (`ImplementsLog`): until events
are discarded unasked, every step of the protocol is a step of `EventLog` or
leaves its variables as they are. `RefinementWhileAsked` says it of behaviours
in which that never happens, as `Spec /\ []~unasked => Abstract!Spec`. In the
abstract log a replica that joins has all that is logged, and one that restores
a state goes on to a longer initial part.

What the items are after the events (`ConstAssumption` and `ItemsAssumption`) is
`ItemsInv`. Its core is `ServerLeads` and `StatesLead`: the events the server
keeps lead from any time a client may know to the items of the server, and those
of a state to the items of its time. To lead means: a copy that has the items of
that time goes through the loop of `restoreState` without a failed assertion and
ends with the items. It is said of every such copy because the copy that a
client has is not quite that of the server: it may be switched back a tick
earlier, and it still has used-up items that the server has cleared. The other
conjuncts (`EventsTyped`, `ServerFits`, `PastFits`, `StartFits`, `CopyFits`) say
what is kept of the history, of the copies sent to those who join, and of those
the clients have. Each kind of event has a lemma saying that it does to a copy
what the server did to its items (`MeetsCollect`, `MeetsNew`, `MeetsSwitch`,
`MeetsNext`); others say that events may be appended, confirmed ones forgotten,
and those before the copy skipped. Theorems: `ItemsInvariant`, `SameItems`
(`ItemsAgree`), `AssertionsNeverFail` (`AssertionsHold`).

**`RaceRankingProofs`** (`ConstAssumption`; any number of karts and laps, any
length). A place is a cardinality: one more than the number of karts ahead. The
lemmas show that the order of karts (finished, distance, place on the grid) is
total and that counting along a total order gives each place once. `Inv` is
`Ranked` (no two karts have one place) with

- `LapsCounted`: exactly the karts at home have driven all laps, so a kart that
  ends its last lap is ahead of all that race and behind all that are home;
- `HomeFirst`, `OutLast`: karts at home hold the first places and karts that
  left the last ones, each its own; those that race are numbered in between;
- `LinesDone`: nothing is left to trigger when a tick is over;
- `IndexOnce`, `IndexFits`: the array of places names no kart twice, and is up
  to date when a tick begins unless a kart has left;
- `EndedAll`: after an early end all karts have finished.

`IInv` is `PunishedWrong \/ Inv` with what holds in any case (`SetsFit`):
`PunishedWrong`, a race that was ended early with a kart gone, is the case of
section 4, and the one exception. The first loop of `endRaceEarly` is treated by
induction over the places: after each place the karts seen so far are at home
with the places they had, or put off in the order of the array.
Theorems: `Invariant` and `RankedAlways` (`RankedUnlessPunished`).

The clients have no places from the server, only messages. `ClientInv` says of a
client that it is away, or watches, or shows the result. One that watches has
counted the karts it was told of (`ViewFits`), has each other kart at home once
in its messages and the end of the race last (`BoxFits`), and is told in the
order of the places (`InPlace`, unless `PunishedWrong`). A late spectator starts
with nothing counted, which fits because nobody is home yet when he is
admitted. Theorems: `ClientInvariant`, `OneInEachPlace` (`OneResult`, without the
exception: a client counts, and gives no place twice even when the server does) and `CountsAsServer`
(`ClientsAgree`).

**`SFXManagerProofs`** (`SFXAssumption`; any sounds, any operations, any length
of the queue). `TypeCorrect` contains that the positions of both threads in the
list are valid in their loops, which rests on the two kinds of loops excluding
each other. `AssertionHolds` (`UpdatedWhilePlaying`) adds `Created`: the sounds
of the list exist, so the only status the main thread may store between the two
tests is "playing". `AliveWhenUsed` (`UsedWhileAlive`) is for games that leave
the options alone (`GameOnly`), and its invariant `AliveInv` is about the order
of the queue: nothing for a sound is behind its deletion, which is queued or in
execution only for a sound that is dead for its owner, and whatever is queued is
for a sound that is not freed. `Grows` is what every step but `Take` does to
the queue; each group of steps is shown to be one that lets it grow, and growth
to keep the invariant. `StatusCorrect` (`StatusMatchesSource`) is for the calls of
the run `sfx_race`, which neither loop a sound nor touch the options
(`RaceOnly`). `MatchInv`: the status of a sound agrees with its source, or a play
for it is still to be executed; neither `exit`, which drops the rest of the queue,
nor the throttling drops a play. With loops this is not so: a loop that is
switched off is known to the program before OpenAL is told, and the thread may
end the sound in between.

Left to TLC are the liveness properties (`EventuallyPlayed`, `Served`,
`AbortEnds`, `QuitTerminates`, `Answered`, `EmptyServerResets`, `ResetEnds`,
`WaitingEnds`, `QuitEnds`, `DeletedIsFreed`), since liveness under fairness is out
of the provers' reach, and what the theorems about the lobby and the sounds
exclude by their hypotheses: ranked servers, and games with loops or options.

The library's induction theorems take a predicate as an operator, which the
provers cannot instantiate. Where a loop of the code matters to a proof the model
has it as a recursive function over positions (`PassedOver`, `Selected`,
`Course`), and induction is on sets of positions: a set that has 0 and
with each position the next has all of them (`UpTo` in `SequenceLemmas`, from
`LeastOfNats`). No module declares a RECURSIVE operator.

## 6. Not modelled

The content of states and the physics (floating point); encoding of messages;
registration of the server with the online service, Grand Prix, AI peers,
owner-less servers, votes, rankings and bans in the lobby; music, quick sounds,
the listener and buffers of the sound manager; the components that
`PROJECT.json` lists as `not_modelled`, each with the reason.

## 7. Plan

1. done: `RewindQueue`, `RewindQueueProofs`.
2. done: `ProtocolManager`, `ProtocolManagerProofs`.
3. done: `RequestManager`, `RequestManagerProofs`.
4. done: `ServerLobby`, `ServerLobbyProofs`.
5. done: `EventLog`, `NetworkItems`, `NetworkItemsProofs`.
6. done: `RaceRanking`, `RaceRankingProofs`.
7. `ClientLobby`, the client's machine, and `LobbyNet`, which composes both over
   a network that delivers reliably and in order to each peer; the abstract
   specification is a race that every player who stays enters and leaves
   together with the server.
8. `Connection`: ConnectToServer and STKHost, with retries and time-outs.
9. `RewindNet`: a server and a client composed over a lossy network; the
   abstract specification is the sequence of events in the server's order.
10. done: `SFXManager`, `SFXManagerProofs`.
11. `CheckLines` and the game modes: flags and scores.

The table of runs is kept short on purpose; a later module takes the place of
a run that answers a narrow question.
