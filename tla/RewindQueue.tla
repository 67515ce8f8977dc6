---------------------------- MODULE RewindQueue ----------------------------
(***************************************************************************)
(* The rewind queue of one host of a networked race and the part of the    *)
(* main loop that drives it: RewindQueue (rewind_queue.cpp) together with  *)
(* RewindManager::playEventsTill, rewindTo and update (rewind_manager.cpp).*)
(*                                                                         *)
(* A client simulates ahead of the server.  States of the server reach it  *)
(* late, so it goes back to the state, and replays every event since then. *)
(* The server never goes back: it moves a late event forward to "now".     *)
(*                                                                         *)
(* Two threads: the main thread (program counter pc) and the thread that   *)
(* delivers messages (NetEvent, NetState), which may run between any two   *)
(* steps of the main thread except while that one holds the lock of        *)
(* m_network_events (pc = "merge").                                        *)
(***************************************************************************)
EXTENDS Integers, Sequences, SequencesExt

CONSTANTS IsServer,   \* NetworkConfig::isServer()
          StateFreq,  \* m_state_frequency: ticks between two saved states
          FinishCheck,\* one second, in ticks: see CrossFinish
          MaxTick,    \* bound: the last tick that is simulated
          MaxEvents,  \* bound: number of controller events of a behaviour
          MaxStates   \* bound: number of server states that arrive

ASSUME ConstAssumption ==
    /\ IsServer \in BOOLEAN
    /\ StateFreq \in Nat \ {0} /\ FinishCheck \in Nat \ {0}
    /\ MaxTick \in Nat /\ MaxEvents \in Nat /\ MaxStates \in Nat

VARIABLES
    q,        \* m_all_rewind_info
    cur,      \* m_current, as a position of q; Len(q)+1 is end()
    latest,   \* m_latest_confirmed_state_time
    net,      \* m_network_events
    pend,     \* m_pending_rief
    now,      \* World::getTicksSinceStart() of the step being simulated
    wt,       \* the same clock while a rewind has turned it back
    pc,       \* where the main thread is
    mi,       \* mergeNetworkData: the iterator i
    lcs,      \* mergeNetworkData: latest_confirmed_state
    needs,    \* mergeNetworkData: *needs_rewind
    rewTo,    \* mergeNetworkData: *rewind_ticks
    localSt,  \* keys of m_local_state
    ff,       \* fast_forward of the step; FALSE between steps
    endCtrl,  \* m_controller of the local kart is an EndController
    hasSaved, \* its m_saved_controller is not NULL
    check,    \* its m_network_finish_check_ticks
    finished, \* its m_finished_race: the server has confirmed its finish
    crossed,  \* number of end controllers it was given at the line
    \* history variables, read by properties and bounds only
    played,   \* events replayed, since the state last rewound to
    base,     \* tick of that state, -1 before the first rewind
    saved,    \* every tick at which a local state was ever saved
    stale,    \* a function was replayed whose end controller had been deleted
    events,   \* number of controller events so far
    states    \* number of server states that have arrived

queueVars == <<q, cur>>
mergeVars == <<mi, lcs, needs, rewTo>>
clockVars == <<now, wt>>
kartVars  == <<endCtrl, hasSaved, check, finished, crossed, stale>>
histVars  == <<saved, events, states>>
vars == <<q, cur, latest, net, pend, now, wt, pc, mi, lcs, needs, rewTo,
          localSt, ff, kartVars, played, base, saved, events, states>>

Infos == [kind : {"state", "event", "func"}, tick : Nat, id : Nat]
StateInfo(t)     == [kind |-> "state", tick |-> t, id |-> 0]
EventInfo(t, id) == [kind |-> "event", tick |-> t, id |-> id]
FuncInfo(t, n)   == [kind |-> "func",  tick |-> t, id |-> n]

IsState(r) == r.kind = "state"
IsFunc(r)  == r.kind = "func"

\* What is replayed: replay() of a state does nothing.
Replayable == {r \in Infos : ~IsState(r)}

\* What is left of a list if only the elements in R are taken.
Selected(s, R) ==
    LET f[i \in 0..Len(s)] ==
            IF i = 0 THEN <<>>
            ELSE IF s[i] \in R THEN Append(f[i - 1], s[i]) ELSE f[i - 1]
    IN  f[Len(s)]

-----------------------------------------------------------------------------
(* Operators of the queue                                                  *)

LastOf(I)     == Max({0} \cup I)
FirstOf(I, n) == Min({n} \cup I)

\* Mutant: an info of the same tick is passed over only if it is older.
StopsAtSameTick(e, r) == e.tick <= r.tick

\* The search of insertRewindInfo, from the back, stops behind such an e.
StopsSearch(e, r) ==
    \/ e.tick < r.tick
    \/ e.tick = r.tick /\ ~IsState(r)

InsertPos(s, r) == LastOf({i \in 1..Len(s) : StopsSearch(s[i], r)}) + 1

Insert(s, r) == InsertAt(s, InsertPos(s, r), r)

\* m_current keeps its element, unless it was end(): then it is the new one.
CurAfterInsert(s, c, r) ==
    IF c = Len(s) + 1 THEN InsertPos(s, r)
    ELSE IF InsertPos(s, r) <= c THEN c + 1 ELSE c

\* Mutant: the state of tick t itself is cleaned up as well.
FirstKeptOffByOne(s, t) ==
    FirstOf({i \in 1..Len(s) : s[i].tick > t}, Len(s) + 1)

\* cleanupOldRewindInfo keeps the elements from this position on.
FirstKept(s, t) == FirstOf({i \in 1..Len(s) : s[i].tick >= t}, Len(s) + 1)

\* Mutant: one element only, an if in place of the while.
RunEndOfOne(s, c, t) == IF c <= Len(s) /\ s[c].tick = t THEN c + 1 ELSE c

\* replayAllEvents leaves m_current behind the run of elements at tick t.
RunEnd(s, c, t) == FirstOf({i \in c..Len(s) : s[i].tick # t}, Len(s) + 1)

\* undoUntil: the last confirmed state not after t, 0 if there is none.
UndoPos(s, t) == LastOf({i \in 1..Len(s) : IsState(s[i]) /\ s[i].tick <= t})

\* rewindTo restores the states at the exact tick and stops behind them.
RestoreEnd(s, u) ==
    FirstOf({i \in u..Len(s) : ~(IsState(s[i]) /\ s[i].tick = s[u].tick)},
            Len(s) + 1)

ShouldSaveState(t) ==
    LET a == t - StateFreq + 1 IN t # 0 /\ a >= 0 /\ a % StateFreq = 0

-----------------------------------------------------------------------------
Init ==
    /\ q = <<>> /\ cur = 1 /\ latest = -1 /\ net = <<>> /\ pend = <<>>
    /\ now = 0 /\ wt = 0 /\ pc = "idle"
    /\ mi = 1 /\ lcs = -1 /\ needs = FALSE /\ rewTo = -9999
    /\ localSt = {} /\ ff = FALSE
    /\ endCtrl = FALSE /\ hasSaved = FALSE /\ check = 0 /\ finished = FALSE
    /\ crossed = 0 /\ stale = FALSE
    /\ played = <<>> /\ base = -1 /\ saved = {} /\ events = 0 /\ states = 0

-----------------------------------------------------------------------------
(* The thread that delivers messages                                       *)

Receive(r) ==
    /\ pc # "merge"
    /\ net' = Append(net, r)
    /\ UNCHANGED <<queueVars, latest, pend, clockVars, pc, mergeVars, localSt,
                   ff, kartVars, played, base, saved>>

\* handleControllerAction: an event of another player, late or early.
NetEvent ==
    /\ events < MaxEvents
    /\ \E t \in 0..MaxTick : Receive(EventInfo(t, events + 1))
    /\ events' = events + 1
    /\ UNCHANGED states

\* handleState, on a client only.  The server saves one state per tick and
\* sends it unreliably and unsequenced: states are lost and overtake each
\* other, but the transport does not duplicate them.
NetState ==
    /\ ~IsServer
    /\ states < MaxStates
    /\ \E t \in 0..now :
         /\ ShouldSaveState(t)
         /\ \A r \in ToSet(q) \cup ToSet(net) : ~(IsState(r) /\ r.tick = t)
         /\ Receive(StateInfo(t))
    /\ states' = states + 1
    /\ UNCHANGED events

-----------------------------------------------------------------------------
(* The main thread                                                         *)

\* mergeRewindInfoEventFunction; the one local kart crosses the line once in a
\* step, so that at most one function is pending.
MergePending ==
    /\ pend' = <<>>
    /\ IF pend = <<>> THEN UNCHANGED queueVars
       ELSE /\ q' = Insert(q, pend[1])
            /\ cur' = CurAfterInsert(q, cur, pend[1])

\* Input is handled between two steps; GameProtocol::controllerAction.
LocalEvent ==
    /\ pc = "idle" /\ ~IsServer
    /\ events < MaxEvents
    /\ LET r == EventInfo(now, events + 1) IN
         /\ q' = Insert(q, r)
         /\ cur' = CurAfterInsert(q, cur, r)
    /\ events' = events + 1
    /\ UNCHANGED <<latest, net, pend, clockVars, pc, mergeVars, localSt,
                   ff, kartVars, played, base, saved, states>>

\* playEventsTill up to the first test of mergeNetworkData.
BeginStep ==
    /\ pc = "idle" /\ now <= MaxTick
    /\ MergePending
    /\ needs' = FALSE
    /\ ff' \in BOOLEAN /\ (ff' => ~IsServer)
    /\ IF net = <<>>
       THEN pc' = "play" /\ UNCHANGED <<mi, lcs, rewTo>>
       ELSE pc' = "merge" /\ mi' = 1 /\ lcs' = -1 /\ rewTo' = -9999
    /\ UNCHANGED <<latest, net, clockVars, localSt, kartVars, played, base,
                   histVars>>

TooOld(r) == r.tick < latest

\* One iteration over m_network_events: an info of the future stays in the
\* list, one before the confirmed state is dropped, any other is inserted.
MergeSkip ==
    /\ pc = "merge" /\ mi <= Len(net)
    /\ net[mi].tick > now
    /\ mi' = mi + 1
    /\ UNCHANGED <<queueVars, latest, net, pend, clockVars, pc, lcs, needs,
                   rewTo, localSt, ff, kartVars, played, base, histVars>>

MergeDrop ==
    /\ pc = "merge" /\ mi <= Len(net)
    /\ net[mi].tick <= now /\ TooOld(net[mi])
    /\ net' = RemoveAt(net, mi)
    /\ UNCHANGED <<queueVars, latest, pend, clockVars, pc, mergeVars, localSt,
                   ff, kartVars, played, base, histVars>>

\* Mutant: the server leaves a late event at its tick.
Unadjusted(r) == r

\* The server moves what it merges to now; see RewindInfo::setTicks.
Adjusted(r) == IF IsServer THEN [r EXCEPT !.tick = now] ELSE r

\* Mutant: a state of the current tick does not count as the past.
RewindsBeforeNow(r) == ~IsServer /\ r.tick < now /\ IsState(r)

TriggersRewind(r) == ~IsServer /\ r.tick <= now /\ IsState(r)

MergeInsert ==
    /\ pc = "merge" /\ mi <= Len(net)
    /\ net[mi].tick <= now /\ ~TooOld(net[mi])
    /\ LET r == Adjusted(net[mi]) IN
         /\ q' = Insert(q, r)
         /\ cur' = CurAfterInsert(q, cur, r)
         /\ needs' = (needs \/ TriggersRewind(r))
         /\ rewTo' = IF TriggersRewind(r) /\ r.tick > rewTo
                     THEN r.tick ELSE rewTo
         /\ lcs' = IF IsState(r) /\ r.tick > lcs THEN r.tick ELSE lcs
    /\ net' = RemoveAt(net, mi)
    /\ UNCHANGED <<latest, pend, clockVars, pc, mi, localSt, ff, kartVars, played,
                   base, histVars>>

\* What follows the loop.  The clean-ups for a new confirmed state and, on a
\* server, for the current tick drop a prefix each: together, the longer one.
CleanupTick ==
    Max({IF lcs > latest THEN lcs ELSE 0, IF IsServer THEN now ELSE 0})

MergeEnd ==
    /\ pc = "merge" /\ mi > Len(net)
    /\ LET k == FirstKept(q, CleanupTick) IN
         /\ q' = SubSeq(q, k, Len(q))
         /\ cur' = IF cur < k THEN 1 ELSE cur - k + 1
    /\ latest' = IF lcs > latest THEN lcs ELSE latest
    \* "This should not be necessary anymore":
    /\ LET fallback == needs /\ rewTo < latest' /\ ~IsServer IN
         /\ rewTo' = IF fallback THEN latest' ELSE rewTo
         /\ needs' = IF fallback THEN latest' < now ELSE needs
    /\ pc' = IF needs' THEN "undo" ELSE "play"
    /\ UNCHANGED <<net, pend, clockVars, mi, lcs, localSt, ff, kartVars, played,
                   base, histVars>>

\* Mutant: every saved local state is forgotten with the used one.
ForgetAllLocal(exact) == {}

\* What rewindTo keeps of m_local_state after restoring the one at exact.
KeptLocal(exact) == {t \in localSt : t > exact}

\* Mutant: the functions act although the finish was given up.
AlwaysActive == TRUE

\* The undo and the replay function of a crossing do nothing once the finish
\* was given up.
Active == check # -1

\* rewindTo up to its loop: undo, turn the clock back, restore.
Undo ==
    /\ pc = "undo"
    /\ UndoPos(q, rewTo) # 0
    /\ LET u == UndoPos(q, rewTo)
           exact == q[u].tick
       IN /\ base' = exact
          /\ wt' = exact
          /\ localSt' = IF exact \in localSt
                        THEN KeptLocal(exact) ELSE localSt
          /\ cur' = RestoreEnd(q, u)
          /\ endCtrl' = (endCtrl /\ (Active => \A i \in u..Len(q) : ~IsFunc(q[i])))
    /\ played' = <<>>
    /\ pc' = "replay"
    /\ UNCHANGED <<q, latest, net, pend, now, ff, mergeVars, hasSaved, check,
                   finished, crossed, stale, histVars>>

\* replayAllEvents
RunAt(t) == SubSeq(q, cur, RunEnd(q, cur, t) - 1)
Replay(t) ==
    /\ cur' = RunEnd(q, cur, t)
    /\ played' = played \o Selected(RunAt(t), Replayable)

\* The functions among the infos of tick t that act: they save the player's
\* controller and install the end controller of their crossing.
Resumed(t) == {i \in 1..Len(RunAt(t)) : IsFunc(RunAt(t)[i]) /\ Active}
Outdated(t) == \E i \in Resumed(t) : RunAt(t)[i].id # crossed

\* Kart::update, with the controllers as the events of the tick leave them:
\* a finish that the server does not confirm in time is given up, the end
\* controller is deleted and the player has the kart again.
GivesUp(t, isSaved) == check > 0 /\ t > check /\ ~finished /\ isSaved
UpdateKart(t, isEnd, isSaved) ==
    LET up == ~ff /\ GivesUp(t, isSaved) IN
    /\ endCtrl' = (isEnd /\ ~up)
    /\ hasSaved' = (isSaved /\ ~up)
    /\ check' = IF up THEN -1 ELSE check

\* A step of the loop of rewindTo: the events of the tick are replayed, and,
\* unless the main loop is fast forwarding, World::updateWorld is called.
ReplayTick ==
    /\ pc = "replay" /\ wt < now
    /\ Replay(wt)
    /\ UpdateKart(wt, endCtrl \/ Resumed(wt) # {}, hasSaved \/ Resumed(wt) # {})
    /\ stale' = (stale \/ Outdated(wt))
    /\ wt' = wt + 1
    /\ UNCHANGED <<q, latest, net, pend, now, pc, ff, mergeVars, localSt,
                   finished, crossed, base, histVars>>

EndRewind ==
    /\ pc = "replay" /\ wt = now
    /\ MergePending
    /\ pc' = "play"
    /\ UNCHANGED <<latest, net, clockVars, mergeVars, localSt, ff, kartVars,
                   played, base, histVars>>

\* The end of playEventsTill.
Play ==
    /\ pc = "play"
    /\ IF cur > Len(q) THEN UNCHANGED <<cur, played, endCtrl, hasSaved, stale>>
       ELSE /\ Replay(now)
            /\ endCtrl' = (endCtrl \/ Resumed(now) # {})
            /\ hasSaved' = (hasSaved \/ Resumed(now) # {})
            /\ stale' = (stale \/ Outdated(now))
    /\ pc' = "sim"
    /\ UNCHANGED <<q, latest, net, pend, clockVars, ff, mergeVars, localSt,
                   check, finished, crossed, base, histVars>>

\* RewindManager::update, which World::updateWorld calls.
SaveLocalState ==
    LET save == ~IsServer /\ ~ff /\ ShouldSaveState(now) IN
    /\ localSt' = IF save THEN localSt \cup {now} ELSE localSt
    /\ saved' = IF save THEN saved \cup {now} ELSE saved

Drive ==
    /\ UpdateKart(now, endCtrl, hasSaved)
    /\ UNCHANGED <<pend, crossed>>

\* Kart::finishedRace, called later in updateWorld: the local kart crosses the
\* finishing line.  Its controller is saved and replaced, the rewind manager
\* is told, and the server has one second to confirm.
CrossFinish ==
    /\ ~IsServer /\ ~ff /\ ~finished
    /\ ~hasSaved \/ GivesUp(now, hasSaved)
    /\ check' = now + FinishCheck
    /\ endCtrl' = TRUE
    /\ hasSaved' = TRUE
    /\ crossed' = crossed + 1
    /\ pend' = Append(pend, FuncInfo(now, crossed + 1))

\* World::updateWorld, unless the main loop is fast forwarding, and then
\* World::updateTime.
Simulate ==
    /\ pc = "sim"
    /\ SaveLocalState
    /\ Drive \/ CrossFinish
    /\ now' = now + 1
    /\ wt' = now + 1
    /\ pc' = "idle"
    /\ ff' = FALSE
    /\ UNCHANGED <<queueVars, latest, net, mergeVars, finished, stale, played,
                   base, events, states>>

\* Between two steps the messages of the server are delivered: the kart has
\* finished the race, whether it has crossed the line here or not
\* (GameEventsProtocol::kartFinishedRace, Kart::finishedRace).
ServerFinish ==
    /\ pc = "idle" /\ ~IsServer /\ ~finished
    /\ finished' = TRUE
    /\ endCtrl' = (~hasSaved \/ endCtrl)
    /\ hasSaved' = TRUE
    /\ UNCHANGED <<queueVars, latest, net, pend, clockVars, pc, mergeVars, localSt,
                   ff, check, crossed, stale, played, base, histVars>>

MainThread ==
    \/ BeginStep \/ MergeSkip \/ MergeDrop \/ MergeInsert \/ MergeEnd
    \/ Undo \/ ReplayTick \/ EndRewind \/ Play
    \/ Simulate

Next == NetEvent \/ NetState \/ LocalEvent \/ ServerFinish \/ MainThread

\* The main loop keeps running for as long as the race does.
Spec == Init /\ [][Next]_vars /\ WF_vars(MainThread)

-----------------------------------------------------------------------------
TypeOK ==
    /\ q \in Seq(Infos) /\ cur \in 1..(Len(q) + 1)
    /\ latest \in Nat \cup {-1}
    /\ net \in Seq(Infos) /\ pend \in Seq(Infos)
    /\ now \in Nat /\ wt \in Nat
    /\ pc \in {"idle", "merge", "undo", "replay", "play", "sim"}
    /\ mi \in Nat \ {0} /\ lcs \in Nat \cup {-1} /\ needs \in BOOLEAN
    /\ rewTo \in Int
    /\ localSt \in SUBSET Nat /\ ff \in BOOLEAN
    /\ endCtrl \in BOOLEAN /\ hasSaved \in BOOLEAN /\ check \in Nat \cup {-1}
    /\ finished \in BOOLEAN /\ crossed \in Nat /\ stale \in BOOLEAN
    /\ base \in Nat \cup {-1}
    /\ saved \in SUBSET Nat
    /\ events \in Nat /\ states \in Nat

\* The queue is in the order of time and, at one time, has the states before
\* the events, however the network delivered them (insertRewindInfo).
SortedSeq(s) ==
    \A i, j \in 1..Len(s) : i < j =>
        /\ s[i].tick <= s[j].tick
        /\ s[i].tick = s[j].tick /\ IsState(s[j]) => IsState(s[i])
Sorted == SortedSeq(q)

\* "This shouldn't happen": the backward walk of undoUntil never runs off the
\* front of the list, although merging has just deleted everything that is
\* older than the newest state.
UndoFindsState == pc = "undo" => UndoPos(q, rewTo) # 0

\* A rewind goes to the newest state that was merged, and the correction at
\* the end of mergeNetworkData "should not be necessary anymore": indeed the
\* tick it compares is never before the confirmed state.
RewindToNewest ==
    /\ pc = "merge" /\ needs => rewTo = lcs /\ rewTo >= latest
    /\ pc = "undo" => rewTo = latest /\ rewTo <= now

\* When a rewind is over, every event of the queue between the restored state
\* and now has been replayed, once and in the order of the queue.
ReplayComplete ==
    pc = "replay" /\ wt = now =>
        played = Selected(q, {r \in Replayable : r.tick < now})

\* A rewind to a tick this host has simulated in full finds the local state
\* it saved there ("Missing local state"): erasing used states and dropping
\* late network states never lose one that is still needed.
LocalStateFound ==
    pc = "undo" => LET exact == q[UndoPos(q, rewTo)].tick IN
                   exact \in saved => exact \in localSt

\* Outside of a rewind the local kart has its end controller, and the player's
\* is saved, exactly if the server has confirmed its finish or still may: what
\* an undo removes is always brought back by the replay that follows.  A finish
\* that is given up, in a rewind or not, deletes the end controller and never
\* the player's.  (Unless a function was replayed whose end controller had been
\* deleted: after that the code promises nothing.)
HasFinished == finished \/ check > 0
EndControllerKept == ~stale =>
    /\ pc \in {"idle", "merge", "undo"} =>
         (endCtrl <=> HasFinished) /\ (hasSaved <=> HasFinished)
    /\ pc \in {"replay", "sim"} /\ GivesUp(wt, hasSaved) => endCtrl

\* The server executes every event it received exactly once, in whatever
\* order and however late they came, and keeps the others for later.
PlayedIds == [i \in 1..Len(played) |-> played[i].id]
ServerExactlyOnce ==
    IsServer /\ pc = "sim" =>
        /\ IsInjective(PlayedIds)
        /\ 1..events \subseteq ToSet(PlayedIds) \cup {r.id : r \in ToSet(net)}
        /\ \A r \in ToSet(net) : r.id \notin ToSet(PlayedIds)

\* The position in the queue never goes back except in a rewind: an event the
\* server played is not played again.
ServerQueueConsumed == IsServer /\ pc \in {"sim", "idle"} => cur = Len(q) + 1

\* What a step simulates rests on the newest state that was ever merged,
\* whatever overtook it and whatever else was merged with it: no such state is
\* confirmed without a rewind to it, and no rewind goes back behind it.
NewestStateAdopted == pc \in {"play", "sim", "idle"} => base = latest

\* An event the server has received is played, provided that the race lasts.
EventuallyPlayed ==
    \A id \in 1..MaxEvents :
        ((\E r \in ToSet(net) : r.id = id) /\ now < MaxTick)
            ~> (id \in ToSet(PlayedIds))

-----------------------------------------------------------------------------
(* The inductive invariant behind UndoFindsState, RewindToNewest and       *)
(* ServerQueueConsumed.                                                    *)

HasState(s, t) == \E i \in 1..Len(s) : IsState(s[i]) /\ s[i].tick = t

\* Nothing in the queue is older than the confirmed state, that state itself
\* is still there, and a pending function is not older either.
ConfirmedHeld ==
    /\ latest <= now
    /\ \A i \in 1..Len(q) : q[i].tick >= latest
    /\ latest >= 0 => HasState(q, latest)
    /\ pend # <<>> => pc = "idle" /\ pend[1].tick >= latest

\* What the loop of mergeNetworkData has found so far.
MergeFound ==
    pc = "merge" =>
        /\ needs <=> lcs # -1
        /\ rewTo = IF needs THEN lcs ELSE -9999
        /\ needs => latest <= lcs /\ lcs <= now /\ HasState(q, lcs)

\* A rewind is under way on a client only, towards the confirmed state.
RewindTarget ==
    pc = "undo" => ~IsServer /\ latest >= 0 /\ rewTo = latest

\* A server has no states, no functions and nothing of the future in its
\* queue; what is not yet played belongs to the current tick.
ServerQueue ==
    IsServer =>
        /\ latest = -1 /\ lcs = -1 /\ pend = <<>> /\ pc # "replay"
        /\ \A i \in 1..Len(net) : ~IsState(net[i])
        /\ \A i \in 1..Len(q) : q[i].tick <= now
        /\ pc \in {"merge", "play"} => \A i \in cur..Len(q) : q[i].tick = now
        /\ pc \in {"idle", "sim"} => cur = Len(q) + 1

IInv == /\ TypeOK /\ Sorted /\ ConfirmedHeld /\ MergeFound /\ RewindTarget
        /\ ServerQueue
=============================================================================
