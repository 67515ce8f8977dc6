---------------------------- MODULE NetworkItems ----------------------------
(***************************************************************************)
(* The items of a networked race: NetworkItemManager on a server and on    *)
(* its clients, with the ItemManager and ItemState it is built on.         *)
(*                                                                         *)
(* The server keeps a list of item events (an item was collected, dropped, *)
(* or all items were switched) and writes the whole list into every state  *)
(* it sends.  States and confirmations are unreliable and may overtake one *)
(* another.  A client keeps the items as they were at the time of the last *)
(* state it restored, applies what is new in the list, and confirms.  The  *)
(* server forgets an event once every client has confirmed a later one:    *)
(* another thread looks the earliest time up under one lock, and discards  *)
(* events under another.                                                   *)
(* A player may join while the race is on: it gets all items in a reliable *)
(* message and the events from there on.                                   *)
(*                                                                         *)
(* Left out: positions and owners of items, the time for which a dropped   *)
(* item does not hit its owner, the items that a client predicts between   *)
(* two states (each state overwrites them), and the easter eggs.           *)
(***************************************************************************)
EXTENDS Integers, Sequences, FiniteSets

CONSTANTS
    Clients,        \* the clients (peers)
    Starters,       \* those in the race from its start
    Leavers,        \* those that may leave the race (bound)
    FirstItems,     \* types of the items that are part of the track
    SwitchTicks,    \* stk_config->m_item_switch_ticks
    ReturnTicks,    \* time until a collected item returns
    BombTicks,      \* the same when a kart with a bomb hits a banana
    MaxTick, MaxEvents, MaxSlots, MaxStates  \* bounds of the checked instances

ASSUME ConstAssumption ==
    /\ Starters \subseteq Clients
    /\ SwitchTicks \in Nat
    /\ MaxTick \in Nat /\ MaxEvents \in Nat

VARIABLES
    now,       \* world ticks of the server
    main,      \* where its main thread is: "rewind", "karts", "join" or "over"
    items,     \* m_all_items of the server
    switch,    \* its m_switch_ticks
    events,    \* m_item_events
    last,      \* m_last_confirmed_item_ticks; NotInMap for a peer without entry
    minTime,   \* min_time of the call of setItemConfirmationTime, or Idle
    conn,      \* each peer: "lobby", "entering", "loading", "racing", "gone"
    start,     \* the complete state on its way to a peer that joins
    states,    \* states on their way to each client
    confs,     \* confirmations on their way from each client
    copy,      \* each client: m_confirmed_state, its time and switch ticks
    latest,    \* each client: m_latest_confirmed_state_time of its rewind queue
    log,       \* history: the ticks of all events
    past,      \* history: the items of the server before each tick
    applied,   \* history: the events each client has applied
    unasked    \* history: events were discarded for an empty map, though a
               \* peer had joined since the map was looked at

serverVars == <<now, main, items, switch, events>>
netVars    == <<start, states, confs>>
clientVars == <<copy, latest, applied>>
history    == <<log, past>>
discards   == <<minTime, unasked>>
vars == <<serverVars, last, conn, netVars, clientVars, history, discards>>

NotInMap == -1
Idle     == -1
Int32Max == 2147483647
NoItem   == [type |-> "none"]

----------------------------------------------------------------------------
(* Items *)

\* m_switch_to, from the configuration
SwitchTo == [box |-> "banana", banana |-> "box", gum |-> "nitro", nitro |-> "gum"]

NewItem(type) ==
    [type |-> type, original |-> "none", ttr |-> 0,
     uses |-> IF type = "gum" THEN 1 ELSE -1]

SwitchOn(it)   == [it EXCEPT !.type = SwitchTo[it.type], !.original = it.type]
SwitchBack(it) == IF it.original = "none" THEN it
                  ELSE [it EXCEPT !.type = it.original, !.original = "none"]

\* ItemState::update: a counter that has run out stays.
Aged(it, ticks) == IF it.ttr > 0 THEN [it EXCEPT !.ttr = @ - ticks] ELSE it

Collected(it) ==
    IF it.uses > 0 THEN [it EXCEPT !.uses = @ - 1, !.ttr = -1]
    ELSE [it EXCEPT !.ttr = ReturnTicks]

UsedUp(it)    == it.uses = 0
Available(it) == it.ttr <= 0 /\ ~UsedUp(it)

OnItems(Op(_), its) ==
    [i \in DOMAIN its |-> IF its[i] = NoItem THEN NoItem ELSE Op(its[i])]

\* A dropped item is switched at once while the others are.
Dropped(sw) == IF sw >= 0 THEN SwitchOn(NewItem("gum")) ELSE NewItem("gum")

\* switchItemsInternal
SwitchAll(its, sw) ==
    IF sw < 0 THEN OnItems(SwitchOn, its) ELSE OnItems(SwitchBack, its)
SwitchedTicks(sw)  == IF sw < 0 THEN SwitchTicks ELSE -1

\* The index insertItem chooses: the last one that is free, or a new one.
FreeIndex(its) ==
    LET free == {i \in DOMAIN its : its[i] = NoItem}
    IN  IF free = {} THEN Len(its) + 1
        ELSE CHOOSE i \in free : \A j \in free : j <= i

Put(its, i, it) == [j \in 1 .. IF i > Len(its) THEN i ELSE Len(its) |->
                       IF j = i THEN it
                       ELSE IF j <= Len(its) THEN its[j] ELSE NoItem]

ASSUME ItemsAssumption ==
    /\ FirstItems \in Seq(DOMAIN SwitchTo)
    /\ ReturnTicks \in Nat /\ BombTicks \in Nat

\* The items that are part of the track, and the complete state of them
Track == [items |-> [i \in DOMAIN FirstItems |-> NewItem(FirstItems[i])],
          switch |-> -1]
Complete(t) == [time |-> 0, items |-> t.items, switch |-> t.switch]

----------------------------------------------------------------------------
(* The server: one tick is RewindManager::update, the karts, the items. *)

Racing == {c \in Clients : conn[c] \in {"loading", "racing"}}  \* not waiting

Log(e) ==
    /\ Len(log) < MaxEvents
    /\ events' = Append(events, e)
    /\ log' = Append(log, now)

Event(kind, i, ttr) ==
    [kind |-> kind, ticks |-> now, index |-> i, ttr |-> ttr, n |-> Len(log) + 1]

\* The lobby finds somebody in the game (see RaceStops), and then comes
\* RewindManager::update: the state goes to everybody in the game.  What is
\* on its way may arrive at any time, in any order, or never; only the last
\* MaxStates are followed.
Newest(S) == {s \in S : Cardinality({o \in S : o.ticks > s.ticks}) < MaxStates}
SaveState ==
    LET state == [ticks |-> now, events |-> events]
        Others(c) == {s \in states[c] : s.ticks < now}
    IN  /\ main = "rewind" /\ Racing # {}
        /\ states' = [c \in Clients |->
                         IF c \in Racing THEN Newest(Others(c) \cup {state}) ELSE {}]
        /\ main' = "karts"
        /\ UNCHANGED <<now, items, switch, events, last, conn, start, confs>>
        /\ UNCHANGED <<clientVars, history, discards>>

\* A kart hits an item.  A bomb it carries makes a banana stay away longer
\* (Attachment::hitBanana); the event is written after that.
CollectItem(i) ==
    LET it == Collected(items[i]) IN
    /\ main = "karts"
    /\ items[i] # NoItem /\ Available(items[i])
    /\ \E ttr \in {it.ttr} \cup (IF it.type = "banana" THEN {BombTicks} ELSE {}) :
         /\ items' = [items EXCEPT ![i] = [it EXCEPT !.ttr = ttr]]
         /\ Log(Event("collect", i, ttr))
    /\ UNCHANGED <<now, main, switch, last, conn, netVars, clientVars, past, discards>>

\* A kart drops a bubble gum.
DropItem ==
    LET i == FreeIndex(items) IN
    /\ main = "karts"
    /\ i <= MaxSlots
    /\ items' = Put(items, i, Dropped(switch))
    /\ Log(Event("new", i, 0))
    /\ UNCHANGED <<now, main, switch, last, conn, netVars, clientVars, past, discards>>

\* A kart uses the switch.
SwitchItems ==
    /\ main = "karts"
    /\ items' = SwitchAll(items, switch)
    /\ switch' = SwitchedTicks(switch)
    /\ Log(Event("switch", 0, 0))
    /\ UNCHANGED <<now, main, last, conn, netVars, clientVars, past, discards>>

\* Mutant: the switch time is counted down for ever.
CountedOn(sw) == sw - 1

Counted(sw) == IF sw >= 0 THEN sw - 1 ELSE sw

\* ItemManager::update, and the clock goes on.  The race of the instance ends
\* after MaxTick.
UpdateItems ==
    LET sw   == Counted(switch)
        back == IF switch >= 0 /\ sw < 0 THEN OnItems(SwitchBack, items) ELSE items
        Step(it) == LET a == Aged(it, 1) IN IF UsedUp(a) THEN NoItem ELSE a
    IN  /\ main = "karts"
        /\ switch' = sw
        /\ items' = OnItems(Step, back)
        /\ now' = now + 1
        /\ main' = IF now < MaxTick THEN "rewind" ELSE "over"
        /\ past' = Append(past, [items |-> items', switch |-> sw])
        /\ UNCHANGED <<events, last, conn, netVars, clientVars, log, discards>>

\* ServerLobby::update, after the messages of the tick: nobody is in the game
\* any more, and the protocols of the race are stopped.
RaceStops ==
    /\ main = "rewind" /\ Racing = {}
    /\ main' = "over"
    /\ UNCHANGED <<now, items, switch, events, last, conn, netVars>>
    /\ UNCHANGED <<clientVars, history, discards>>

Over == main = "over" /\ UNCHANGED vars

\* The time in the entry of a peer after a confirmation
Raised(t, old) == IF old # NotInMap /\ t > old THEN t ELSE old

\* The earliest time in a map, later than every tick if the map is empty
Earliest(known) ==
    LET times == {known[p] : p \in {q \in Clients : known[q] # NotInMap}}
    IN  IF times = {} THEN Int32Max
        ELSE CHOOSE t \in times : \A u \in times : t <= u

\* NetworkItemManager::setItemConfirmationTime, which the thread that delivers
\* messages runs for one confirmation at a time: up to the first unlock.  The
\* confirmation may be handled when its peer has left the race, or is back in
\* it.  The entries of peers that are disconnected and to which nothing refers
\* any more are taken out; nothing of theirs is left to be handled.
ConfirmItems(c, t) ==
    LET known == [last EXCEPT ![c] = Raised(t, @)] IN
    /\ minTime = Idle
    /\ t \in confs[c]
    /\ \E expired \in SUBSET {p \in Clients \ {c} : conn[p] = "gone"} :
         /\ last' = [p \in Clients |-> IF p \in expired THEN NotInMap ELSE known[p]]
         /\ confs' = [p \in Clients |-> IF p \in expired THEN {}
                                       ELSE IF p = c THEN confs[c] \ {t} ELSE confs[p]]
    /\ minTime' = Earliest(last')
    /\ UNCHANGED <<serverVars, conn, start, states, clientVars, history, unasked>>

\* Mutant: the events of the confirmed tick are forgotten as well.
IsNotLater(e, time) == e.ticks <= time

Before(e, time) == e.ticks < time

\* The rest of it, under the lock of the events: those from before the time
\* that was the earliest in the map are forgotten.
DiscardEvents ==
    /\ minTime # Idle
    /\ \E k \in 0 .. Len(events) :
         /\ \A i \in 1 .. k : Before(events[i], minTime)
         /\ k < Len(events) => ~Before(events[k + 1], minTime)
         /\ events' = SubSeq(events, k + 1, Len(events))
    /\ minTime' = Idle
    /\ unasked' = (unasked \/ (minTime = Int32Max /\ Racing # {}))
    /\ UNCHANGED <<now, main, items, switch, last, conn, netVars, clientVars, history>>

\* The lobby, at the start of a tick.  A player whose track is loaded joins:
\* the items are written first, and the peer is entered in the map next.
SaveCompleteState(c) ==
    /\ main = "rewind" /\ conn[c] = "lobby"
    /\ start' = [start EXCEPT ![c] = [time |-> now, items |-> items, switch |-> switch]]
    /\ main' = "join"
    /\ conn' = [conn EXCEPT ![c] = "entering"]
    /\ UNCHANGED <<now, items, switch, events, last, states, confs>>
    /\ UNCHANGED <<clientVars, history, discards>>

\* Mutant: the peer that joins is not waited for.
NotEntered(c) == last

Entered(c) == [last EXCEPT ![c] = 0]

AddLiveJoinPeer(c) ==
    /\ main = "join" /\ conn[c] = "entering"
    /\ last' = Entered(c)
    /\ conn' = [conn EXCEPT ![c] = "loading"]
    /\ main' = "rewind"
    /\ UNCHANGED <<now, items, switch, events, netVars, clientVars, history, discards>>

\* The world of a client is deleted.  States on their way to it no longer find
\* a race, and the copy is made anew for the next one.  Its confirmations are
\* on their way all the same, and may arrive late.
ClientStops(c) ==
    /\ states' = [states EXCEPT ![c] = {}]
    /\ copy' = [copy EXCEPT ![c] = Complete(Track)]
    /\ latest' = [latest EXCEPT ![c] = -1]
    /\ applied' = [applied EXCEPT ![c] = {}]

\* clientInGameWantsToBackLobby
BackToLobby(c) ==
    /\ main = "rewind" /\ c \in Racing \cap Leavers
    /\ last' = [last EXCEPT ![c] = NotInMap]
    /\ conn' = [conn EXCEPT ![c] = "lobby"]
    /\ ClientStops(c)
    /\ UNCHANGED <<serverVars, start, confs, history, discards>>

\* The peer's shared pointer expires; its entry of the map stays.
Disconnect(c) ==
    /\ c \in Racing \cap Leavers
    /\ conn' = [conn EXCEPT ![c] = "gone"]
    /\ ClientStops(c)
    /\ UNCHANGED <<serverVars, last, start, confs, history, discards>>

----------------------------------------------------------------------------
(* A client *)

\* restoreCompleteState, when the client is told to start
RestoreCompleteState(c) ==
    /\ conn[c] = "loading"
    /\ conn' = [conn EXCEPT ![c] = "racing"]
    /\ copy' = [copy EXCEPT ![c] = start[c]]
    /\ start' = [start EXCEPT ![c] = Complete(Track)]
    /\ applied' = [applied EXCEPT ![c] = {n \in 1 .. Len(log) : log[n] < start[c].time}]
    /\ UNCHANGED <<serverVars, last, states, confs, latest, history, discards>>

\* forwardTime: the items of cs after some more ticks
Forward(cs, ticks) ==
    LET Step(it) == Aged(it, ticks)
        its == OnItems(Step, cs.items)
    IN  IF ticks <= 0 THEN cs
        ELSE IF cs.switch > ticks
        THEN [time |-> cs.time + ticks, items |-> its, switch |-> cs.switch - ticks]
        ELSE [time |-> cs.time + ticks, switch |-> -1,
              items |-> IF cs.switch >= 0 THEN SwitchAll(its, cs.switch) ELSE its]

\* Mutant: the time for which the item stays away is not taken from the event.
TakenAsUsual(it, ttr) ==
    LET t == Collected(it) IN IF it = NoItem \/ UsedUp(t) THEN NoItem ELSE t

\* Mutant: an item that is used up keeps its place.
TakenNotDeleted(it, ttr) ==
    IF it = NoItem THEN it ELSE [Collected(it) EXCEPT !.ttr = ttr]

Taken(it, ttr) == LET t == [Collected(it) EXCEPT !.ttr = ttr]
                  IN  IF it = NoItem \/ UsedUp(t) THEN NoItem ELSE t

\* Mutant: the events of the tick of the copy are skipped as well.
IsPastOrNow(e, time) == e.ticks <= time

IsPast(e, time) == e.ticks < time

\* One iteration of the loop of restoreState; events of the past are skipped.
Replayed(cs, e) ==
    LET at == Forward(cs, e.ticks - cs.time) IN
    CASE IsPast(e, cs.time) -> cs
      [] ~IsPast(e, cs.time) /\ e.kind = "collect" ->
           [at EXCEPT !.items[e.index] = Taken(@, e.ttr)]
      [] ~IsPast(e, cs.time) /\ e.kind = "new" ->
           [at EXCEPT !.items = Put(@, e.index, Dropped(at.switch))]
      [] ~IsPast(e, cs.time) /\ e.kind = "switch" ->
           [at EXCEPT !.items = SwitchAll(@, at.switch), !.switch = SwitchedTicks(@)]

\* The copy at the start of the loop and after each of the events
Course(cs, evs) ==
    LET at[i \in 0 .. Len(evs)] ==
            IF i = 0 THEN cs ELSE Replayed(at[i - 1], evs[i])
    IN  at

\* The items as they are at the time of the state
Restored(cs, s) == LET done == Course(cs, s.events)[Len(s.events)]
                   IN  Forward(done, s.ticks - done.time)

\* A state for an earlier time than the last one is deleted by the rewind
\* queue, so that the client always goes on.  The confirmation carries the
\* time of the last event, or of the copy if there was nothing new; it is
\* sent if there were any events, and is lost if it is never handled.
RestoreState(c, s) ==
    LET before == copy[c]
        count  == Len(s.events)
        end    == Restored(before, s)
        time   == IF count > 0 /\ s.events[count].ticks > before.time
                  THEN s.events[count].ticks ELSE before.time
    IN  /\ conn[c] = "racing"
        /\ s \in states[c] /\ s.ticks >= latest[c]
        /\ copy' = [copy EXCEPT ![c] =
                       [time |-> s.ticks, items |-> end.items, switch |-> end.switch]]
        /\ latest' = [latest EXCEPT ![c] = s.ticks]
        /\ states' = [states EXCEPT ![c] = {o \in @ : o.ticks > s.ticks}]
        /\ confs' = [confs EXCEPT ![c] = @ \cup IF count > 0 THEN {time} ELSE {}]
        /\ applied' = [applied EXCEPT ![c] = @ \cup
                          {s.events[i].n : i \in {j \in 1 .. count :
                                                    ~IsPast(s.events[j], before.time)}}]
        /\ UNCHANGED <<serverVars, last, conn, start, history, discards>>

----------------------------------------------------------------------------
\* The track is loaded, and the starters are sent the items on it.
Init ==
    /\ now = 0 /\ main = "rewind"
    /\ items = Track.items /\ switch = Track.switch
    /\ events = <<>> /\ log = <<>> /\ past = <<Track>>
    /\ last = [c \in Clients |-> IF c \in Starters THEN 0 ELSE NotInMap]
    /\ conn = [c \in Clients |-> IF c \in Starters THEN "loading" ELSE "lobby"]
    /\ start = [c \in Clients |-> Complete(Track)]
    /\ copy = start
    /\ latest = [c \in Clients |-> -1]
    /\ states = [c \in Clients |-> {}]
    /\ confs = [c \in Clients |-> {}]
    /\ applied = [c \in Clients |-> {}]
    /\ minTime = Idle /\ unasked = FALSE

Lobby(c) == SaveCompleteState(c) \/ AddLiveJoinPeer(c) \/ BackToLobby(c) \/ Disconnect(c)

Restore(c) == \E s \in states[c] : RestoreState(c, s)

Next ==
    \/ SaveState
    \/ \E i \in DOMAIN items : CollectItem(i)
    \/ DropItem
    \/ SwitchItems
    \/ UpdateItems
    \/ RaceStops \/ Over
    \/ DiscardEvents
    \/ \E c \in Clients : \E t \in confs[c] : ConfirmItems(c, t)
    \/ \E c \in Clients : Lobby(c) \/ RestoreCompleteState(c) \/ Restore(c)

Spec == Init /\ [][Next]_vars

----------------------------------------------------------------------------
(* Properties *)
(* The promises are made for races in which no event was discarded for an  *)
(* empty map though a peer had joined (unasked): then it may be lost.      *)

TypeOK ==
    /\ now \in Nat
    /\ main \in {"rewind", "karts", "join", "over"}
    /\ switch \in -1 .. SwitchTicks
    /\ conn \in [Clients -> {"lobby", "entering", "loading", "racing", "gone"}]
    /\ last \in [Clients -> Nat \cup {NotInMap}]
    /\ minTime \in Nat \cup {Idle}
    /\ unasked \in BOOLEAN
    /\ latest \in [Clients -> Nat \cup {-1}]
    /\ confs \in [Clients -> SUBSET Nat]
    /\ log \in Seq(Nat)
    /\ applied \in [Clients -> SUBSET Nat]

Base(it) == IF it.original = "none" THEN it.type ELSE it.original

\* Two items are the same but for a switch: the same kind, to be used as
\* often, and back at the same time.
SameItem(a, b) ==
    IF a = NoItem \/ b = NoItem THEN a = b
    ELSE /\ Base(a) = Base(b) /\ a.uses = b.uses
         /\ Available(a) <=> Available(b)
         /\ ~Available(a) => a.ttr = b.ttr

Then(c) == past[copy[c].time + 1]    \* the server at the time of c's copy

\* After every restored state a client has the items that the server had at
\* that time, in the same places, whatever was lost, late or sent again, and
\* whoever joined or left (restoreState, steps 1 to 4), unless unasked.
ItemsAgree == ~unasked => \A c \in Clients : conn[c] = "racing" =>
    /\ Len(copy[c].items) = Len(Then(c).items)
    /\ \A i \in DOMAIN copy[c].items : SameItem(copy[c].items[i], Then(c).items[i])

\* The assertions of restoreState: what was collected exists, and a new item
\* gets a free place, unless unasked.
Fresh(s, time) == {i \in DOMAIN s.events : s.events[i].ticks >= time}
AssertionsHold == ~unasked => \A c \in Clients : conn[c] = "racing" =>
    \A s \in {o \in states[c] : o.ticks >= latest[c]} :
    \A i \in Fresh(s, copy[c].time) :
        LET e   == s.events[i]
            its == Course(copy[c], s.events)[i - 1].items
        IN  /\ e.kind = "collect" => e.index \in DOMAIN its /\ its[e.index] # NoItem
            /\ e.kind = "new" => (e.index \in DOMAIN its => its[e.index] = NoItem)

\* The server still has every event that a client in the race, or one that is
\* loading, has yet to apply (setItemConfirmationTime), unless unasked: so
\* nothing is lost between the two locks in any other way, nor by a
\* confirmation that is handled late.
Known(c) == IF conn[c] = "loading" THEN start[c].time ELSE copy[c].time
KeptUnlessUnasked == ~unasked => \A c \in Racing : \A n \in DOMAIN log :
    log[n] >= Known(c) => \E i \in DOMAIN events : events[i].n = n

\* When a client has restored a state it has applied every event from before
\* that state, and no other (the events of a state are complete, and those
\* that are sent again are told apart by their time), unless unasked.
CaughtUp == ~unasked => \A c \in Clients : conn[c] = "racing" =>
    applied[c] = {n \in DOMAIN log : log[n] < copy[c].time}

\* The events a client has applied, or that its complete state stands for
SeenBy(c) ==
    CASE conn[c] = "racing"  -> applied[c]
      [] conn[c] = "loading" -> {n \in DOMAIN log : log[n] < start[c].time}
      [] OTHER -> {}

\* Every client applies the events of the server once each and in order, as
\* long as none is discarded unasked.
Abstract == INSTANCE EventLog
                WITH Replicas <- Clients, len <- Len(log), member <- Racing,
                     seen <- [c \in Clients |-> SeenBy(c)]
ImplementsLog ==
    Abstract!Init /\ [][unasked' \/ Abstract!Next]_(Abstract!vars)
=============================================================================
