------------------------------ MODULE RaceRanking ------------------------------
(***************************************************************************)
(* Who is at which place in a networked race with laps: LinearWorld on the *)
(* server, the elimination of karts whose players leave, the early end of  *)
(* a race, and the places that clients and spectators work out themselves. *)
(*                                                                         *)
(* The server never sends a place.  It tells reliably that a kart has      *)
(* finished, and clients count these messages.  It tells that a kart is    *)
(* out only by leaving it out of the states, which may be lost.            *)
(*                                                                         *)
(* Left out: how far a kart drives in a tick and which check lines it has  *)
(* to cross before a lap counts (any move and any lap may happen), finish  *)
(* times, AI karts, and the places a client shows while the race is on.    *)
(***************************************************************************)
EXTENDS Integers, Sequences, SequencesExt, FiniteSets

CONSTANTS
    N,          \* number of karts; kart k starts on the grid at place k
    Laps,       \* laps to drive
    Length,     \* length of the track (bound)
    Viewers,    \* clients
    Starters,   \* those of them that were there from the start
    AutoEnd     \* ServerConfig::m_auto_end

ASSUME ConstAssumption ==
    /\ N \in Nat \ {0} /\ Laps \in Nat \ {0} /\ Length \in Nat \ {0}
    /\ Starters \subseteq Viewers
    /\ AutoEnd \in BOOLEAN

Karts  == 1 .. N
Places == 1 .. N

VARIABLES
    pc,         \* main thread of the server: "lobby", "world", "lines", "done"
    phase,      \* "race", "over" (a later phase), "empty" (everybody has left)
    timeout,    \* m_finish_timeout runs
    gone,       \* karts whose players have disconnected
    crossed,    \* karts that trigger the lap line in this tick
    laps,       \* m_finished_laps of each kart
    along,      \* its distance down the track
    place,      \* Kart::m_position
    index,      \* m_position_index: the kart at each place
    finished,   \* karts with m_finished_race
    out,        \* karts with m_eliminated
    early,      \* history: endRaceEarly was called
    sent,       \* the sets of karts that are in the states sent so far
    inbox,      \* reliable messages on their way to each client
    view        \* what each client knows; Away for a spectator to be

serverVars == <<pc, phase, timeout, gone, crossed, laps, along, place, index,
                finished, out, early>>
vars == <<serverVars, sent, inbox, view>>

Away == [in |-> "lobby"]
Over == 0               \* the message LE_RACE_FINISHED among those of karts

\* Places not known yet are 0; next is m_last_finished_position.
Joined == [in |-> "race", next |-> 1, place |-> [k \in Karts |-> 0], out |-> {}]

Finished(v) == {k \in Karts : v.place[k] # 0}

\* Sent to everybody who is in the game
Send(msgs) == inbox' = [c \in Viewers |->
                           IF view[c] = Away THEN inbox[c] ELSE inbox[c] \o msgs]

\* Mutant: the kart itself still counts as one that races.
LastOfRacing(outs) == N - Cardinality(outs)

\* The place of a kart that has just been eliminated: behind all that still
\* race (getCurrentNumKarts)
LastPlace(outs) == N - Cardinality(outs) + 1

\* Karts that leave are eliminated in the order of their numbers.
Eliminated(places, outs, leaving) ==
    [k \in Karts |->
        IF k \in leaving
        THEN LastPlace(outs \cup {j \in leaving : j <= k}) ELSE places[k]]

----------------------------------------------------------------------------
(* The race on the server *)

Distance(k, l, a) == l[k] * Length + a[k]      \* m_overall_distance

\* Karts that keep their place
Fixed(k) == k \in finished \/ k \in out

\* The karts ahead of k: they have finished, or driven further, or as far and
\* started in front of it.
Ahead(k, l, a) ==
    {j \in Karts \ (out \cup {k}) :
        \/ k \notin finished /\ j \in finished
        \/ Distance(j, l, a) > Distance(k, l, a)
        \/ Distance(j, l, a) = Distance(k, l, a) /\ j < k}

\* updateRacePosition, with the laps l and the distances a
RacePosition(l, a) ==
    [k \in Karts |-> IF Fixed(k) THEN place[k] ELSE 1 + Cardinality(Ahead(k, l, a))]

\* m_position_index after all karts have been given their places in turn
IndexOf(places) ==
    [p \in Places |->
        LET at == {k \in Karts : places[k] = p}
        IN  IF at = {} THEN index[p] ELSE CHOOSE k \in at : \A j \in at : j <= k]

\* A player loses the connection.
Disconnect(k) ==
    /\ k \notin gone
    /\ pc # "done"
    /\ gone' = gone \cup {k}
    /\ UNCHANGED <<pc, phase, timeout, crossed, laps, along, place, index>>
    /\ UNCHANGED <<finished, out, early, sent, inbox, view>>

\* ServerLobby::update once nobody is left
EmptyServer ==
    /\ pc = "lobby" /\ gone = Karts
    /\ pc' = "done" /\ phase' = "empty"
    /\ UNCHANGED <<timeout, gone, crossed, laps, along, place, index>>
    /\ UNCHANGED <<finished, out, early, sent, inbox, view>>

\* ServerLobby::update: handlePlayerDisconnection, then checkRaceFinished.  A
\* kart that has finished is not eliminated.  The message of the result is
\* sent when the protocols of the race have stopped.
UpdateLobby ==
    LET leaving == gone \ (finished \cup out) IN
    /\ pc = "lobby" /\ gone # Karts
    /\ out' = out \cup leaving
    /\ finished' = finished \cup leaving
    /\ place' = Eliminated(place, out, leaving)
    /\ IF phase = "over"
       THEN pc' = "done" /\ Send(<<Over>>)
       ELSE pc' = "world" /\ UNCHANGED inbox
    /\ UNCHANGED <<phase, timeout, gone, crossed, laps, along, index, early>>
    /\ UNCHANGED <<sent, view>>

\* One kart in the first loop of endRaceEarly, which looks it up by its place
PassOver(s, p) ==
    LET k == s.index[p] IN
    IF k \in finished THEN [s EXCEPT !.index[place[k]] = k]
    ELSE [s EXCEPT !.active = Append(@, k)]

\* The first loop; active becomes active_players.
PassedOver ==
    LET after[p \in 0 .. N] ==
            IF p = 0 THEN [index |-> index, active |-> <<>>]
            ELSE PassOver(after[p - 1], p)
    IN  after[N]

\* The time after the first finish is over: those still in the race are put
\* behind the others, in this order, and finish.
EndRaceEarly ==
    LET passed == PassedOver
        active == passed.active
        first  == N - Len(active) + 1
    IN  /\ pc = "world" /\ phase = "race" /\ timeout
        /\ place' = [k \in Karts |->
                        IF k \in ToSet(active)
                        THEN first - 1 + (CHOOSE i \in DOMAIN active : active[i] = k)
                        ELSE place[k]]
        /\ index' = [p \in Places |->
                        IF p < first THEN passed.index[p] ELSE active[p - first + 1]]
        /\ finished' = finished \cup ToSet(active)
        /\ Send(active)
        /\ phase' = "over" /\ timeout' = FALSE /\ early' = TRUE
        /\ UNCHANGED <<pc, gone, crossed, laps, along, out, sent, view>>

\* All karts drive on; the states for this tick are sent, one without the
\* karts that are out.
UpdateTrackSectors ==
    /\ pc = "world"
    /\ along' \in [Karts -> 0 .. Length - 1]
    /\ \A k \in out : along'[k] = along[k]
    /\ crossed' \in SUBSET (Karts \ out)
    /\ sent' = sent \cup {Karts \ out}
    /\ pc' = "lines"
    /\ UNCHANGED <<phase, timeout, gone, laps, place, index, finished, out>>
    /\ UNCHANGED <<early, inbox, view>>

\* Mutant: the places are not brought up to date before a kart finishes.
AsBefore(l) == place

\* newLap updates the places of all karts with the new lap counted, but
\* before the kart is one that has finished.
Updated(l) == RacePosition(l, along)

\* CheckStructure::update looks at the karts in order.  Karts that have
\* finished drive on without laps being counted.
NewLap(k) ==
    LET counted == [laps EXCEPT ![k] = @ + 1]
        done    == counted[k] >= Laps
    IN  /\ pc = "lines"
        /\ k \in crossed /\ \A j \in crossed : k <= j
        /\ crossed' = crossed \ {k}
        /\ IF k \in finished
           THEN UNCHANGED <<laps, place, index, finished, timeout, inbox>>
           ELSE /\ laps' = counted
                /\ place' = Updated(counted)
                /\ index' = IndexOf(place')
                /\ finished' = IF done THEN finished \cup {k} ELSE finished
                /\ timeout' = (timeout \/ (done /\ AutoEnd))
                /\ IF done THEN Send(<<k>>) ELSE UNCHANGED inbox
        /\ UNCHANGED <<pc, phase, gone, along, out, early, sent, view>>

\* The end of LinearWorld::update, and of World::updateWorld
UpdateRacePosition ==
    /\ pc = "lines" /\ crossed = {}
    /\ place' = RacePosition(laps, along)
    /\ index' = IndexOf(place')
    /\ phase' = IF finished = Karts THEN "over" ELSE phase
    /\ pc' = "lobby"
    /\ UNCHANGED <<timeout, gone, crossed, laps, along, finished, out, early>>
    /\ UNCHANGED <<sent, inbox, view>>

----------------------------------------------------------------------------
(* Clients *)

\* Mutant: a spectator may come at any time of the race.
AtAnyTime == phase = "race"

\* canLiveJoinNow: not when the fastest kart is nearly finished
CanLiveJoinNow ==
    LET racing  == {p \in Places : index[p] \notin out}
        fastest == index[CHOOSE p \in racing : \A q \in racing : p <= q]
    IN  /\ phase = "race" /\ racing # {}
        /\ 10 * Distance(fastest, laps, along) <= 9 * Laps * Length

\* A spectator joins (finishedLoadingLiveJoinClient).
Spectate(c) ==
    /\ view[c] = Away
    /\ pc = "lobby" /\ CanLiveJoinNow
    /\ view' = [view EXCEPT ![c] = Joined]
    /\ UNCHANGED <<serverVars, sent, inbox>>

\* GameEventsProtocol::kartFinishedRace on a client.  A kart it has already
\* eliminated gets the new place all the same.
KartFinishedRace(c) ==
    /\ inbox[c] # <<>> /\ Head(inbox[c]) # Over
    /\ view' = [view EXCEPT ![c].place[Head(inbox[c])] = view[c].next,
                            ![c].next = @ + 1]
    /\ inbox' = [inbox EXCEPT ![c] = Tail(@)]
    /\ UNCHANGED <<serverVars, sent>>

\* KartRewinder::computeError after a rewind to a state: the karts that are
\* not in it have left.  States only ever go on in time.
ComputeError(c, present) ==
    LET leaving == Karts \ (present \cup view[c].out) IN
    /\ view[c] # Away /\ view[c].in = "race"
    /\ present \in sent
    /\ leaving # {} /\ present \cap view[c].out = {}
    /\ view' = [view EXCEPT ![c].place = Eliminated(@, view[c].out, leaving),
                            ![c].out = @ \cup leaving]
    /\ UNCHANGED <<serverVars, sent, inbox>>

\* ClientLobby::raceFinished: the places are updated once more, and whoever
\* has not finished is taken to have left.
RaceFinished(c) ==
    LET v    == view[c]
        rest == Karts \ Finished(v)
        done == Cardinality(Finished(v) \ v.out)
    IN  /\ inbox[c] # <<>> /\ Head(inbox[c]) = Over
        /\ \E order \in SetToSeqs(rest) :
             view' = [view EXCEPT
                ![c].place = [k \in Karts |-> IF k \notin rest THEN @[k] ELSE
                                  done + (CHOOSE i \in DOMAIN order : order[i] = k)],
                ![c].out = @ \cup rest,
                ![c].in = "result"]
        /\ inbox' = [inbox EXCEPT ![c] = Tail(@)]
        /\ UNCHANGED <<serverVars, sent>>

----------------------------------------------------------------------------
Init ==
    /\ pc = "lobby" /\ phase = "race" /\ timeout = FALSE /\ early = FALSE
    /\ gone = {} /\ crossed = {} /\ finished = {} /\ out = {}
    /\ laps = [k \in Karts |-> 0] /\ along = [k \in Karts |-> 0]
    /\ place = [k \in Karts |-> k] /\ index = [p \in Places |-> p]
    /\ sent = {Karts}
    /\ inbox = [c \in Viewers |-> <<>>]
    /\ view = [c \in Viewers |-> IF c \in Starters THEN Joined ELSE Away]

Tick == UpdateLobby \/ EndRaceEarly \/ UpdateTrackSectors \/ UpdateRacePosition

Client(c) ==
    \/ Spectate(c) \/ KartFinishedRace(c) \/ RaceFinished(c)
    \/ \E present \in sent : ComputeError(c, present)

Next ==
    \/ Tick \/ EmptyServer
    \/ \E k \in Karts : Disconnect(k) \/ NewLap(k)
    \/ \E c \in Viewers : Client(c)

Spec == Init /\ [][Next]_vars

----------------------------------------------------------------------------
(* Properties *)

TypeOK ==
    /\ pc \in {"lobby", "world", "lines", "done"}
    /\ phase \in {"race", "over", "empty"}
    /\ laps \in [Karts -> 0 .. Laps]
    /\ place \in [Karts -> Places]
    /\ index \in [Places -> Karts]
    /\ out \subseteq finished /\ finished \subseteq Karts
    /\ gone \subseteq Karts /\ crossed \subseteq Karts \ out
    /\ along \in [Karts -> 0 .. Length - 1]
    /\ timeout \in BOOLEAN /\ early \in BOOLEAN

\* After each update of the world every kart is found at its place, so that no
\* place is taken by two of them (the debug assertions of updateRacePosition
\* and setKartPosition; getKartAtPosition).  The code does not keep this.
Ranked == pc = "lobby" => \A k \in Karts : index[place[k]] = k

\* endRaceEarly counts back from the number of all karts, those that were
\* eliminated before included.
PunishedWrong == early /\ out # {}

\* But for that every place is taken by one kart, through laps that end in the
\* same tick, karts that leave, and an early end.
RankedUnlessPunished == PunishedWrong \/ Ranked

\* Every client has given the karts that have finished the places they have
\* on the server, whatever it has seen of the karts that left, and although
\* it counts messages instead of laps (m_last_finished_position).
ClientsAgree == \A c \in Viewers : view[c] # Away /\ ~PunishedWrong =>
    \A k \in Finished(view[c]) \ (out \cup view[c].out) : view[c].place[k] = place[k]

\* The result that a client shows has one kart at each place (RaceResultGUI),
\* also for spectators who came in the middle of the race.
OneResult == \A c \in Viewers :
    view[c] # Away /\ view[c].in = "result" =>
        {view[c].place[k] : k \in Karts} = Places
=============================================================================
