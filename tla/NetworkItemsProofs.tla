------------------------- MODULE NetworkItemsProofs -------------------------
(***************************************************************************)
(* Proofs about NetworkItems, for every value of its constants.  Unless    *)
(* events were discarded for an empty map, the server keeps every event    *)
(* that somebody still needs, a client that restores a state has applied   *)
(* all events up to it and has the items that the server had then, and the *)
(* protocol implements a log that its replicas apply in order and once     *)
(* (EventLog).                                                             *)
(***************************************************************************)
EXTENDS NetworkItems, SequenceTheorems, SequenceLemmas, TLAPS

-----------------------------------------------------------------------------
(* Sequences of whatever kind                                              *)

IsSeq(s) == \E S : s \in Seq(S)

LEMMA SeqAppend ==
  ASSUME NEW s, IsSeq(s), NEW e
  PROVE  /\ IsSeq(Append(s, e)) /\ Len(s) \in Nat
         /\ DOMAIN s = 1 .. Len(s) /\ DOMAIN Append(s, e) = 1 .. (Len(s) + 1)
         /\ \A i \in 1 .. Len(s) : Append(s, e)[i] = s[i]
         /\ Append(s, e)[Len(s) + 1] = e
<1>1. PICK S : s \in Seq(S) BY DEF IsSeq
<1> DEFINE T == S \cup {e}
<1>2. s \in Seq(T) BY <1>1
<1>3. Append(s, e) \in Seq(T) BY <1>2
<1> QED BY <1>2, <1>3 DEF IsSeq

LEMMA SeqSuffix ==
  ASSUME NEW s, IsSeq(s), NEW k \in 0 .. Len(s)
  PROVE  LET t == SubSeq(s, k + 1, Len(s)) IN
         /\ IsSeq(t) /\ Len(s) \in Nat /\ DOMAIN s = 1 .. Len(s)
         /\ DOMAIN t = 1 .. (Len(s) - k)
         /\ \A i \in 1 .. (Len(s) - k) : t[i] = s[i + k]
<1>1. PICK S : s \in Seq(S) BY DEF IsSeq
<1>2. PICK l \in Nat : l = Len(s) BY <1>1
<1>3. DOMAIN s = 1 .. l /\ k \in 0 .. l BY <1>1, <1>2
<1> DEFINE m == k + 1
           t == SubSeq(s, m, l)
<1>4. m \in Int /\ l \in Int /\ (\A i \in m .. l : s[i] \in S) BY <1>1, <1>2, <1>3
<1>5. /\ t \in Seq(S)
      /\ Len(t) = IF m <= l THEN l - m + 1 ELSE 0
      /\ \A i \in 1 .. l - m + 1 : t[i] = s[m + i - 1]
  <2> HIDE DEF m
  <2> QED BY <1>4, SubSeqProperties
<1> HIDE DEF t
<1>6. Len(t) = l - k
  BY <1>3, <1>5
<1>7. \A i \in 1 .. (l - k) : t[i] = s[i + k]
  <2> SUFFICES ASSUME NEW i \in 1 .. (l - k) PROVE t[i] = s[i + k] OBVIOUS
  <2>1. i \in 1 .. l - m + 1 /\ m + i - 1 = i + k BY <1>3
  <2> QED BY <1>5, <2>1
<1>8. IsSeq(t) /\ DOMAIN t = 1 .. (l - k)
  <2>1. DOMAIN t = 1 .. Len(t) BY <1>5
  <2> QED BY <1>5, <1>6, <2>1 DEF IsSeq
<1>9. t = SubSeq(s, k + 1, Len(s)) BY <1>2, Zenon DEF t
<1> QED BY <1>2, <1>3, <1>7, <1>8, <1>9, Zenon

-----------------------------------------------------------------------------
(* The inductive invariant                                                 *)

\* The copies and messages have their times.
Times ==
  /\ DOMAIN copy = Clients /\ DOMAIN start = Clients /\ DOMAIN states = Clients
  /\ \A c \in Clients : copy[c].time \in Nat /\ start[c].time \in Nat

\* Events are logged while the karts move, so that between ticks all of them
\* lie in the past.
LogInOrder ==
  /\ \A n, m \in DOMAIN log : n <= m => log[n] <= log[m]
  /\ \A n \in DOMAIN log : log[n] <= now /\ (main # "karts" => log[n] < now)

OfLog(e) == e.n \in DOMAIN log /\ e.ticks = log[e.n]

EventsLogged ==
  /\ IsSeq(events)
  /\ \A i \in DOMAIN events : OfLog(events[i])

\* One peer joins at a time, and the clock does not move meanwhile.
OneJoins == \A c \in Clients : conn[c] = "entering" =>
  /\ main = "join" /\ start[c].time = now
  /\ \A d \in Clients : conn[d] = "entering" => d = c

KnownIsPast == \A c \in Racing : Known(c) <= now

\* A state on its way is not older than the copy, and has every event that
\* lies between the two (unless one was discarded unasked).
Complements(s, c) ==
  /\ s.ticks \in Nat /\ Known(c) <= s.ticks /\ s.ticks <= now
  /\ IsSeq(s.events)
  /\ \A i \in DOMAIN s.events : OfLog(s.events[i]) /\ s.events[i].ticks < s.ticks
  /\ ~unasked => \A n \in DOMAIN log : Known(c) <= log[n] /\ log[n] < s.ticks =>
       \E i \in DOMAIN s.events : s.events[i].n = n
StatesComplement == \A c \in Clients : \A s \in states[c] :
  c \in Racing /\ Complements(s, c)

\* The server never knows more of a client than the client does.  What a peer
\* confirmed before it left is not later than the items it rejoins with.
Confirmed ==
  /\ \A c \in Clients : \A t \in confs[c] : t <= now /\ (c \in Racing => t <= Known(c))
  /\ \A c \in Clients : last[c] <= now
  /\ \A c \in Racing : last[c] # NotInMap /\ last[c] <= Known(c)

\* Nor does the call that looked the earliest time up, whoever joins before
\* it discards events, unless the map was empty.
MinConfirmed == minTime # Int32Max =>
  minTime <= now /\ \A c \in Racing : minTime <= Known(c)

IInv == /\ TypeOK /\ Times /\ LogInOrder /\ EventsLogged /\ OneJoins
        /\ KnownIsPast /\ StatesComplement /\ Confirmed /\ MinConfirmed
        /\ KeptUnlessUnasked /\ CaughtUp

USE DEF NotInMap, Idle

-----------------------------------------------------------------------------
(* The initial state                                                       *)

LEMMA InitInv == Init => IInv
<1> SUFFICES ASSUME Init PROVE IInv OBVIOUS
<1> USE ConstAssumption
<1>1. start = [c \in Clients |-> [time |-> 0, items |-> Track.items, switch |-> -1]]
      /\ copy = start /\ switch = -1
  BY DEF Init, Complete, Track
<1>2. log = << >> /\ events = << >> /\ DOMAIN log = {} /\ DOMAIN events = {}
  BY DEF Init
<1>3. TypeOK
  <2>1. conn \in [Clients -> {"lobby", "entering", "loading", "racing", "gone"}]
    BY DEF Init
  <2>2. log \in Seq(Nat) BY <1>2
  <2>3. last \in [Clients -> Nat \cup {NotInMap}] BY DEF Init
  <2>4. /\ latest \in [Clients -> Nat \cup {-1}] /\ confs \in [Clients -> SUBSET Nat]
        /\ applied \in [Clients -> SUBSET Nat]
    BY DEF Init
  <2>5. /\ now \in Nat /\ main \in {"rewind", "karts", "join", "over"}
        /\ minTime \in Nat \cup {Idle} /\ unasked \in BOOLEAN
    BY DEF Init
  <2>6. switch \in -1 .. SwitchTicks BY <1>1
  <2> QED BY <2>1, <2>2, <2>3, <2>4, <2>5, <2>6, Zenon DEF TypeOK
<1>4. Times BY <1>1 DEF Times, Init
<1>5. LogInOrder BY <1>2 DEF LogInOrder
<1>6. EventsLogged
  <2>1. << >> \in Seq({}) OBVIOUS
  <2> QED BY <1>2, <2>1 DEF EventsLogged, IsSeq
<1>7. OneJoins BY DEF OneJoins, Init
<1>8. \A c \in Racing : Known(c) = 0 /\ now = 0 /\ last[c] = 0
  BY <1>1 DEF Racing, Known, Init
<1>9. KnownIsPast BY <1>8 DEF KnownIsPast
<1>10. StatesComplement BY DEF StatesComplement, Init
<1>11. Confirmed
  <2>1. \A c \in Clients : confs[c] = {} /\ last[c] <= 0 /\ now = 0 BY DEF Init
  <2> QED BY <1>8, <2>1 DEF Confirmed
<1>12. KeptUnlessUnasked BY <1>2 DEF KeptUnlessUnasked
<1>13. CaughtUp BY DEF CaughtUp, Init
<1>14. MinConfirmed
  <2>1. minTime = -1 /\ now = 0 BY DEF Init
  <2> QED BY <1>8, <2>1 DEF MinConfirmed
<1> QED BY <1>3, <1>4, <1>5, <1>6, <1>7, <1>9, <1>10, <1>11, <1>12, <1>13, <1>14 DEF IInv

-----------------------------------------------------------------------------
(* The steps of the server                                                 *)

\* A step that leaves the log, the events and the clients alone.  The clock
\* may go on after the karts have moved.
LEMMA ClockStep ==
  ASSUME IInv, main # "join", main' \in {"rewind", "karts", "over"},
         switch' \in -1 .. SwitchTicks,
         \/ main = "rewind" /\ now' = now
         \/ main = "karts" /\ now' = now + 1,
         UNCHANGED <<events, last, conn, start, confs, copy, latest, applied, log>>,
         UNCHANGED discards, DOMAIN states' = Clients, StatesComplement'
  PROVE  IInv'
<1> USE DEF IInv
<1>1. /\ events' = events /\ last' = last /\ conn' = conn /\ start' = start
      /\ confs' = confs /\ copy' = copy /\ latest' = latest
      /\ applied' = applied /\ log' = log /\ minTime' = minTime /\ unasked' = unasked
  BY Zenon DEF discards
<1>2. now \in Nat /\ now' \in Nat /\ now <= now' BY DEF TypeOK
<1>3. TypeOK' BY <1>1, <1>2, Zenon DEF TypeOK
<1>4. Times' BY <1>1, Zenon DEF Times
<1>5. LogInOrder'
  <2>1. \A n \in DOMAIN log : log[n] \in Nat BY DEF TypeOK
  <2>2. \A n \in DOMAIN log : log[n] <= now' /\ (main' # "karts" => log[n] < now')
    BY <1>2, <2>1 DEF LogInOrder
  <2> QED BY <1>1, <2>2 DEF LogInOrder
<1>6. EventsLogged' BY <1>1, Zenon DEF EventsLogged, OfLog, IsSeq
<1>7. OneJoins' BY <1>1 DEF OneJoins
<1>8. Racing' = Racing /\ \A c : Known(c)' = Known(c)
  BY <1>1 DEF Racing, Known
<1>9. \A c \in Racing : Known(c) \in Nat BY DEF Racing, Known, Times
<1>10. KnownIsPast' BY <1>2, <1>8, <1>9 DEF KnownIsPast
<1>11. Confirmed'
  <2>1. \A c \in Clients : \A t \in confs[c] : t <= now'
    BY <1>2 DEF Confirmed, TypeOK
  <2>2. \A c \in Clients : last[c] <= now'
    BY <1>2 DEF Confirmed, TypeOK
  <2> QED BY <1>1, <1>8, <2>1, <2>2 DEF Confirmed
<1>12. KeptUnlessUnasked' BY <1>1, <1>8 DEF KeptUnlessUnasked
<1>13. CaughtUp' BY <1>1 DEF CaughtUp
<1>14. MinConfirmed' BY <1>1, <1>2, <1>8 DEF MinConfirmed, TypeOK
<1> QED BY <1>3, <1>4, <1>5, <1>6, <1>7, <1>10, <1>11, <1>12, <1>13, <1>14

LEMMA SaveStateInv == IInv /\ SaveState => IInv'
<1> SUFFICES ASSUME IInv, SaveState PROVE IInv' OBVIOUS
<1> USE DEF IInv
<1> DEFINE state == [ticks |-> now, events |-> events]
<1>1. /\ main = "rewind" /\ main' = "karts" /\ now' = now
      /\ switch' = switch /\ DOMAIN states' = Clients
  BY DEF SaveState
<1>2. /\ conn' = conn /\ start' = start /\ copy' = copy /\ log' = log
      /\ UNCHANGED <<events, last, conn, start, confs, copy, latest, applied, log>>
      /\ UNCHANGED discards /\ unasked' = unasked
  BY DEF SaveState, clientVars, history, discards
<1>3. Racing' = Racing /\ \A c : Known(c)' = Known(c) BY <1>2 DEF Racing, Known
<1>4. ASSUME NEW c \in Racing PROVE Complements(state, c)
  <2>1. \A i \in DOMAIN events : OfLog(events[i]) /\ events[i].ticks < now
    BY <1>1 DEF EventsLogged, OfLog, LogInOrder
  <2>2. ~unasked => \A n \in DOMAIN log : Known(c) <= log[n] =>
          \E i \in DOMAIN events : events[i].n = n
    BY DEF KeptUnlessUnasked
  <2>3. Known(c) <= now /\ now \in Nat BY DEF KnownIsPast, TypeOK
  <2> QED BY <2>1, <2>2, <2>3 DEF Complements, EventsLogged
<1>5. StatesComplement'
  <2> SUFFICES ASSUME NEW c \in Clients, NEW s \in states'[c]
               PROVE  c \in Racing /\ Complements(s, c)'
    BY <1>3 DEF StatesComplement
  <2>1. c \in Racing /\ (s \in states[c] \/ s = state) BY DEF SaveState, Newest
  <2>2. Complements(s, c) BY <1>4, <2>1 DEF StatesComplement
  <2>3. now' = now /\ log' = log /\ Known(c)' = Known(c) /\ unasked' = unasked
    BY <1>1, <1>2, <1>3
  <2>4. Complements(s, c)'
    <3> HIDE DEF state
    <3> QED BY <2>2, <2>3 DEF Complements, OfLog
  <2> QED BY <2>1, <2>4
<1> QED BY <1>1, <1>2, <1>5, ClockStep DEF TypeOK

LEMMA RaceStopsInv == IInv /\ RaceStops => IInv'
<1> SUFFICES ASSUME IInv, RaceStops PROVE IInv' OBVIOUS
<1> USE DEF IInv
<1>1. /\ main = "rewind" /\ main' = "over" /\ now' = now /\ switch' = switch
      /\ conn' = conn /\ start' = start /\ copy' = copy /\ log' = log
      /\ states' = states /\ unasked' = unasked
      /\ UNCHANGED <<events, last, conn, start, confs, copy, latest, applied, log>>
      /\ UNCHANGED discards
  BY DEF RaceStops, clientVars, netVars, history, discards
<1>2. Racing' = Racing /\ \A c : Known(c)' = Known(c) BY <1>1 DEF Racing, Known
<1>3. StatesComplement' BY <1>1, <1>2 DEF StatesComplement, Complements, OfLog
<1> QED BY <1>1, <1>3, ClockStep DEF TypeOK, Times

LEMMA UpdateItemsInv == IInv /\ UpdateItems => IInv'
<1> SUFFICES ASSUME IInv, UpdateItems PROVE IInv' OBVIOUS
<1> USE DEF IInv
<1>1. /\ main = "karts" /\ main' \in {"rewind", "over"}
      /\ now' = now + 1 /\ switch' = Counted(switch)
  BY DEF UpdateItems
<1>2. /\ conn' = conn /\ start' = start /\ copy' = copy /\ log' = log /\ states' = states
      /\ UNCHANGED <<events, last, conn, start, confs, copy, latest, applied, log>>
      /\ UNCHANGED discards /\ unasked' = unasked
  BY DEF UpdateItems, clientVars, netVars, discards
<1>3. switch' \in -1 .. SwitchTicks
  BY <1>1, ConstAssumption DEF TypeOK, Counted
<1>4. Racing' = Racing /\ \A c : Known(c)' = Known(c) BY <1>2 DEF Racing, Known
<1>5. StatesComplement'
  <2> SUFFICES ASSUME NEW c \in Clients, NEW s \in states[c]
               PROVE  c \in Racing /\ Complements(s, c)'
    BY <1>2, <1>4 DEF StatesComplement
  <2>1. c \in Racing /\ Complements(s, c) BY DEF StatesComplement
  <2>2. s.ticks <= now' BY <1>1, <2>1 DEF Complements, TypeOK
  <2> QED BY <1>2, <1>4, <2>1, <2>2 DEF Complements, OfLog
<1>6. DOMAIN states' = Clients BY <1>2 DEF Times
<1> QED BY <1>1, <1>2, <1>3, <1>5, <1>6, ClockStep

\* The karts log an event.
LEMMA LogStep ==
  ASSUME IInv, main = "karts", switch' \in -1 .. SwitchTicks,
         NEW e, e.n = Len(log) + 1, e.ticks = now, Log(e),
         UNCHANGED <<now, main, last, conn, start, states, confs>>,
         UNCHANGED <<copy, latest, applied, minTime, unasked>>
  PROVE  IInv'
<1> USE DEF IInv
<1>1. /\ now' = now /\ main' = main /\ last' = last /\ conn' = conn
      /\ start' = start /\ states' = states /\ confs' = confs
      /\ copy' = copy /\ latest' = latest /\ applied' = applied
      /\ minTime' = minTime /\ unasked' = unasked
  OBVIOUS
<1>2. events' = Append(events, e) /\ log' = Append(log, now) BY DEF Log
<1>3. now \in Nat /\ log \in Seq(Nat) BY DEF TypeOK
<1>4. /\ Len(log) \in Nat /\ DOMAIN log = 1 .. Len(log)
      /\ log' \in Seq(Nat) /\ DOMAIN log' = 1 .. (Len(log) + 1)
      /\ \A n \in DOMAIN log : n \in DOMAIN log' /\ log'[n] = log[n]
      /\ log'[Len(log) + 1] = now
  BY <1>2, <1>3
<1>5. \A n \in DOMAIN log' : n \in DOMAIN log \/ (n = Len(log) + 1 /\ log'[n] = now)
  BY <1>4
<1>6. /\ IsSeq(events') /\ DOMAIN events' = 1 .. (Len(events) + 1)
      /\ \A i \in DOMAIN events : i \in DOMAIN events' /\ events'[i] = events[i]
      /\ Len(events) \in Nat /\ DOMAIN events = 1 .. Len(events)
      /\ events'[Len(events) + 1] = e
  <2>1. IsSeq(events) BY DEF EventsLogged
  <2> QED BY <1>2, <2>1, SeqAppend
<1>7. Racing' = Racing /\ \A c : Known(c)' = Known(c) BY <1>1 DEF Racing, Known
<1>8. \A x : OfLog(x) => OfLog(x)' BY <1>4 DEF OfLog
<1>9. TypeOK' BY <1>1, <1>4, Zenon DEF TypeOK
<1>10. Times' BY <1>1, Zenon DEF Times
<1>11. LogInOrder'
  <2>1. \A n \in DOMAIN log' : log'[n] <= now
    <3> TAKE n \in DOMAIN log'
    <3>1. CASE n \in DOMAIN log BY <1>4, <3>1 DEF LogInOrder
    <3>2. CASE log'[n] = now BY <1>3, <3>2
    <3> QED BY <1>5, <3>1, <3>2
  <2>2. \A n, m \in DOMAIN log' : n <= m => log'[n] <= log'[m]
    <3> TAKE n, m \in DOMAIN log'
    <3> HAVE n <= m
    <3>1. CASE m = Len(log) + 1 BY <1>4, <2>1, <3>1, Zenon
    <3>2. CASE m \in DOMAIN log
      <4>1. n \in DOMAIN log BY <1>4, <3>2
      <4>2. log[n] <= log[m] BY <3>2, <4>1 DEF LogInOrder
      <4> QED BY <1>4, <3>2, <4>1, <4>2
    <3> QED BY <1>5, <3>1, <3>2
  <2> QED BY <1>1, <2>1, <2>2 DEF LogInOrder
<1>12. EventsLogged'
  <2> DEFINE Logged(x) == x.n \in DOMAIN log' /\ x.ticks = log'[x.n]
  <2>1. Logged(e) BY <1>4
  <2>2. ASSUME NEW i \in DOMAIN events' PROVE Logged(events'[i])
    <3>1. CASE i \in DOMAIN events
      <4>1. OfLog(events[i]) BY <3>1 DEF EventsLogged
      <4>2. Logged(events[i]) BY <4>1, <1>4 DEF OfLog
      <4> QED BY <1>6, <3>1, <4>2
    <3>2. CASE i = Len(events) + 1 BY <1>6, <2>1, <3>2
    <3> QED BY <1>6, <3>1, <3>2
  <2> QED BY <1>6, <2>2 DEF EventsLogged, IsSeq, OfLog
<1>13. OneJoins' BY <1>1, Zenon DEF OneJoins
<1>14. KnownIsPast' BY <1>1, <1>7 DEF KnownIsPast
<1>15. StatesComplement'
  <2> SUFFICES ASSUME NEW c \in Clients, NEW s \in states[c]
               PROVE  c \in Racing /\ Complements(s, c)'
    BY <1>1, <1>7 DEF StatesComplement
  <2>1. c \in Racing /\ Complements(s, c) BY DEF StatesComplement
  <2>2. ASSUME ~unasked, NEW n \in DOMAIN log', Known(c) <= log'[n], log'[n] < s.ticks
        PROVE  \E i \in DOMAIN s.events : s.events[i].n = n
    <3>1. n \in DOMAIN log BY <1>3, <1>5, <2>1, <2>2 DEF Complements
    <3> QED BY <1>4, <2>1, <2>2, <3>1 DEF Complements
  <2> QED BY <1>1, <1>7, <1>8, <2>1, <2>2 DEF Complements
<1>16. Confirmed' BY <1>1, <1>7 DEF Confirmed
<1>17. KeptUnlessUnasked'
  <2> SUFFICES ASSUME ~unasked, NEW c \in Racing, NEW n \in DOMAIN log', log'[n] >= Known(c)
               PROVE  \E i \in DOMAIN events' : events'[i].n = n
    BY <1>1, <1>7 DEF KeptUnlessUnasked
  <2>1. CASE n \in DOMAIN log BY <1>4, <1>6, <2>1 DEF KeptUnlessUnasked
  <2>2. CASE n = Len(log) + 1 BY <1>6, <2>2
  <2> QED BY <1>5, <2>1, <2>2
<1>18. CaughtUp'
  <2> SUFFICES ASSUME ~unasked, NEW c \in Clients, conn[c] = "racing"
               PROVE  applied[c] = {n \in DOMAIN log' : log'[n] < copy[c].time}
    BY <1>1 DEF CaughtUp
  <2>1. applied[c] = {n \in DOMAIN log : log[n] < copy[c].time} BY DEF CaughtUp
  <2>2. copy[c].time \in Nat /\ copy[c].time <= now
    BY DEF KnownIsPast, Racing, Known, Times
  <2> QED BY <1>3, <1>4, <1>5, <2>1, <2>2
<1>19. MinConfirmed' BY <1>1, <1>7 DEF MinConfirmed
<1> QED BY <1>9, <1>10, <1>11, <1>12, <1>13, <1>14, <1>15, <1>16, <1>17, <1>18, <1>19

LEMMA KartsInv ==
  ASSUME IInv, DropItem \/ SwitchItems \/ \E i \in DOMAIN items : CollectItem(i)
  PROVE  IInv'
<1>1. \A kind, i, ttr : /\ Event(kind, i, ttr).n = Len(log) + 1
                        /\ Event(kind, i, ttr).ticks = now
  BY DEF Event
<1>2. CASE DropItem
  <2> DEFINE e == Event("new", FreeIndex(items), 0)
  <2>1. Log(e) BY <1>2, Zenon DEF DropItem
  <2>2. /\ main = "karts" /\ switch' = switch
        /\ UNCHANGED <<now, main, last, conn, start, states, confs>>
        /\ UNCHANGED <<copy, latest, applied, minTime, unasked>>
    BY <1>2, Zenon DEF DropItem, netVars, clientVars, discards
  <2>3. switch' \in -1 .. SwitchTicks BY <2>2 DEF IInv, TypeOK
  <2> HIDE DEF e
  <2> QED BY <1>1, <2>1, <2>2, <2>3, LogStep DEF e
<1>3. CASE SwitchItems
  <2> DEFINE e == Event("switch", 0, 0)
  <2>1. Log(e) BY <1>3, Zenon DEF SwitchItems
  <2>2. /\ main = "karts" /\ switch' = SwitchedTicks(switch)
        /\ UNCHANGED <<now, main, last, conn, start, states, confs>>
        /\ UNCHANGED <<copy, latest, applied, minTime, unasked>>
    BY <1>3, Zenon DEF SwitchItems, netVars, clientVars, discards
  <2>3. switch' \in -1 .. SwitchTicks
    BY <2>2, ConstAssumption DEF SwitchedTicks
  <2> HIDE DEF e
  <2> QED BY <1>1, <2>1, <2>2, <2>3, LogStep DEF e
<1>4. CASE \E i \in DOMAIN items : CollectItem(i)
  <2>1. PICK i \in DOMAIN items : CollectItem(i) BY <1>4
  <2>2. PICK ttr : Log(Event("collect", i, ttr)) BY <2>1, Zenon DEF CollectItem
  <2> DEFINE e == Event("collect", i, ttr)
  <2>3. /\ main = "karts" /\ switch' = switch
        /\ UNCHANGED <<now, main, last, conn, start, states, confs>>
        /\ UNCHANGED <<copy, latest, applied, minTime, unasked>>
    BY <2>1, Zenon DEF CollectItem, netVars, clientVars, discards
  <2>4. switch' \in -1 .. SwitchTicks BY <2>3 DEF IInv, TypeOK
  <2>5. Log(e) BY <2>2
  <2> HIDE DEF e
  <2> QED BY <1>1, <2>3, <2>4, <2>5, LogStep DEF e
<1> QED BY <1>2, <1>3, <1>4

LEMMA EarliestIs ==
  ASSUME NEW m \in [Clients -> Nat \cup {NotInMap}]
  PROVE  \/ Earliest(m) = Int32Max
         \/ /\ \E p \in Clients : Earliest(m) = m[p]
            /\ Earliest(m) \in Nat
            /\ \A p \in Clients : m[p] # NotInMap => Earliest(m) <= m[p]
<1> DEFINE times == {m[p] : p \in {q \in Clients : m[q] # NotInMap}}
<1>1. CASE times = {} BY <1>1, Zenon DEF Earliest
<1>2. CASE times # {}
  <2>1. times \subseteq Nat /\ \A p \in Clients : m[p] # NotInMap => m[p] \in times
    OBVIOUS
  <2>2. \A t \in times : \E p \in Clients : t = m[p] OBVIOUS
  <2> HIDE DEF times
  <2>3. \E t \in times : \A u \in times : t <= u
    <3>1. PICK x : x \in times BY <1>2
    <3> QED BY <2>1, <3>1, LeastOfNats
  <2>4. Earliest(m) = CHOOSE t \in times : \A u \in times : t <= u
    BY <1>2, Zenon DEF Earliest, times
  <2>5. Earliest(m) \in times /\ \A u \in times : Earliest(m) <= u BY <2>3, <2>4, Zenon
  <2> QED BY <2>1, <2>2, <2>5
<1> QED BY <1>1, <1>2

\* The earliest time in the map is not later than what anybody knows.
LEMMA ConfirmItemsInv ==
  ASSUME IInv, NEW c \in Clients, NEW t \in confs[c], ConfirmItems(c, t)
  PROVE  IInv'
<1> USE DEF IInv
<1> DEFINE known == [last EXCEPT ![c] = Raised(t, @)]
<1>1. /\ now' = now /\ main' = main /\ switch' = switch /\ events' = events
      /\ conn' = conn /\ start' = start /\ states' = states /\ copy' = copy
      /\ latest' = latest /\ applied' = applied /\ log' = log
      /\ unasked' = unasked /\ minTime' = Earliest(last')
  BY Zenon DEF ConfirmItems, serverVars, clientVars, history
<1>2. PICK expired \in SUBSET {p \in Clients \ {c} : conn[p] = "gone"} :
        /\ last' = [p \in Clients |-> IF p \in expired THEN NotInMap ELSE known[p]]
        /\ confs' = [p \in Clients |-> IF p \in expired THEN {}
                                      ELSE IF p = c THEN confs[c] \ {t} ELSE confs[p]]
  BY Zenon DEF ConfirmItems
<1>3. Racing' = Racing /\ \A p : Known(p)' = Known(p) BY <1>1 DEF Racing, Known
<1>4. t \in Nat /\ t <= now /\ now \in Nat /\ (c \in Racing => t <= Known(c))
  BY DEF Confirmed, TypeOK
<1>5. \A p \in Clients : /\ last[p] \in Nat \cup {NotInMap} /\ last[p] <= now
                         /\ known[p] = IF p = c THEN Raised(t, last[c]) ELSE last[p]
  BY DEF Confirmed, TypeOK
<1>6. \A p \in Racing : p \in Clients /\ p \notin expired /\ Known(p) \in Nat
  BY DEF Racing, Known, Times
<1> HIDE DEF known
<1>7. \A p \in Clients : known[p] \in Nat \cup {NotInMap} /\ known[p] <= now
  BY <1>4, <1>5 DEF Raised
<1>8. /\ last' \in [Clients -> Nat \cup {NotInMap}]
      /\ \A p \in Clients : last'[p] <= now
  BY <1>2, <1>4, <1>7
<1>9. ASSUME NEW p \in Racing PROVE last'[p] # NotInMap /\ last'[p] <= Known(p)
  <2>1. last[p] \in Nat /\ last[p] <= Known(p) BY <1>5, <1>6 DEF Confirmed
  <2>2. last'[p] = known[p] BY <1>2, <1>6
  <2>3. CASE p = c BY <1>4, <1>5, <1>6, <2>1, <2>2, <2>3 DEF Raised
  <2>4. CASE p # c BY <1>5, <1>6, <2>1, <2>2, <2>4
  <2> QED BY <2>3, <2>4
<1>10. confs' \in [Clients -> SUBSET Nat] /\ \A p \in Clients : confs'[p] \subseteq confs[p]
  BY <1>2 DEF TypeOK
<1>11. minTime' \in Nat \cup {Idle} BY <1>1, <1>8, EarliestIs DEF Int32Max
<1>12. TypeOK' BY <1>1, <1>8, <1>10, <1>11, Zenon DEF TypeOK
<1>13. Times' BY <1>1, Zenon DEF Times
<1>14. LogInOrder' BY <1>1, Zenon DEF LogInOrder
<1>15. EventsLogged' BY <1>1, Zenon DEF EventsLogged, OfLog, IsSeq
<1>16. OneJoins' BY <1>1, Zenon DEF OneJoins
<1>17. KnownIsPast' BY <1>1, <1>3 DEF KnownIsPast
<1>18. StatesComplement'
  BY <1>1, <1>3 DEF StatesComplement, Complements, OfLog
<1>19. Confirmed' BY <1>1, <1>3, <1>8, <1>9, <1>10 DEF Confirmed
<1>20. MinConfirmed'
  <2> SUFFICES ASSUME Earliest(last') # Int32Max
               PROVE  Earliest(last') <= now /\ \A p \in Racing : Earliest(last') <= Known(p)
    BY <1>1, <1>3 DEF MinConfirmed
  <2>1. /\ \E p \in Clients : Earliest(last') = last'[p]
        /\ Earliest(last') \in Nat
        /\ \A p \in Clients : last'[p] # NotInMap => Earliest(last') <= last'[p]
    BY <1>8, EarliestIs
  <2> QED BY <1>6, <1>8, <1>9, <2>1
<1>21. KeptUnlessUnasked' BY <1>1, <1>3 DEF KeptUnlessUnasked
<1>22. CaughtUp' BY <1>1, Zenon DEF CaughtUp
<1> QED BY <1>12, <1>13, <1>14, <1>15, <1>16, <1>17, <1>18, <1>19, <1>20, <1>21, <1>22

\* An event that is discarded lies before everything that anybody knows,
\* unless the map was empty; then there is still nobody, or it was unasked.
LEMMA DiscardEventsInv == IInv /\ DiscardEvents => IInv'
<1> SUFFICES ASSUME IInv, DiscardEvents PROVE IInv' OBVIOUS
<1> USE DEF IInv
<1>1. /\ now' = now /\ main' = main /\ switch' = switch /\ conn' = conn
      /\ last' = last /\ start' = start /\ states' = states /\ confs' = confs
      /\ copy' = copy /\ latest' = latest /\ applied' = applied /\ log' = log
      /\ minTime' = Idle
      /\ unasked' = (unasked \/ (minTime = Int32Max /\ Racing # {}))
  BY Zenon DEF DiscardEvents, clientVars, netVars, history
<1>2. PICK k \in 0 .. Len(events) :
        /\ \A i \in 1 .. k : Before(events[i], minTime)
        /\ events' = SubSeq(events, k + 1, Len(events))
  BY Zenon DEF DiscardEvents
<1>3. Racing' = Racing /\ \A p : Known(p)' = Known(p) BY <1>1 DEF Racing, Known
<1>4. unasked' \in BOOLEAN /\ (~unasked' => ~unasked) BY <1>1 DEF TypeOK
<1>5. /\ IsSeq(events') /\ DOMAIN events' = 1 .. (Len(events) - k)
      /\ Len(events) \in Nat /\ DOMAIN events = 1 .. Len(events)
      /\ \A i \in 1 .. (Len(events) - k) : events'[i] = events[i + k]
  <2>1. IsSeq(events) BY DEF EventsLogged
  <2> QED BY <1>2, <2>1, SeqSuffix
<1>6. TypeOK' BY <1>1, <1>4, Zenon DEF TypeOK
<1>7. Times' BY <1>1, Zenon DEF Times
<1>8. LogInOrder' BY <1>1, Zenon DEF LogInOrder
<1>9. EventsLogged'
  <2>1. \A i \in DOMAIN events' : i + k \in DOMAIN events /\ events'[i] = events[i + k]
    BY <1>5
  <2> QED BY <1>1, <1>5, <2>1 DEF EventsLogged, OfLog, IsSeq
<1>10. OneJoins' BY <1>1, Zenon DEF OneJoins
<1>11. KnownIsPast' BY <1>1, <1>3 DEF KnownIsPast
<1>12. StatesComplement'
  BY <1>1, <1>3, <1>4 DEF StatesComplement, Complements, OfLog
<1>13. Confirmed' BY <1>1, <1>3 DEF Confirmed
<1>14. MinConfirmed'
  <2>1. \A p \in Racing : Known(p) \in Nat BY DEF Racing, Known, Times
  <2> QED BY <1>1, <1>3, <2>1 DEF MinConfirmed, TypeOK
<1>15. KeptUnlessUnasked'
  <2> SUFFICES ASSUME ~unasked', NEW p \in Racing, NEW n \in DOMAIN log, log[n] >= Known(p)
               PROVE  \E i \in DOMAIN events' : events'[i].n = n
    BY <1>1, <1>3 DEF KeptUnlessUnasked
  <2>1. PICK j \in DOMAIN events : events[j].n = n BY <1>4 DEF KeptUnlessUnasked
  <2>2. events[j].ticks = log[n] /\ log[n] \in Nat
    BY <2>1 DEF EventsLogged, OfLog, TypeOK
  <2>3. ~ Before(events[j], minTime)
    <3>1. minTime # Int32Max BY <1>1
    <3>2. minTime <= Known(p) /\ minTime \in Int /\ Known(p) \in Nat
      BY <3>1 DEF MinConfirmed, TypeOK, Racing, Known, Times
    <3> QED BY <2>2, <3>2 DEF Before
  <2>4. j \in Nat /\ k \in Nat /\ j > k /\ j <= Len(events)
    <3>1. j \in 1 .. Len(events) /\ k \in Nat BY <1>5
    <3>2. j \notin 1 .. k BY <1>2, <2>3
    <3> QED BY <3>1, <3>2
  <2>5. j - k \in DOMAIN events' /\ events'[j - k] = events[j] BY <1>2, <1>5, <2>4
  <2> QED BY <2>1, <2>5
<1>16. CaughtUp' BY <1>1, <1>4 DEF CaughtUp
<1> QED BY <1>6, <1>7, <1>8, <1>9, <1>10, <1>11, <1>12, <1>13, <1>14, <1>15, <1>16

-----------------------------------------------------------------------------
(* The steps of the lobby                                                  *)

LEMMA SaveCompleteStateInv ==
  ASSUME IInv, NEW c \in Clients, SaveCompleteState(c)
  PROVE  IInv'
<1> USE DEF IInv
<1>1. /\ now' = now /\ switch' = switch /\ events' = events /\ last' = last
      /\ states' = states /\ confs' = confs /\ copy' = copy /\ latest' = latest
      /\ applied' = applied /\ log' = log /\ main = "rewind" /\ main' = "join"
      /\ conn[c] = "lobby" /\ minTime' = minTime /\ unasked' = unasked
  BY DEF SaveCompleteState, clientVars, history, discards
<1>2. /\ start' = [start EXCEPT ![c] = [time |-> now, items |-> items, switch |-> switch]]
      /\ conn' = [conn EXCEPT ![c] = "entering"]
  BY DEF SaveCompleteState
<1>3. /\ conn' \in [Clients -> {"lobby", "entering", "loading", "racing", "gone"}]
      /\ conn'[c] = "entering" /\ \A p \in Clients : p # c => conn'[p] = conn[p]
  BY <1>2 DEF TypeOK
<1>4. /\ DOMAIN start' = Clients /\ start'[c].time = now
      /\ \A p \in Clients : p # c => start'[p] = start[p]
  BY <1>2 DEF Times
<1>5. Racing' = Racing /\ c \notin Racing BY <1>1, <1>3 DEF Racing
<1>6. \A p \in Racing : Known(p)' = Known(p)
  BY <1>1, <1>3, <1>4, <1>5 DEF Racing, Known
<1>7. now \in Nat BY DEF TypeOK
<1>8. TypeOK' BY <1>1, <1>3, Zenon DEF TypeOK
<1>9. Times' BY <1>1, <1>4, <1>7 DEF Times
<1>10. LogInOrder' BY <1>1 DEF LogInOrder
<1>11. EventsLogged' BY <1>1, Zenon DEF EventsLogged, OfLog, IsSeq
<1>12. OneJoins' BY <1>1, <1>3, <1>4 DEF OneJoins
<1>13. KnownIsPast' BY <1>1, <1>5, <1>6 DEF KnownIsPast
<1>14. StatesComplement'
  BY <1>1, <1>5, <1>6 DEF StatesComplement, Complements, OfLog
<1>15. Confirmed' BY <1>1, <1>5, <1>6 DEF Confirmed
<1>16. KeptUnlessUnasked' BY <1>1, <1>5, <1>6 DEF KeptUnlessUnasked
<1>17. CaughtUp' BY <1>1, <1>3 DEF CaughtUp
<1>18. MinConfirmed' BY <1>1, <1>5, <1>6 DEF MinConfirmed
<1> QED BY <1>8, <1>9, <1>10, <1>11, <1>12, <1>13, <1>14, <1>15, <1>16, <1>17, <1>18

LEMMA AddLiveJoinPeerInv ==
  ASSUME IInv, NEW c \in Clients, AddLiveJoinPeer(c)
  PROVE  IInv'
<1> USE DEF IInv
<1>1. /\ now' = now /\ switch' = switch /\ events' = events /\ start' = start
      /\ states' = states /\ confs' = confs /\ copy' = copy /\ latest' = latest
      /\ applied' = applied /\ log' = log /\ main = "join" /\ main' = "rewind"
      /\ conn[c] = "entering" /\ minTime' = minTime /\ unasked' = unasked
  BY DEF AddLiveJoinPeer, clientVars, history, netVars, discards
<1>2. last' = [last EXCEPT ![c] = 0] /\ conn' = [conn EXCEPT ![c] = "loading"]
  BY DEF AddLiveJoinPeer, Entered
<1>3. /\ conn' \in [Clients -> {"lobby", "entering", "loading", "racing", "gone"}]
      /\ conn'[c] = "loading" /\ \A p \in Clients : p # c => conn'[p] = conn[p]
      /\ last' \in [Clients -> Nat \cup {NotInMap}]
      /\ last'[c] = 0 /\ \A p \in Clients : p # c => last'[p] = last[p]
  BY <1>2 DEF TypeOK
<1>4. start[c].time = now /\ now \in Nat BY <1>1 DEF OneJoins, TypeOK
<1>5. Racing' = Racing \cup {c} /\ c \notin Racing BY <1>1, <1>3 DEF Racing
<1>6. Known(c)' = now /\ \A p \in Racing : Known(p)' = Known(p)
  BY <1>1, <1>3, <1>4, <1>5 DEF Racing, Known
<1>7. \A n \in DOMAIN log : log[n] \in Nat /\ log[n] < now
  BY <1>1 DEF LogInOrder, TypeOK
<1>8. TypeOK' BY <1>1, <1>3, Zenon DEF TypeOK
<1>9. Times' BY <1>1, Zenon DEF Times
<1>10. LogInOrder' BY <1>1 DEF LogInOrder
<1>11. EventsLogged' BY <1>1, Zenon DEF EventsLogged, OfLog, IsSeq
<1>12. OneJoins' BY <1>1, <1>3 DEF OneJoins
<1>13. KnownIsPast' BY <1>1, <1>4, <1>5, <1>6 DEF KnownIsPast
<1>14. StatesComplement'
  BY <1>1, <1>5, <1>6 DEF StatesComplement, Complements, OfLog
<1>15. Confirmed'
  <2>1. \A p \in Racing' : last'[p] # NotInMap /\ last'[p] <= Known(p)'
    BY <1>3, <1>4, <1>5, <1>6 DEF Confirmed, Racing
  <2>2. \A p \in Racing' : \A t \in confs[p] : t <= Known(p)'
    BY <1>5, <1>6 DEF Confirmed, Racing
  <2>3. \A p \in Clients : last'[p] <= now BY <1>3, <1>4 DEF Confirmed
  <2> QED BY <1>1, <2>1, <2>2, <2>3 DEF Confirmed
<1>16. KeptUnlessUnasked'
  <2> SUFFICES ASSUME ~unasked, NEW p \in Racing', NEW n \in DOMAIN log, log[n] >= Known(p)'
               PROVE  \E i \in DOMAIN events : events[i].n = n
    BY <1>1 DEF KeptUnlessUnasked
  <2>1. p # c BY <1>4, <1>6, <1>7
  <2> QED BY <1>5, <1>6, <2>1 DEF KeptUnlessUnasked
<1>17. CaughtUp' BY <1>1, <1>3 DEF CaughtUp
<1>18. MinConfirmed' BY <1>1, <1>5, <1>6 DEF MinConfirmed
<1> QED BY <1>8, <1>9, <1>10, <1>11, <1>12, <1>13, <1>14, <1>15, <1>16, <1>17, <1>18

\* A client leaves.
LEMMA LeaveStep ==
  ASSUME IInv, NEW c \in Clients, ClientStops(c), NEW place \in {"lobby", "gone"},
         c \in Racing, conn' = [conn EXCEPT ![c] = place],
         last' \in [Clients -> Nat \cup {NotInMap}],
         \A p \in Clients : p # c => last'[p] = last[p], last'[c] \in {last[c], NotInMap},
         UNCHANGED <<now, main, switch, events, start, log, confs, minTime, unasked>>
  PROVE  IInv'
<1> USE DEF IInv
<1>1. /\ now' = now /\ main' = main /\ switch' = switch /\ events' = events
      /\ start' = start /\ log' = log /\ confs' = confs
      /\ minTime' = minTime /\ unasked' = unasked
  OBVIOUS
<1>2. /\ conn' \in [Clients -> {"lobby", "entering", "loading", "racing", "gone"}]
      /\ conn'[c] = place /\ \A p \in Clients : p # c => conn'[p] = conn[p]
  BY DEF TypeOK
<1>3. /\ DOMAIN states' = Clients /\ states'[c] = {}
      /\ \A p \in Clients : p # c => states'[p] = states[p]
  BY DEF ClientStops, Times
<1>4. /\ latest' \in [Clients -> Nat \cup {-1}]
      /\ applied' \in [Clients -> SUBSET Nat]
      /\ \A p \in Clients : p # c => applied'[p] = applied[p]
  BY DEF ClientStops, TypeOK
<1>5. /\ DOMAIN copy' = Clients /\ copy'[c].time = 0
      /\ \A p \in Clients : p # c => copy'[p] = copy[p]
  BY DEF ClientStops, Times, Complete
<1>6. Racing' = Racing \ {c} BY <1>2 DEF Racing
<1>7. \A p \in Racing' : p \in Clients /\ p # c /\ Known(p)' = Known(p)
  BY <1>1, <1>2, <1>5, <1>6 DEF Racing, Known
<1>8. TypeOK' BY <1>1, <1>2, <1>4, Zenon DEF TypeOK
<1>9. Times' BY <1>1, <1>3, <1>5 DEF Times
<1>10. LogInOrder' BY <1>1 DEF LogInOrder
<1>11. EventsLogged' BY <1>1, Zenon DEF EventsLogged, OfLog, IsSeq
<1>12. OneJoins' BY <1>1, <1>2 DEF OneJoins
<1>13. KnownIsPast' BY <1>1, <1>6, <1>7 DEF KnownIsPast
<1>14. StatesComplement'
  <2> SUFFICES ASSUME NEW p \in Clients, NEW s \in states'[p]
               PROVE  p \in Racing' /\ Complements(s, p)'
    BY DEF StatesComplement
  <2>1. p # c /\ s \in states[p] BY <1>3
  <2>2. p \in Racing' /\ Known(p)' = Known(p) /\ Complements(s, p)
    BY <1>6, <1>7, <2>1 DEF StatesComplement
  <2> QED BY <1>1, <2>2 DEF Complements, OfLog
<1>15. Confirmed'
  <2>1. \A p \in Racing' : /\ last'[p] # NotInMap /\ last'[p] <= Known(p)'
                          /\ \A t \in confs[p] : t <= Known(p)'
    BY <1>6, <1>7 DEF Confirmed
  <2>2. \A p \in Clients : last'[p] <= now BY DEF Confirmed, TypeOK
  <2> QED BY <1>1, <2>1, <2>2 DEF Confirmed
<1>16. KeptUnlessUnasked' BY <1>1, <1>6, <1>7 DEF KeptUnlessUnasked
<1>17. CaughtUp' BY <1>1, <1>2, <1>4, <1>5 DEF CaughtUp
<1>18. MinConfirmed' BY <1>1, <1>6, <1>7 DEF MinConfirmed
<1> QED BY <1>8, <1>9, <1>10, <1>11, <1>12, <1>13, <1>14, <1>15, <1>16, <1>17, <1>18

LEMMA BackToLobbyInv ==
  ASSUME IInv, NEW c \in Clients, BackToLobby(c)
  PROVE  IInv'
<1>1. /\ ClientStops(c) /\ c \in Racing /\ conn' = [conn EXCEPT ![c] = "lobby"]
      /\ UNCHANGED <<now, main, switch, events, start, log, confs, minTime, unasked>>
  BY Zenon DEF BackToLobby, serverVars, history, discards
<1>2. /\ last' \in [Clients -> Nat \cup {NotInMap}] /\ last'[c] = NotInMap
      /\ \A p \in Clients : p # c => last'[p] = last[p]
  BY DEF BackToLobby, IInv, TypeOK
<1> QED BY <1>1, <1>2, LeaveStep

LEMMA DisconnectInv ==
  ASSUME IInv, NEW c \in Clients, Disconnect(c)
  PROVE  IInv'
<1>1. /\ ClientStops(c) /\ c \in Racing /\ conn' = [conn EXCEPT ![c] = "gone"]
      /\ UNCHANGED <<now, main, switch, events, start, log, confs, minTime, unasked>>
      /\ last' = last
  BY Zenon DEF Disconnect, serverVars, history, discards
<1>2. last' \in [Clients -> Nat \cup {NotInMap}] BY <1>1 DEF IInv, TypeOK
<1> QED BY <1>1, <1>2, LeaveStep

-----------------------------------------------------------------------------
(* The steps of a client                                                   *)

LEMMA RestoreCompleteStateInv ==
  ASSUME IInv, NEW c \in Clients, RestoreCompleteState(c)
  PROVE  IInv'
<1> USE DEF IInv
<1> DEFINE before == {n \in 1 .. Len(log) : log[n] < start[c].time}
<1>1. /\ now' = now /\ main' = main /\ switch' = switch /\ events' = events
      /\ last' = last /\ states' = states /\ confs' = confs /\ latest' = latest
      /\ log' = log /\ conn[c] = "loading" /\ minTime' = minTime /\ unasked' = unasked
  BY DEF RestoreCompleteState, serverVars, history, discards
<1>2. /\ conn' \in [Clients -> {"lobby", "entering", "loading", "racing", "gone"}]
      /\ conn'[c] = "racing" /\ \A p \in Clients : p # c => conn'[p] = conn[p]
  BY DEF RestoreCompleteState, TypeOK
<1>3. /\ DOMAIN copy' = Clients /\ copy'[c] = start[c]
      /\ \A p \in Clients : p # c => copy'[p] = copy[p]
  BY DEF RestoreCompleteState, Times
<1>4. /\ DOMAIN start' = Clients /\ start'[c].time = 0
      /\ \A p \in Clients : p # c => start'[p] = start[p]
  BY DEF RestoreCompleteState, Times, Complete
<1>5. /\ applied'[c] = before /\ \A p \in Clients : p # c => applied'[p] = applied[p]
      /\ applied' \in [Clients -> SUBSET Nat]
  BY DEF RestoreCompleteState, TypeOK
<1>6. Racing' = Racing BY <1>1, <1>2 DEF Racing
<1>7. \A p \in Racing : p \in Clients /\ Known(p)' = Known(p)
  BY <1>1, <1>2, <1>3, <1>4 DEF Racing, Known
<1>8. TypeOK' BY <1>1, <1>2, <1>5, Zenon DEF TypeOK
<1>9. Times' BY <1>1, <1>3, <1>4 DEF Times
<1>10. LogInOrder' BY <1>1, Zenon DEF LogInOrder
<1>11. EventsLogged' BY <1>1, Zenon DEF EventsLogged, OfLog, IsSeq
<1>12. OneJoins' BY <1>1, <1>2, <1>4 DEF OneJoins
<1>13. KnownIsPast' BY <1>1, <1>6, <1>7 DEF KnownIsPast
<1>14. StatesComplement'
  BY <1>1, <1>6, <1>7 DEF StatesComplement, Complements, OfLog
<1>15. Confirmed' BY <1>1, <1>6, <1>7 DEF Confirmed
<1>16. KeptUnlessUnasked' BY <1>1, <1>6, <1>7 DEF KeptUnlessUnasked
<1>17. CaughtUp'
  <2>1. DOMAIN log = 1 .. Len(log) BY DEF TypeOK
  <2> QED BY <1>1, <1>2, <1>3, <1>5, <2>1 DEF CaughtUp
<1>18. MinConfirmed' BY <1>1, <1>6, <1>7 DEF MinConfirmed
<1> QED BY <1>8, <1>9, <1>10, <1>11, <1>12, <1>13, <1>14, <1>15, <1>16, <1>17, <1>18

\* The events that a restored state brings are those between the two times.
LEMMA RestoreStateInv ==
  ASSUME IInv, NEW c \in Clients, NEW s \in states[c], RestoreState(c, s)
  PROVE  /\ IInv'
         /\ Known(c) <= s.ticks /\ log' = log
         /\ unasked' = unasked
         /\ ~unasked =>
              applied' = [applied EXCEPT ![c] = {n \in DOMAIN log : log[n] < s.ticks}]
<1> USE DEF IInv
<1> DEFINE count == Len(s.events)
           time  == IF count > 0 /\ s.events[count].ticks > copy[c].time
                    THEN s.events[count].ticks ELSE copy[c].time
           new   == {s.events[i].n : i \in {j \in 1 .. count :
                                        ~IsPast(s.events[j], copy[c].time)}}
<1>1. /\ now' = now /\ main' = main /\ switch' = switch /\ events' = events
      /\ last' = last /\ start' = start /\ log' = log /\ conn' = conn
      /\ conn[c] = "racing" /\ latest' = [latest EXCEPT ![c] = s.ticks]
      /\ states' = [states EXCEPT ![c] = {o \in @ : o.ticks > s.ticks}]
      /\ minTime' = minTime /\ unasked' = unasked
  BY Zenon DEF RestoreState, serverVars, history, discards
<1>2. copy' = [copy EXCEPT ![c] = [time |-> s.ticks, items |-> Restored(copy[c], s).items,
                                   switch |-> Restored(copy[c], s).switch]]
  BY Zenon DEF RestoreState
<1>3. confs' = [confs EXCEPT ![c] = @ \cup IF count > 0 THEN {time} ELSE {}]
  BY Zenon DEF RestoreState
<1>4. applied' = [applied EXCEPT ![c] = @ \cup new]
  BY Zenon DEF RestoreState
<1>5. Racing' = Racing /\ c \in Racing /\ Known(c) = copy[c].time /\ copy[c].time \in Nat
  BY <1>1 DEF Racing, Known, Times
<1>6. Complements(s, c) BY DEF StatesComplement
<1>7. /\ s.ticks \in Nat /\ copy[c].time <= s.ticks /\ s.ticks <= now
      /\ count \in Nat /\ DOMAIN s.events = 1 .. count
  <2>1. PICK S : s.events \in Seq(S) BY <1>6 DEF Complements, IsSeq
  <2> QED BY <1>5, <1>6, <2>1 DEF Complements
<1>8. /\ DOMAIN copy' = Clients /\ copy'[c].time = s.ticks
      /\ \A p \in Clients : p # c => copy'[p] = copy[p]
  BY <1>2 DEF Times
<1>9. Known(c)' = s.ticks /\ \A p \in Racing : p # c => Known(p)' = Known(p)
  BY <1>1, <1>8 DEF Racing, Known
<1>10. time \in Nat /\ (count > 0 => time <= s.ticks)
  <2>1. CASE count > 0
    <3>1. s.events[count].ticks \in Nat /\ s.events[count].ticks < s.ticks
      <4>1. count \in DOMAIN s.events BY <1>7, <2>1
      <4>2. OfLog(s.events[count]) /\ s.events[count].ticks < s.ticks
        BY <1>6, <4>1, Zenon DEF Complements
      <4> QED BY <4>2 DEF OfLog, TypeOK
    <3> QED BY <1>5, <1>7, <3>1
  <2>2. CASE count = 0 BY <1>5, <2>2
  <2> QED BY <1>7, <2>1, <2>2
<1>11. /\ confs' \in [Clients -> SUBSET Nat]
       /\ \A t \in confs'[c] : t \in confs[c] \/ t <= s.ticks
       /\ \A p \in Clients : p # c => confs'[p] = confs[p]
  <2> HIDE DEF time, count
  <2> QED BY <1>3, <1>10 DEF TypeOK
<1>12. /\ new \subseteq Nat
       /\ ~unasked => new = {n \in DOMAIN log : copy[c].time <= log[n] /\ log[n] < s.ticks}
  <2>1. ASSUME NEW i \in 1 .. count
        PROVE  /\ s.events[i].n \in DOMAIN log
               /\ s.events[i].ticks = log[s.events[i].n]
               /\ log[s.events[i].n] < s.ticks /\ log[s.events[i].n] \in Nat
    <3>1. i \in DOMAIN s.events BY <1>7
    <3>2. OfLog(s.events[i]) /\ s.events[i].ticks < s.ticks
      BY <1>6, <3>1, Zenon DEF Complements
    <3>3. \A n \in DOMAIN log : log[n] \in Nat BY DEF TypeOK
    <3> QED BY <3>2, <3>3 DEF OfLog
  <2>2. ASSUME ~unasked, NEW n \in DOMAIN log, copy[c].time <= log[n], log[n] < s.ticks
        PROVE  n \in new
    <3>1. PICK i \in 1 .. count : s.events[i].n = n
      BY <1>5, <1>6, <1>7, <2>2 DEF Complements
    <3>2. ~IsPast(s.events[i], copy[c].time) BY <1>5, <2>1, <2>2, <3>1 DEF IsPast
    <3> QED BY <3>1, <3>2
  <2>3. ASSUME NEW n \in new
        PROVE  n \in DOMAIN log /\ copy[c].time <= log[n] /\ log[n] < s.ticks
    <3>1. PICK i \in 1 .. count : s.events[i].n = n /\ ~IsPast(s.events[i], copy[c].time)
      OBVIOUS
    <3> QED BY <1>5, <2>1, <3>1 DEF IsPast
  <2>4. DOMAIN log \subseteq Nat BY DEF TypeOK
  <2> HIDE DEF new
  <2> QED BY <2>2, <2>3, <2>4
<1> HIDE DEF new
<1>13. ~unasked => applied[c] \cup new = {n \in DOMAIN log : log[n] < s.ticks}
  <2>1. ~unasked => applied[c] = {n \in DOMAIN log : log[n] < copy[c].time}
    BY <1>1 DEF CaughtUp
  <2>2. \A n \in DOMAIN log : log[n] \in Nat BY DEF TypeOK
  <2> QED BY <1>5, <1>7, <1>12, <2>1, <2>2
<1>14. ~unasked => applied' = [applied EXCEPT ![c] = {n \in DOMAIN log : log[n] < s.ticks}]
  BY <1>4, <1>13
<1>15. /\ applied' \in [Clients -> SUBSET Nat]
       /\ ~unasked => applied'[c] = {n \in DOMAIN log : log[n] < s.ticks}
       /\ \A p \in Clients : p # c => applied'[p] = applied[p]
  BY <1>4, <1>12, <1>14 DEF TypeOK
<1>16. latest' \in [Clients -> Nat \cup {-1}] BY <1>1, <1>7 DEF TypeOK
<1>17. TypeOK' BY <1>1, <1>11, <1>15, <1>16, Zenon DEF TypeOK
<1>18. /\ DOMAIN states' = Clients /\ states'[c] = {o \in states[c] : o.ticks > s.ticks}
       /\ \A p \in Clients : p # c => states'[p] = states[p]
  BY <1>1 DEF Times
<1>19. Times' BY <1>1, <1>7, <1>8, <1>18 DEF Times
<1>20. LogInOrder' BY <1>1, Zenon DEF LogInOrder
<1>21. EventsLogged' BY <1>1, Zenon DEF EventsLogged, OfLog, IsSeq
<1>22. OneJoins' BY <1>1, Zenon DEF OneJoins
<1>23. KnownIsPast' BY <1>1, <1>5, <1>7, <1>9 DEF KnownIsPast
<1>24. StatesComplement'
  <2> SUFFICES ASSUME NEW p \in Clients, NEW o \in states'[p]
               PROVE  p \in Racing /\ Complements(o, p)'
    BY <1>5 DEF StatesComplement
  <2>1. o \in states[p] BY <1>18
  <2>2. p \in Racing /\ Complements(o, p) BY <2>1 DEF StatesComplement
  <2>3. CASE p # c
    BY <1>1, <1>9, <2>2, <2>3 DEF Complements, OfLog
  <2>4. CASE p = c
    <3>1. o.ticks > s.ticks BY <1>18, <2>4
    <3>2. \A n \in DOMAIN log : s.ticks <= log[n] => Known(c) <= log[n]
      BY <1>5, <1>7 DEF TypeOK
    <3>3. o.ticks \in Nat /\ s.ticks <= o.ticks
      BY <1>7, <2>2, <3>1 DEF Complements
    <3> QED BY <1>1, <1>9, <2>2, <2>4, <3>2, <3>3 DEF Complements, OfLog
  <2> QED BY <2>3, <2>4
<1>25. Confirmed'
  <2>1. \A t \in confs'[c] : t \in Nat /\ t <= s.ticks /\ t <= now
    <3>1. \A t \in confs[c] : t \in Nat /\ t <= s.ticks BY <1>5, <1>7 DEF Confirmed, TypeOK
    <3> QED BY <1>7, <1>11, <3>1 DEF TypeOK
  <2>2. \A p \in Clients : \A t \in confs'[p] : t <= now /\ (p \in Racing => t <= Known(p)')
    BY <1>9, <1>11, <2>1 DEF Confirmed
  <2>3. \A p \in Racing : last[p] # NotInMap /\ last[p] <= Known(p)'
    <3> TAKE p \in Racing
    <3>1. last[p] \in Nat /\ last[p] <= Known(p) BY DEF Confirmed, TypeOK, Racing
    <3> QED BY <1>5, <1>7, <1>9, <3>1 DEF Confirmed
  <2> QED BY <1>1, <1>5, <2>2, <2>3 DEF Confirmed
<1>26. KeptUnlessUnasked'
  <2>1. \A n \in DOMAIN log : log[n] >= s.ticks => log[n] >= Known(c)
    BY <1>5, <1>7 DEF TypeOK
  <2> QED BY <1>1, <1>5, <1>9, <2>1 DEF KeptUnlessUnasked
<1>27. CaughtUp' BY <1>1, <1>8, <1>15 DEF CaughtUp
<1>28. MinConfirmed'
  <2>1. minTime \in Int BY DEF TypeOK
  <2> QED BY <1>1, <1>5, <1>7, <1>9, <2>1 DEF MinConfirmed
<1>29. IInv' BY <1>17, <1>19, <1>20, <1>21, <1>22, <1>23, <1>24, <1>25, <1>26, <1>27, <1>28
<1> QED BY <1>1, <1>5, <1>7, <1>14, <1>29

-----------------------------------------------------------------------------
(* The theorems                                                            *)

LEMMA StutterInv == IInv /\ UNCHANGED vars => IInv'
<1> SUFFICES ASSUME IInv, UNCHANGED vars PROVE IInv' OBVIOUS
<1>1. /\ now' = now /\ main' = main /\ switch' = switch /\ events' = events
      /\ last' = last /\ conn' = conn /\ start' = start /\ states' = states
      /\ confs' = confs /\ copy' = copy /\ latest' = latest /\ log' = log
      /\ applied' = applied /\ minTime' = minTime /\ unasked' = unasked
  BY Zenon DEF vars, serverVars, netVars, clientVars, history, discards
<1>2. Racing' = Racing /\ \A c : Known(c)' = Known(c) BY <1>1 DEF Racing, Known
<1>3. (TypeOK /\ Times /\ LogInOrder /\ OneJoins /\ CaughtUp)'
  BY <1>1, Zenon DEF IInv, TypeOK, Times, LogInOrder, OneJoins, CaughtUp
<1>4. EventsLogged' BY <1>1, Zenon DEF IInv, EventsLogged, OfLog, IsSeq
<1>5. StatesComplement'
  BY <1>1, <1>2 DEF IInv, StatesComplement, Complements, OfLog
<1>6. KnownIsPast' /\ Confirmed' /\ MinConfirmed' /\ KeptUnlessUnasked'
  BY <1>1, <1>2 DEF IInv, KnownIsPast, Confirmed, MinConfirmed, KeptUnlessUnasked
<1> QED BY <1>3, <1>4, <1>5, <1>6 DEF IInv

LEMMA StepInv == IInv /\ [Next]_vars => IInv'
<1> SUFFICES ASSUME IInv, [Next]_vars PROVE IInv' OBVIOUS
<1>1. CASE SaveState BY <1>1, SaveStateInv
<1>2. CASE DropItem \/ SwitchItems \/ \E i \in DOMAIN items : CollectItem(i)
  BY <1>2, KartsInv
<1>3. CASE UpdateItems BY <1>3, UpdateItemsInv
<1>4. ASSUME NEW c \in Clients, NEW t \in confs[c], ConfirmItems(c, t) PROVE IInv'
  BY <1>4, ConfirmItemsInv
<1>5. ASSUME NEW c \in Clients, Lobby(c) PROVE IInv'
  <2>1. CASE SaveCompleteState(c) BY <2>1, SaveCompleteStateInv
  <2>2. CASE AddLiveJoinPeer(c) BY <2>2, AddLiveJoinPeerInv
  <2>3. CASE BackToLobby(c) BY <2>3, BackToLobbyInv
  <2>4. CASE Disconnect(c) BY <2>4, DisconnectInv
  <2> QED BY <1>5, <2>1, <2>2, <2>3, <2>4 DEF Lobby
<1>6. ASSUME NEW c \in Clients, RestoreCompleteState(c) PROVE IInv'
  BY <1>6, RestoreCompleteStateInv
<1>7. ASSUME NEW c \in Clients, Restore(c) PROVE IInv'
  BY <1>7, RestoreStateInv DEF Restore
<1>8. CASE UNCHANGED vars BY <1>8, StutterInv
<1>9. CASE RaceStops BY <1>9, RaceStopsInv
<1>10. CASE Over BY <1>10, StutterInv DEF Over
<1>11. CASE DiscardEvents BY <1>11, DiscardEventsInv
<1> QED BY <1>1, <1>2, <1>3, <1>4, <1>5, <1>6, <1>7, <1>8, <1>9, <1>10, <1>11 DEF Next

THEOREM Invariant == Spec => []IInv
BY InitInv, StepInv, PTL DEF Spec

\* Every variable keeps its type.
THEOREM TypeCorrect == Spec => []TypeOK
<1>1. IInv => TypeOK BY DEF IInv
<1> QED BY <1>1, Invariant, PTL

\* The server still has every event that a client in the race has yet to
\* apply, in whatever order states and confirmations arrive and whoever joins
\* or leaves between the two locks of setItemConfirmationTime, unless events
\* were discarded for an empty map (NetworkItemManager).
THEOREM NeededEventsKept == Spec => []KeptUnlessUnasked
<1>1. IInv => KeptUnlessUnasked BY DEF IInv
<1> QED BY <1>1, Invariant, PTL

\* A client has applied exactly the events from before the last state that it
\* restored (NetworkItemManager::restoreState), with the same exception.
THEOREM AppliedUpToCopy == Spec => []CaughtUp
<1>1. IInv => CaughtUp BY DEF IInv
<1> QED BY <1>1, Invariant, PTL

-----------------------------------------------------------------------------
(* Items, and lists of them                                                *)

Item == [type : DOMAIN SwitchTo, original : DOMAIN SwitchTo \cup {"none"},
         ttr : Int, uses : Int]
Slot == Item \cup {NoItem}

\* An item that was used up is still in the list of the server until the end
\* of the tick; a client deletes it at once.
Left(it) == IF it # NoItem /\ UsedUp(it) THEN NoItem ELSE it

\* The items A of a client are those that the server has in B.
Alike(A, B) == Len(A) = Len(B) /\ \A i \in 1 .. Len(A) : SameItem(A[i], Left(B[i]))

\* Either all items are switched or none is.
Whole(its, sw) == \A i \in 1 .. Len(its) :
  its[i] # NoItem => (its[i].original = "none" <=> sw < 0)

Copies == [time : Nat, items : Seq(Slot), switch : Int]

Neat(cs) == /\ Whole(cs.items, cs.switch)
            /\ \A i \in 1 .. Len(cs.items) : cs.items[i] # NoItem => ~UsedUp(cs.items[i])

\* The same but for the switch
Turned(a, b) == IF a = NoItem THEN b = NoItem
                ELSE b \in Item /\ Base(b) = Base(a) /\ b.uses = a.uses /\ b.ttr = a.ttr

LEMMA Kinds ==
  /\ DOMAIN SwitchTo = {"box", "banana", "gum", "nitro"}
  /\ \A k \in DOMAIN SwitchTo : SwitchTo[k] \in DOMAIN SwitchTo /\ k # "none"
BY DEF SwitchTo

LEMMA ItemIsThere == \A it \in Item : it # NoItem
<1> SUFFICES ASSUME NEW it \in Item, it = NoItem PROVE FALSE OBVIOUS
<1>1. it.type \in DOMAIN SwitchTo BY DEF Item
<1>2. it.type = "none" BY DEF NoItem
<1> QED BY <1>1, <1>2, Kinds

LEMMA ItemFields ==
  ASSUME NEW it \in Item
  PROVE  /\ it.type \in DOMAIN SwitchTo /\ it.original \in DOMAIN SwitchTo \cup {"none"}
         /\ it.ttr \in Int /\ it.uses \in Int
         /\ \A t \in Int : [it EXCEPT !.ttr = t] \in Item
         /\ \A u \in Int : [it EXCEPT !.uses = u] \in Item
BY DEF Item

LEMMA Switching ==
  ASSUME NEW it \in Item
  PROVE  /\ SwitchOn(it) \in Item /\ SwitchOn(it).original # "none"
         /\ it.original = "none" => Turned(it, SwitchOn(it))
         /\ SwitchBack(it) \in Item /\ SwitchBack(it).original = "none"
         /\ Turned(it, SwitchBack(it))
<1>1. /\ it.type \in DOMAIN SwitchTo /\ it.type # "none" /\ SwitchTo[it.type] \in DOMAIN SwitchTo
      /\ it.original \in DOMAIN SwitchTo \cup {"none"} /\ it # NoItem
  BY Kinds, ItemFields, ItemIsThere
<1>2. /\ SwitchOn(it) \in Item /\ SwitchOn(it).original = it.type
      /\ SwitchOn(it).uses = it.uses /\ SwitchOn(it).ttr = it.ttr
  BY <1>1 DEF SwitchOn, Item
<1>3. /\ SwitchBack(it) \in Item /\ SwitchBack(it).original = "none"
      /\ SwitchBack(it).uses = it.uses /\ SwitchBack(it).ttr = it.ttr
      /\ SwitchBack(it).type = Base(it)
  BY <1>1 DEF SwitchBack, Item, Base
<1>4. Base(SwitchBack(it)) = Base(it) BY <1>3 DEF Base
<1>5. it.original = "none" => Base(SwitchOn(it)) = Base(it) BY <1>1, <1>2 DEF Base
<1> QED BY <1>1, <1>2, <1>3, <1>4, <1>5 DEF Turned

LEMMA SlotsOf ==
  ASSUME NEW its \in Seq(Slot)
  PROVE  /\ Len(its) \in Nat /\ DOMAIN its = 1 .. Len(its)
         /\ \A i \in 1 .. Len(its) : its[i] = NoItem \/ its[i] \in Item
BY DEF Slot

LEMMA SwitchAllFits ==
  ASSUME NEW its \in Seq(Slot), NEW sw \in Int
  PROVE  LET new == SwitchAll(its, sw) IN
         /\ new \in Seq(Slot) /\ Len(new) = Len(its)
         /\ Whole(its, sw) =>
              /\ \A i \in 1 .. Len(its) : Turned(its[i], new[i])
              /\ \A x \in Int : (x < 0 <=> sw >= 0) => Whole(new, x)
<1> DEFINE new == SwitchAll(its, sw)
<1>1. new = [i \in 1 .. Len(its) |->
               IF its[i] = NoItem THEN NoItem
               ELSE IF sw < 0 THEN SwitchOn(its[i]) ELSE SwitchBack(its[i])]
  BY SlotsOf DEF SwitchAll, OnItems
<1>2. \A i \in 1 .. Len(its) : new[i] \in Slot
  BY <1>1, SlotsOf, Switching DEF Slot
<1>3. new \in Seq(Slot) /\ Len(new) = Len(its)
  <2> HIDE DEF new
  <2> QED BY <1>1, <1>2, SlotsOf
<1>4. ASSUME Whole(its, sw), NEW i \in 1 .. Len(its)
      PROVE  /\ Turned(its[i], new[i])
             /\ new[i] # NoItem => (new[i].original = "none" <=> sw >= 0)
  <2>1. CASE its[i] = NoItem BY <1>1, <2>1 DEF Turned
  <2>2. CASE its[i] \in Item /\ sw < 0
    <3>1. new[i] = SwitchOn(its[i]) /\ its[i] # NoItem BY <1>1, <2>2, ItemIsThere
    <3>2. its[i].original = "none" BY <1>4, <2>2, <3>1 DEF Whole
    <3> HIDE DEF new
    <3> QED BY <2>2, <3>1, <3>2, Switching
  <2>3. CASE its[i] \in Item /\ ~(sw < 0)
    <3>1. new[i] = SwitchBack(its[i]) /\ its[i] # NoItem BY <1>1, <2>3, ItemIsThere
    <3> HIDE DEF new
    <3> QED BY <2>3, <3>1, Switching
  <2> QED BY <2>1, <2>2, <2>3, SlotsOf
<1> HIDE DEF new
<1>5. ASSUME Whole(its, sw), NEW x \in Int, x < 0 <=> sw >= 0 PROVE Whole(new, x)
  BY <1>3, <1>4, <1>5 DEF Whole
<1> QED BY <1>3, <1>4, <1>5 DEF new

\* Some ticks later
Moved(a, b, k) ==
  IF a = NoItem THEN b = NoItem
  ELSE /\ b \in Item /\ Base(b) = Base(a) /\ b.uses = a.uses
       /\ b.ttr = IF k > 0 /\ a.ttr > 0 THEN a.ttr - k ELSE a.ttr

LEMMA Aging ==
  ASSUME NEW it \in Item, NEW k \in Int
  PROVE  LET new == Aged(it, k) IN
         /\ new \in Item /\ new.original = it.original /\ Base(new) = Base(it)
         /\ new.uses = it.uses /\ new.ttr = IF it.ttr > 0 THEN it.ttr - k ELSE it.ttr
<1>1. it.ttr \in Int /\ it.ttr - k \in Int BY ItemFields
<1>2. CASE it.ttr > 0
  <2>1. Aged(it, k) = [it EXCEPT !.ttr = it.ttr - k] BY <1>2 DEF Aged
  <2> QED BY <1>1, <1>2, <2>1 DEF Item, Base
<1>3. CASE ~ (it.ttr > 0) BY <1>3 DEF Aged
<1> QED BY <1>2, <1>3

LEMMA ForwardFits ==
  ASSUME NEW cs \in Copies, NEW k \in Int
  PROVE  LET new == Forward(cs, k) IN
         /\ new \in Copies /\ Len(new.items) = Len(cs.items)
         /\ new.time = IF k > 0 THEN cs.time + k ELSE cs.time
         /\ Neat(cs) => /\ Neat(new)
                        /\ \A i \in 1 .. Len(cs.items) : Moved(cs.items[i], new.items[i], k)
<1> DEFINE new == Forward(cs, k)
           old == cs.items
           its == [i \in 1 .. Len(old) |-> IF old[i] = NoItem THEN NoItem ELSE Aged(old[i], k)]
           sw == cs.switch
<1>1. cs.time \in Nat /\ old \in Seq(Slot) /\ sw \in Int BY DEF Copies
<1>2. /\ Len(old) \in Nat /\ DOMAIN old = 1 .. Len(old)
      /\ \A i \in 1 .. Len(old) : old[i] = NoItem \/ old[i] \in Item
  BY <1>1, SlotsOf
<1>3. CASE k <= 0
  <2>1. new = cs BY <1>3 DEF Forward
  <2>2. \A i \in 1 .. Len(old) : Moved(old[i], old[i], k)
    BY <1>2, <1>3 DEF Moved
  <2> QED BY <1>3, <2>1, <2>2
<1>4. CASE k > 0
  <2>1. ~(k <= 0) BY <1>4
  <2>2. new = IF sw > k
              THEN [time |-> cs.time + k, items |-> its, switch |-> sw - k]
              ELSE [time |-> cs.time + k, switch |-> -1,
                    items |-> IF sw >= 0 THEN SwitchAll(its, sw) ELSE its]
    BY <1>2, <2>1 DEF Forward, OnItems
  <2>3. \A i \in 1 .. Len(old) : its[i] \in Slot
    BY <1>2, Aging DEF Slot
  <2>4. its \in Seq(Slot) /\ Len(its) = Len(old)
    <3> DEFINE n == Len(old)
    <3>1. its = [i \in 1 .. n |-> its[i]] OBVIOUS
    <3>2. n \in Nat /\ \A i \in 1 .. n : its[i] \in Slot BY <1>2, <2>3
    <3> HIDE DEF its, n
    <3>3. its \in Seq(Slot) /\ Len(its) = n BY <3>1, <3>2
    <3> QED BY <3>3 DEF n
  <2>5. \A i \in 1 .. Len(old) :
          /\ Moved(old[i], its[i], k)
          /\ its[i] # NoItem => old[i] # NoItem /\ its[i].original = old[i].original
                                /\ its[i].uses = old[i].uses
    <3> SUFFICES ASSUME NEW i \in 1 .. Len(old)
                 PROVE  /\ Moved(old[i], its[i], k)
                        /\ its[i] # NoItem => /\ old[i] # NoItem
                                              /\ its[i].original = old[i].original
                                              /\ its[i].uses = old[i].uses
      OBVIOUS
    <3>1. CASE old[i] = NoItem BY <3>1 DEF Moved
    <3>2. CASE old[i] \in Item
      <4>1. its[i] = Aged(old[i], k) /\ old[i] # NoItem BY <3>2, ItemIsThere
      <4> HIDE DEF its, old
      <4>2. Aged(old[i], k) \in Item /\ Aged(old[i], k).original = old[i].original
            /\ Aged(old[i], k).uses = old[i].uses
        BY <3>2, Aging
      <4>3. /\ Base(Aged(old[i], k)) = Base(old[i])
            /\ Aged(old[i], k).ttr = IF k > 0 /\ old[i].ttr > 0 THEN old[i].ttr - k
                                     ELSE old[i].ttr
        BY <1>4, <3>2, Aging
      <4>4. Moved(old[i], its[i], k) BY <4>1, <4>2, <4>3 DEF Moved
      <4> QED BY <4>1, <4>2, <4>4
    <3> QED BY <1>2, <3>1, <3>2
  <2> HIDE DEF its, new
  <2>6. Neat(cs) => Whole(its, sw)
    BY <2>4, <2>5 DEF Neat, Whole
  <2>7. Neat(cs) => \A i \in 1 .. Len(old) : its[i] # NoItem => ~UsedUp(its[i])
    BY <2>5 DEF Neat, UsedUp
  <2>8. cs.time + k \in Nat BY <1>1, <1>4
  <2>9. CASE sw >= 0 /\ ~(sw > k)
    <3> DEFINE back == SwitchAll(its, sw)
    <3>1. new = [time |-> cs.time + k, switch |-> -1, items |-> back]
      BY <2>2, <2>9
    <3>2. /\ back \in Seq(Slot) /\ Len(back) = Len(its)
          /\ Neat(cs) => /\ \A i \in 1 .. Len(its) : Turned(its[i], back[i])
                         /\ Whole(back, -1)
      BY <1>1, <2>4, <2>6, <2>9, SwitchAllFits
    <3> HIDE DEF back
    <3>3. new \in Copies /\ new.items = back /\ new.switch = -1 /\ new.time = cs.time + k
      BY <2>8, <3>1, <3>2 DEF Copies
    <3>4. Neat(cs) => \A i \in 1 .. Len(old) : Moved(old[i], back[i], k)
      BY <2>4, <2>5, <3>2 DEF Moved, Turned
    <3>5. Neat(cs) => \A i \in 1 .. Len(old) : back[i] # NoItem => ~UsedUp(back[i])
      BY <2>4, <2>7, <3>2 DEF Turned, UsedUp
    <3> QED BY <1>4, <2>4, <3>2, <3>3, <3>4, <3>5 DEF Neat, new
  <2>10. CASE ~(sw >= 0 /\ ~(sw > k))
    <3>1. PICK x \in Int : /\ new = [time |-> cs.time + k, switch |-> x, items |-> its]
                           /\ x < 0 <=> sw < 0
      BY <1>1, <1>4, <2>2, <2>10
    <3>2. new \in Copies /\ new.items = its /\ new.switch = x /\ new.time = cs.time + k
      BY <2>4, <2>8, <3>1 DEF Copies
    <3>3. Neat(cs) => Whole(its, x) BY <2>6, <3>1 DEF Whole
    <3> QED BY <1>4, <2>4, <2>5, <2>7, <3>2, <3>3 DEF Neat, new
  <2> QED BY <2>9, <2>10
<1> QED BY <1>3, <1>4

LEMMA SlotFacts ==
  ASSUME NEW it \in Slot
  PROVE  /\ it = NoItem \/ it \in Item
         /\ it # NoItem => it.ttr \in Int /\ it.uses \in Int
         /\ Left(it) \in Slot
         /\ Left(it) = NoItem <=> (it = NoItem \/ it.uses = 0)
         /\ Left(it) # NoItem => Left(it) = it
BY ItemFields, ItemIsThere DEF Slot, Left, UsedUp

\* Neither side knows an item by its switched type.
LEMMA SameTurned ==
  ASSUME NEW a \in Slot, NEW b \in Slot, NEW c, NEW d,
         SameItem(a, Left(b)), Turned(a, c), Turned(b, d)
  PROVE  SameItem(c, Left(d))
<1>1. CASE b = NoItem \/ b.uses = 0
  <2>1. Left(b) = NoItem /\ a = NoItem BY <1>1, SlotFacts DEF SameItem
  <2>2. c = NoItem /\ (d = NoItem \/ d.uses = 0) BY <1>1, <2>1 DEF Turned
  <2>3. Left(d) = NoItem BY <2>2 DEF Left, UsedUp
  <2> QED BY <2>2, <2>3 DEF SameItem
<1>2. CASE ~(b = NoItem \/ b.uses = 0)
  <2>1. Left(b) = b /\ b # NoItem /\ a # NoItem BY <1>2, SlotFacts DEF SameItem
  <2>2. c \in Item /\ d \in Item /\ c # NoItem /\ d # NoItem
    BY <2>1, ItemIsThere DEF Turned
  <2>3. /\ Base(c) = Base(a) /\ c.uses = a.uses /\ c.ttr = a.ttr
        /\ Base(d) = Base(b) /\ d.uses = b.uses /\ d.ttr = b.ttr
    BY <2>1 DEF Turned
  <2>4. Left(d) = d BY <1>2, <2>3 DEF Left, UsedUp
  <2>5. /\ Base(a) = Base(b) /\ a.uses = b.uses
        /\ Available(a) <=> Available(b)
        /\ ~Available(a) => a.ttr = b.ttr
    BY <2>1 DEF SameItem
  <2>6. (Available(c) <=> Available(a)) /\ (Available(d) <=> Available(b))
    BY <2>3 DEF Available, UsedUp
  <2> QED BY <2>2, <2>3, <2>4, <2>5, <2>6 DEF SameItem
<1> QED BY <1>1, <1>2

\* One iteration of the loop of ItemManager::update
Ticked(it) == LET a == Aged(it, 1) IN IF UsedUp(a) THEN NoItem ELSE a

LEMMA SameTicked ==
  ASSUME NEW a \in Slot, NEW b \in Slot, NEW k \in Nat, NEW c, NEW d,
         Moved(a, c, k), Moved(a, d, k + 1), SameItem(c, Left(b))
  PROVE  LET new == IF b = NoItem THEN NoItem ELSE Ticked(b) IN
         /\ new \in Slot /\ Left(new) = new /\ SameItem(d, new)
<1> DEFINE new == IF b = NoItem THEN NoItem ELSE Ticked(b)
<1>1. CASE b = NoItem \/ b.uses = 0
  <2>1. new = NoItem
    <3>1. CASE b = NoItem BY <3>1
    <3>2. CASE b \in Item /\ b.uses = 0
      <4>1. Aged(b, 1).uses = b.uses
        <5>1. b \in Item /\ 1 \in Int BY <3>2
        <5> QED BY <5>1, Aging
      <4>2. Aged(b, 1).uses = 0 BY <3>2, <4>1
      <4> QED BY <4>2 DEF Ticked, UsedUp
    <3> QED BY <1>1, <3>1, <3>2, SlotFacts
  <2>2. c = NoItem BY <1>1, SlotFacts DEF SameItem
  <2>3. a = NoItem BY <2>2, ItemIsThere DEF Moved
  <2>4. d = NoItem BY <2>3 DEF Moved
  <2>5. NoItem \in Slot /\ Left(NoItem) = NoItem /\ SameItem(NoItem, NoItem)
    BY DEF Slot, Left, SameItem
  <2> HIDE DEF new
  <2>6. new \in Slot /\ Left(new) = new /\ SameItem(d, new) BY <2>1, <2>4, <2>5
  <2> QED BY <2>6 DEF new
<1>2. CASE ~(b = NoItem \/ b.uses = 0)
  <2> DEFINE g == Aged(b, 1)
  <2>1. b \in Item /\ b # NoItem /\ Left(b) = b /\ b.uses # 0 BY <1>2, SlotFacts
  <2>2. /\ g \in Item /\ Base(g) = Base(b) /\ g.uses = b.uses
        /\ g.ttr = IF b.ttr > 0 THEN b.ttr - 1 ELSE b.ttr
    BY <2>1, Aging
  <2> HIDE DEF g
  <2>3. ~UsedUp(g) /\ g # NoItem BY <2>1, <2>2, ItemIsThere DEF UsedUp
  <2>4. new = g BY <2>1, <2>3 DEF Ticked, g
  <2>5. new \in Slot /\ Left(new) = new
    <3>1. g \in Slot /\ Left(g) = g BY <2>2, <2>3 DEF Slot, Left
    <3> HIDE DEF new
    <3> QED BY <2>4, <3>1
  <2>6. c # NoItem BY <2>1 DEF SameItem
  <2>7. a # NoItem BY <2>6 DEF Moved
  <2>8. /\ a \in Item /\ a.ttr \in Int /\ b.ttr \in Int /\ d \in Item /\ d # NoItem
        /\ c.ttr = IF k > 0 /\ a.ttr > 0 THEN a.ttr - k ELSE a.ttr
        /\ d.ttr = IF k + 1 > 0 /\ a.ttr > 0 THEN a.ttr - (k + 1) ELSE a.ttr
        /\ Base(c) = Base(a) /\ Base(d) = Base(a) /\ c.uses = a.uses /\ d.uses = a.uses
    BY <2>1, <2>7, SlotFacts, ItemIsThere DEF Moved
  <2>9. /\ Base(c) = Base(b) /\ c.uses = b.uses /\ (Available(c) <=> Available(b))
        /\ ~Available(c) => c.ttr = b.ttr
    BY <2>1, <2>6 DEF SameItem
  <2>10. (c.ttr <= 0 <=> b.ttr <= 0) /\ (~(c.ttr <= 0) => c.ttr = b.ttr)
    BY <2>1, <2>9 DEF Available, UsedUp
  <2> DEFINE u == a.ttr
             v == b.ttr
             w == c.ttr
             x == d.ttr
             y == g.ttr
  <2>11. (x <= 0 <=> y <= 0) /\ (~(x <= 0) => x = y)
    <3>1. /\ u \in Int /\ v \in Int
          /\ w = IF k > 0 /\ u > 0 THEN u - k ELSE u
          /\ x = IF k + 1 > 0 /\ u > 0 THEN u - (k + 1) ELSE u
          /\ y = IF v > 0 THEN v - 1 ELSE v
          /\ (w <= 0 <=> v <= 0) /\ (~(w <= 0) => w = v)
      BY <2>2, <2>8, <2>10
    <3> HIDE DEF u, v, w, x, y
    <3> QED BY <3>1
  <2>12. SameItem(d, g)
    <3>1. d.uses = g.uses /\ g.uses # 0 /\ Base(d) = Base(g)
      BY <2>1, <2>2, <2>8, <2>9
    <3>2. (Available(d) <=> Available(g)) /\ (~Available(d) => d.ttr = g.ttr)
      BY <2>11, <3>1 DEF Available, UsedUp
    <3> QED BY <2>3, <2>8, <3>1, <3>2 DEF SameItem
  <2> HIDE DEF new
  <2>13. new \in Slot /\ Left(new) = new /\ SameItem(d, new) BY <2>4, <2>5, <2>12
  <2> QED BY <2>13 DEF new
<1> QED BY <1>1, <1>2

LEMMA Collecting ==
  ASSUME NEW x \in Item, NEW t \in Int
  PROVE  LET y == [Collected(x) EXCEPT !.ttr = t] IN
         /\ y \in Item /\ Base(y) = Base(x) /\ y.original = x.original /\ y.ttr = t
         /\ y.uses = IF x.uses > 0 THEN x.uses - 1 ELSE x.uses
<1>1. x.uses \in Int /\ x.ttr \in Int BY ItemFields
<1>2. CASE x.uses > 0
  <2> DEFINE u == x.uses - 1
             y == [x EXCEPT !.uses = u, !.ttr = t]
  <2>1. [Collected(x) EXCEPT !.ttr = t] = y BY <1>2 DEF Collected, Item
  <2>2. u \in Int BY <1>1
  <2> HIDE DEF u
  <2>3. /\ y \in Item /\ y.type = x.type /\ y.original = x.original
        /\ y.uses = u /\ y.ttr = t
    BY <2>2 DEF Item
  <2>4. Base(y) = Base(x) BY <2>3 DEF Base
  <2> HIDE DEF y
  <2> QED BY <1>2, <2>1, <2>3, <2>4 DEF u
<1>3. CASE ~(x.uses > 0)
  <2>1. [Collected(x) EXCEPT !.ttr = t] = [x EXCEPT !.ttr = t]
    BY <1>3 DEF Collected, Item
  <2> QED BY <1>1, <1>3, <2>1 DEF Item, Base
<1> QED BY <1>2, <1>3

\* An item that is available to the server is there for the client too.
LEMMA SameTaken ==
  ASSUME NEW a \in Slot, NEW b \in Item, NEW t \in Int, SameItem(a, Left(b)), Available(b)
  PROVE  LET new == [Collected(b) EXCEPT !.ttr = t] IN
         /\ a # NoItem /\ new \in Item /\ Taken(a, t) \in Slot
         /\ Left(Taken(a, t)) = Taken(a, t)
         /\ SameItem(Taken(a, t), Left(new))
         /\ Taken(a, t) # NoItem => Taken(a, t).original = a.original
<1> DEFINE new == [Collected(b) EXCEPT !.ttr = t]
           own == [Collected(a) EXCEPT !.ttr = t]
<1>1. b # NoItem /\ b.uses # 0 /\ Left(b) = b
  BY ItemIsThere DEF Available, UsedUp, Left
<1>2. a # NoItem /\ Base(a) = Base(b) /\ a.uses = b.uses
  BY <1>1 DEF SameItem
<1>3. a \in Item BY <1>2 DEF Slot
<1>5. /\ new \in Item /\ own \in Item /\ new # NoItem /\ own # NoItem
      /\ Base(new) = Base(own) /\ new.ttr = t /\ own.ttr = t /\ new.uses = own.uses
      /\ own.original = a.original
  BY <1>2, <1>3, Collecting, ItemIsThere
<1>6. Taken(a, t) = IF UsedUp(own) THEN NoItem ELSE own BY <1>2 DEF Taken
<1> HIDE DEF new, own
<1>7. CASE UsedUp(own)
  <2>1. Taken(a, t) = NoItem /\ Left(new) = NoItem
    BY <1>5, <1>6, <1>7 DEF UsedUp, Left
  <2>2. NoItem \in Slot /\ Left(NoItem) = NoItem /\ SameItem(NoItem, NoItem)
    BY DEF Slot, Left, SameItem
  <2> QED BY <1>2, <1>5, <2>1, <2>2 DEF new
<1>8. CASE ~UsedUp(own)
  <2>1. Taken(a, t) = own /\ Left(new) = new /\ Left(own) = own
    BY <1>5, <1>6, <1>8 DEF UsedUp, Left
  <2>2. SameItem(own, new)
    BY <1>5 DEF SameItem, Available, UsedUp
  <2> QED BY <1>2, <1>5, <2>1, <2>2 DEF Slot, new
<1> QED BY <1>7, <1>8

LEMMA SameDropped ==
  ASSUME NEW x \in Int, NEW y \in Int
  PROVE  /\ Dropped(x) \in Item /\ Left(Dropped(x)) = Dropped(x)
         /\ Dropped(x).original = "none" <=> x < 0
         /\ SameItem(Dropped(x), Left(Dropped(y)))
<1> DEFINE gum == NewItem("gum")
<1>1. gum \in Item /\ gum.uses = 1 /\ gum.ttr = 0 /\ gum.original = "none"
  BY Kinds DEF NewItem, Item
<1> HIDE DEF gum
<1>2. ASSUME NEW z \in Int
      PROVE  /\ Dropped(z) \in Item /\ Dropped(z).uses = 1 /\ Dropped(z).ttr = 0
             /\ Base(Dropped(z)) = Base(gum) /\ (Dropped(z).original = "none" <=> z < 0)
  <2>1. CASE z >= 0
    <3>1. Dropped(z) = SwitchOn(gum) BY <2>1 DEF Dropped, gum
    <3>2. gum # NoItem BY <1>1, ItemIsThere
    <3> QED BY <1>1, <2>1, <3>1, <3>2, Switching DEF Turned
  <2>2. CASE ~(z >= 0)
    <3>1. Dropped(z) = gum BY <2>2 DEF Dropped, gum
    <3> QED BY <1>1, <2>2, <3>1
  <2> QED BY <2>1, <2>2
<1>3. \A z \in Int : Left(Dropped(z)) = Dropped(z) /\ Dropped(z) # NoItem
  BY <1>2, ItemIsThere DEF Left, UsedUp
<1>4. SameItem(Dropped(x), Dropped(y))
  BY <1>2, <1>3 DEF SameItem, Available, UsedUp
<1> QED BY <1>2, <1>3, <1>4

\* Lists with l places, one of which is the i-th
Longer(i, l) == IF i > l THEN i ELSE l
HasPut(its, i, it, new) ==
  /\ new \in Seq(Slot) /\ Len(new) = Longer(i, Len(its))
  /\ \A j \in 1 .. Len(new) : new[j] = IF j = i THEN it
                                      ELSE IF j <= Len(its) THEN its[j] ELSE NoItem

LEMMA PutFits ==
  ASSUME NEW its \in Seq(Slot), NEW i \in Nat, NEW it \in Item
  PROVE  HasPut(its, i, it, Put(its, i, it))
<1> DEFINE new == Put(its, i, it)
           n == IF i > Len(its) THEN i ELSE Len(its)
<1>1. Len(its) \in Nat /\ \A j \in 1 .. Len(its) : its[j] \in Slot BY DEF Slot
<1>2. n \in Nat BY <1>1
<1>3. new = [j \in 1 .. n |-> IF j = i THEN it
                              ELSE IF j <= Len(its) THEN its[j] ELSE NoItem]
  BY DEF Put
<1>4. \A j \in 1 .. n : new[j] \in Slot BY <1>1, <1>3 DEF Slot
<1>5. \A j \in 1 .. n : new[j] = IF j = i THEN it
                                 ELSE IF j <= Len(its) THEN its[j] ELSE NoItem
  BY <1>3
<1>6. new = [j \in 1 .. n |-> new[j]] BY <1>3
<1> HIDE DEF new, n
<1>7. new \in Seq(Slot) /\ Len(new) = n BY <1>2, <1>4, <1>6
<1>8. n = Longer(i, Len(its)) BY DEF n, Longer
<1>9. HasPut(its, i, it, new) BY <1>5, <1>7, <1>8 DEF HasPut
<1> QED BY <1>9 DEF new

-----------------------------------------------------------------------------
(* A copy that is brought up to the tick of the server                     *)

Events == [kind : {"collect", "new", "switch"}, ticks : Nat, index : Nat, ttr : Int,
           n : Nat]

\* The assertions of restoreState for one event
Holds(e, its) ==
  /\ e.kind = "collect" => e.index \in DOMAIN its /\ its[e.index] # NoItem
  /\ e.kind = "new" => (e.index \in DOMAIN its => its[e.index] = NoItem)

\* At the tick T, brought up to which the copy cs is like the items its
Meets(cs, T, its) ==
  /\ cs \in Copies /\ Neat(cs) /\ cs.time <= T
  /\ Alike(Forward(cs, T - cs.time).items, its)

LEMMA MeetsAt ==
  ASSUME NEW T \in Nat, NEW its \in Seq(Slot), NEW cs, Meets(cs, T, its)
  PROVE  LET at == Forward(cs, T - cs.time) IN
         /\ at \in Copies /\ Neat(at) /\ at.time = T /\ Len(at.items) = Len(its)
         /\ Len(cs.items) = Len(its) /\ T - cs.time \in Nat
         /\ \A i \in 1 .. Len(its) :
              /\ Moved(cs.items[i], at.items[i], T - cs.time)
              /\ SameItem(at.items[i], Left(its[i]))
              /\ at.items[i] \in Slot /\ cs.items[i] \in Slot /\ its[i] \in Slot
<1> DEFINE k == T - cs.time
           at == Forward(cs, k)
<1>1. cs \in Copies /\ Neat(cs) /\ cs.time \in Nat /\ k \in Nat /\ Alike(at.items, its)
  BY DEF Meets, Copies
<1>2. /\ at \in Copies /\ Neat(at) /\ Len(at.items) = Len(cs.items)
      /\ at.time = (IF k > 0 THEN cs.time + k ELSE cs.time)
      /\ \A i \in 1 .. Len(cs.items) : Moved(cs.items[i], at.items[i], k)
  <2>1. k \in Int BY <1>1
  <2> HIDE DEF k
  <2>2. /\ at \in Copies /\ Len(at.items) = Len(cs.items)
        /\ at.time = (IF k > 0 THEN cs.time + k ELSE cs.time)
    BY <1>1, <2>1, ForwardFits
  <2>3. Neat(at) /\ \A i \in 1 .. Len(cs.items) : Moved(cs.items[i], at.items[i], k)
    BY <1>1, <2>1, ForwardFits
  <2> QED BY <2>2, <2>3
<1>3. at.time = T BY <1>1, <1>2
<1> HIDE DEF at, k
<1>4. /\ Len(at.items) = Len(its)
      /\ \A i \in 1 .. Len(its) : SameItem(at.items[i], Left(its[i]))
  BY <1>1 DEF Alike
<1>5. at.items \in Seq(Slot) /\ cs.items \in Seq(Slot) BY <1>1, <1>2 DEF Copies
<1>6. \A i \in 1 .. Len(its) :
        at.items[i] \in Slot /\ cs.items[i] \in Slot /\ its[i] \in Slot
  <2>1. \A s \in Seq(Slot) : \A i \in 1 .. Len(s) : s[i] \in Slot OBVIOUS
  <2> QED BY <1>2, <1>4, <1>5, <2>1
<1> QED BY <1>1, <1>2, <1>3, <1>4, <1>6 DEF at, k

\* What is at the tick T needs no time to get there.
LEMMA MeetsNow ==
  ASSUME NEW T \in Nat, NEW its, NEW cs \in Copies, Neat(cs), cs.time = T,
         Alike(cs.items, its)
  PROVE  Meets(cs, T, its)
<1>1. T - cs.time = 0 BY DEF Copies
<1>2. Forward(cs, 0) = cs BY DEF Forward
<1> QED BY <1>1, <1>2 DEF Meets

\* The server goes on by a tick; it may switch the items back.
LEMMA MeetsNext ==
  ASSUME NEW T \in Nat, NEW its \in Seq(Slot), NEW cs, Meets(cs, T, its),
         NEW back \in Seq(Slot), Len(back) = Len(its),
         \A i \in 1 .. Len(its) : Turned(its[i], back[i])
  PROVE  Meets(cs, T + 1, [i \in 1 .. Len(its) |->
                             IF back[i] = NoItem THEN NoItem ELSE Ticked(back[i])])
<1> DEFINE k == T - cs.time
           at == Forward(cs, k)
           up == Forward(cs, k + 1)
           l == Len(its)
           New(b) == IF b = NoItem THEN NoItem ELSE Ticked(b)
           new == [i \in 1 .. l |-> New(back[i])]
<1>1. /\ k \in Nat /\ cs \in Copies /\ Neat(cs) /\ l \in Nat
      /\ Len(cs.items) = l
      /\ \A i \in 1 .. l : /\ Moved(cs.items[i], at.items[i], k)
                           /\ SameItem(at.items[i], Left(its[i]))
                           /\ at.items[i] \in Slot /\ cs.items[i] \in Slot
                           /\ its[i] \in Slot /\ back[i] \in Slot
  BY MeetsAt DEF Meets
<1>2. Len(up.items) = l /\ \A i \in 1 .. l : Moved(cs.items[i], up.items[i], k + 1)
  <2>1. k + 1 \in Int BY <1>1
  <2> HIDE DEF k
  <2> QED BY <1>1, <2>1, ForwardFits
<1> HIDE DEF k, at, up
<1>3. ASSUME NEW i \in 1 .. l
      PROVE  New(back[i]) \in Slot /\ SameItem(up.items[i], Left(New(back[i])))
  <2>1. SameItem(at.items[i], Left(back[i]))
    <3>1. Turned(its[i], back[i]) OBVIOUS
    <3>2. Turned(at.items[i], at.items[i]) BY <1>1 DEF Turned, Slot
    <3> QED BY <1>1, <3>1, <3>2, SameTurned
  <2> DEFINE a == cs.items[i]
             b == back[i]
             c == at.items[i]
             d == up.items[i]
  <2>2. a \in Slot /\ b \in Slot /\ Moved(a, c, k) /\ Moved(a, d, k + 1) /\ SameItem(c, Left(b))
    BY <1>1, <1>2, <2>1
  <2> HIDE DEF a, b, c, d
  <2>3. New(b) \in Slot /\ Left(New(b)) = New(b) /\ SameItem(d, New(b))
    BY <1>1, <2>2, SameTicked
  <2> HIDE DEF New
  <2>4. New(b) \in Slot /\ SameItem(d, Left(New(b))) BY <2>3
  <2> QED BY <2>4 DEF b, d
<1>4. Len(new) = l /\ \A i \in 1 .. l : new[i] = New(back[i])
  <2> HIDE DEF New, l
  <2> QED BY <1>1
<1> HIDE DEF new, New, l
<1>5. Alike(up.items, new) BY <1>2, <1>3, <1>4 DEF Alike
<1>6. cs.time \in Nat /\ cs.time <= T BY <1>1 DEF Meets, Copies
<1>7. (T + 1) - cs.time = k + 1 BY <1>6 DEF k
<1>8. Meets(cs, T + 1, new)
  <2>1. Alike(Forward(cs, (T + 1) - cs.time).items, new) BY <1>5, <1>7 DEF up
  <2>2. cs.time <= T + 1 BY <1>6
  <2> QED BY <1>1, <2>1, <2>2 DEF Meets
<1> QED BY <1>8 DEF new, New, l

\* A copy is typed whatever the events are.
LEMMA ReplayedFits ==
  ASSUME NEW cs \in Copies, NEW e \in Events
  PROVE  Replayed(cs, e) \in Copies
<1> DEFINE at == Forward(cs, e.ticks - cs.time)
<1>1. at \in Copies
  <2>1. e.ticks - cs.time \in Int BY DEF Copies, Events
  <2> QED BY <2>1, ForwardFits
<1>2. /\ at.items \in Seq(Slot) /\ at.switch \in Int
      /\ e.index \in Nat /\ e.ttr \in Int /\ e.kind \in {"collect", "new", "switch"}
  BY <1>1 DEF Copies, Events
<1>3. CASE IsPast(e, cs.time) BY <1>3 DEF Replayed
<1>4. CASE ~IsPast(e, cs.time) /\ e.kind = "collect"
  <2> DEFINE i == e.index
             x == Taken(at.items[i], e.ttr)
             its == [at.items EXCEPT ![i] = x]
  <2>1. Replayed(cs, e) = [at EXCEPT !.items = its]
    BY <1>1, <1>4 DEF Replayed, Copies
  <2>2. its \in Seq(Slot)
    <3>1. CASE i \in DOMAIN at.items
      <4>1. at.items[i] = NoItem \/ at.items[i] \in Item BY <1>2, <3>1, SlotsOf
      <4>2. ASSUME at.items[i] \in Item
            PROVE  [Collected(at.items[i]) EXCEPT !.ttr = e.ttr] \in Item
        BY <1>2, <4>2, Collecting
      <4>3. x \in Slot BY <4>1, <4>2 DEF Taken, Slot
      <4> HIDE DEF x, at
      <4> QED BY <1>2, <3>1, <4>3
    <3>2. CASE i \notin DOMAIN at.items
      <4> HIDE DEF x, at
      <4>1. its = at.items BY <1>2, <3>2
      <4> QED BY <1>2, <4>1
    <3> QED BY <3>1, <3>2
  <2> HIDE DEF its, at
  <2> QED BY <1>1, <2>1, <2>2 DEF Copies
<1>5. CASE ~IsPast(e, cs.time) /\ e.kind = "new"
  <2> DEFINE its == Put(at.items, e.index, Dropped(at.switch))
  <2>1. Replayed(cs, e) = [at EXCEPT !.items = its]
    BY <1>5 DEF Replayed
  <2>2. its \in Seq(Slot)
    <3>1. Dropped(at.switch) \in Item BY <1>2, SameDropped
    <3> HIDE DEF at
    <3>2. HasPut(at.items, e.index, Dropped(at.switch), its)
      <4> HIDE DEF its
      <4> QED BY <1>2, <3>1, PutFits DEF its
    <3> QED BY <3>2 DEF HasPut
  <2> HIDE DEF its, at
  <2> QED BY <1>1, <2>1, <2>2 DEF Copies
<1>6. CASE ~IsPast(e, cs.time) /\ e.kind = "switch"
  <2> DEFINE its == SwitchAll(at.items, at.switch)
             sw == SwitchedTicks(at.switch)
  <2>1. Replayed(cs, e) = [at EXCEPT !.items = its, !.switch = sw]
    BY <1>6 DEF Replayed
  <2>2. its \in Seq(Slot) BY <1>2, SwitchAllFits
  <2>3. sw \in Int BY ConstAssumption DEF SwitchedTicks
  <2> HIDE DEF its, at, sw
  <2> QED BY <1>1, <2>1, <2>2, <2>3 DEF Copies
<1> QED BY <1>2, <1>3, <1>4, <1>5, <1>6

\* A kart collects an item.
LEMMA MeetsCollect ==
  ASSUME NEW T \in Nat, NEW its \in Seq(Slot), NEW cs, Meets(cs, T, its),
         NEW e \in Events, e.kind = "collect", e.ticks = T,
         e.index \in 1 .. Len(its), its[e.index] # NoItem, Available(its[e.index])
  PROVE  LET new == [its EXCEPT ![e.index] = [Collected(its[e.index]) EXCEPT !.ttr = e.ttr]]
         IN  new \in Seq(Slot) /\ Holds(e, cs.items) /\ Meets(Replayed(cs, e), T, new)
<1> DEFINE at == Forward(cs, T - cs.time)
           k == T - cs.time
           i == e.index
           b == its[i]
           c == [Collected(b) EXCEPT !.ttr = e.ttr]
           new == [its EXCEPT ![i] = c]
           a == Taken(at.items[i], e.ttr)
           own == [at.items EXCEPT ![i] = a]
           r == [at EXCEPT !.items = own]
<1>1. /\ at \in Copies /\ Neat(at) /\ at.time = T /\ Len(at.items) = Len(its)
      /\ Len(cs.items) = Len(its) /\ k \in Nat /\ cs.time <= T /\ cs \in Copies
      /\ \A j \in 1 .. Len(its) :
           /\ Moved(cs.items[j], at.items[j], k)
           /\ SameItem(at.items[j], Left(its[j]))
           /\ at.items[j] \in Slot /\ cs.items[j] \in Slot /\ its[j] \in Slot
  <2>1. cs.time <= T /\ cs \in Copies BY DEF Meets
  <2> QED BY <2>1, MeetsAt
<1>2. i \in 1 .. Len(its) /\ b \in Item /\ e.ttr \in Int /\ Available(b)
  BY <1>1 DEF Slot, Events
<1>3. /\ at.items[i] # NoItem /\ c \in Item /\ a \in Slot /\ Left(a) = a
      /\ SameItem(a, Left(c)) /\ (a # NoItem => a.original = at.items[i].original)
  BY <1>1, <1>2, SameTaken
<1>4. at.items \in Seq(Slot) /\ cs.items \in Seq(Slot) /\ at.switch \in Int
  BY <1>1 DEF Copies
<1>5. Holds(e, cs.items)
  <2>1. cs.items[i] # NoItem BY <1>1, <1>2, <1>3 DEF Moved
  <2> QED BY <1>1, <1>2, <1>4, <2>1 DEF Holds
<1>6. Replayed(cs, e) = r
  <2>1. ~IsPast(e, cs.time) BY <1>1 DEF IsPast, Copies
  <2> QED BY <2>1 DEF Replayed
<1> HIDE DEF at, b, c, a, i
<1>7. new \in Seq(Slot) /\ Len(new) = Len(its) /\ own \in Seq(Slot) /\ Len(own) = Len(its)
      /\ \A j \in 1 .. Len(its) : /\ new[j] = IF j = i THEN c ELSE its[j]
                                  /\ own[j] = IF j = i THEN a ELSE at.items[j]
  <2>1. c \in Slot BY <1>3 DEF Slot
  <2> QED BY <1>1, <1>2, <1>3, <1>4, <2>1
<1> HIDE DEF own, new
<1>8. r \in Copies /\ r.items = own /\ r.time = T /\ r.switch = at.switch
  BY <1>1, <1>7 DEF Copies
<1> HIDE DEF r
<1>9. Alike(own, new) BY <1>1, <1>3, <1>7 DEF Alike
<1>10. Neat(r)
  <2>1. \A j \in 1 .. Len(own) : own[j] # NoItem => ~UsedUp(own[j])
    BY <1>1, <1>3, <1>7, ItemIsThere DEF Neat, Left
  <2>2. Whole(own, at.switch) BY <1>1, <1>3, <1>7 DEF Neat, Whole
  <2> QED BY <1>8, <2>1, <2>2 DEF Neat
<1>11. Meets(r, T, new) BY <1>8, <1>9, <1>10, MeetsNow
<1> QED BY <1>5, <1>6, <1>7, <1>11 DEF new, c, i, b

\* The place of a new item is free on the server.
LEMMA FreeIndexFits ==
  ASSUME NEW its \in Seq(Slot)
  PROVE  LET i == FreeIndex(its) IN
         \/ i \in 1 .. Len(its) /\ its[i] = NoItem
         \/ i = Len(its) + 1
<1> DEFINE free == {i \in DOMAIN its : its[i] = NoItem}
           n == Len(its)
<1>1. n \in Nat /\ DOMAIN its = 1 .. n OBVIOUS
<1>2. CASE free = {} BY <1>2 DEF FreeIndex
<1>3. CASE free # {}
  <2> DEFINE T == {n - i : i \in free}
             Top(i) == \A j \in free : j <= i
  <2>1. T \subseteq Nat /\ T # {} /\ free \subseteq 1 .. n BY <1>1, <1>3
  <2>2. PICK m \in T : \A x \in T : m <= x
    <3> HIDE DEF T
    <3> QED BY <2>1, LeastOfNats
  <2>3. PICK i \in free : m = n - i OBVIOUS
  <2>4. Top(i)
    <3> SUFFICES ASSUME NEW j \in free PROVE j <= i OBVIOUS
    <3>1. m <= n - j /\ i \in 1 .. n /\ j \in 1 .. n BY <2>1, <2>2
    <3> QED BY <1>1, <2>3, <3>1
  <2>5. FreeIndex(its) = CHOOSE x \in free : Top(x) BY <1>3 DEF FreeIndex
  <2> HIDE DEF free, Top
  <2>6. FreeIndex(its) \in free BY <2>4, <2>5
  <2> QED BY <1>1, <2>6 DEF free
<1> QED BY <1>2, <1>3

\* A kart drops an item.
LEMMA MeetsNew ==
  ASSUME NEW T \in Nat, NEW its \in Seq(Slot), NEW cs, Meets(cs, T, its), NEW sw \in Int,
         NEW e \in Events, e.kind = "new", e.ticks = T, e.index = FreeIndex(its)
  PROVE  LET new == Put(its, e.index, Dropped(sw))
         IN  new \in Seq(Slot) /\ Holds(e, cs.items) /\ Meets(Replayed(cs, e), T, new)
<1> DEFINE at == Forward(cs, T - cs.time)
           k == T - cs.time
           i == e.index
           c == Dropped(sw)
           a == Dropped(at.switch)
           new == Put(its, i, c)
           own == Put(at.items, i, a)
           r == [at EXCEPT !.items = own]
           l == Len(its)
           n == Longer(i, l)
<1>1. /\ at \in Copies /\ Neat(at) /\ at.time = T /\ Len(at.items) = l
      /\ Len(cs.items) = l /\ k \in Nat /\ cs.time <= T /\ cs \in Copies
      /\ \A j \in 1 .. l :
           /\ Moved(cs.items[j], at.items[j], k)
           /\ SameItem(at.items[j], Left(its[j]))
           /\ at.items[j] \in Slot /\ cs.items[j] \in Slot /\ its[j] \in Slot
  <2>1. cs.time <= T /\ cs \in Copies BY DEF Meets
  <2>2. LET f == Forward(cs, T - cs.time) IN
        /\ f \in Copies /\ Neat(f) /\ f.time = T /\ Len(f.items) = Len(its)
        /\ Len(cs.items) = Len(its) /\ T - cs.time \in Nat
        /\ \A j \in 1 .. Len(its) :
             /\ Moved(cs.items[j], f.items[j], T - cs.time)
             /\ SameItem(f.items[j], Left(its[j]))
             /\ f.items[j] \in Slot /\ cs.items[j] \in Slot /\ its[j] \in Slot
    BY MeetsAt, Zenon
  <2> QED BY <2>1, <2>2, Zenon
<1>2. i \in Nat /\ l \in Nat /\ ((i \in 1 .. l /\ its[i] = NoItem) \/ i = l + 1)
  BY FreeIndexFits DEF Events
<1>3. at.items \in Seq(Slot) /\ cs.items \in Seq(Slot) /\ at.switch \in Int
  BY <1>1 DEF Copies
<1>4. /\ a \in Item /\ c \in Item /\ Left(a) = a /\ SameItem(a, Left(c))
      /\ (a.original = "none" <=> at.switch < 0)
  BY <1>3, SameDropped
<1>5. Holds(e, cs.items)
  <2>1. CASE i \in 1 .. l /\ its[i] = NoItem
    <3>1. Left(its[i]) = NoItem BY <2>1 DEF Left
    <3>2. at.items[i] = NoItem BY <1>1, <2>1, <3>1 DEF SameItem
    <3>3. cs.items[i] = NoItem BY <1>1, <2>1, <3>2, ItemIsThere DEF Moved
    <3> QED BY <3>3 DEF Holds
  <2>2. CASE i = l + 1
    <3>1. DOMAIN cs.items = 1 .. l BY <1>1, <1>3, SlotsOf
    <3>2. i \notin 1 .. l BY <1>2, <2>2
    <3> QED BY <3>1, <3>2 DEF Holds
  <2> QED BY <1>2, <2>1, <2>2
<1>6. Replayed(cs, e) = r
  <2>1. ~IsPast(e, cs.time) BY <1>1 DEF IsPast, Copies
  <2> QED BY <2>1 DEF Replayed
<1> HIDE DEF at, c, a, i, k, l
<1>7. /\ new \in Seq(Slot) /\ Len(new) = n
      /\ \A j \in 1 .. n : new[j] = IF j = i THEN c ELSE IF j <= l THEN its[j] ELSE NoItem
  <2>1. HasPut(its, i, c, new)
    <3> HIDE DEF new
    <3> QED BY <1>2, <1>4, PutFits DEF new
  <2> HIDE DEF new
  <2> QED BY <2>1 DEF l, HasPut
<1>8. /\ own \in Seq(Slot) /\ Len(own) = n
      /\ \A j \in 1 .. n : own[j] = IF j = i THEN a ELSE IF j <= l THEN at.items[j] ELSE NoItem
  <2>1. HasPut(at.items, i, a, own)
    <3> HIDE DEF own
    <3> QED BY <1>2, <1>3, <1>4, PutFits DEF own
  <2> HIDE DEF own
  <2> QED BY <1>1, <2>1 DEF HasPut
<1>9. n \in Nat /\ \A j \in 1 .. n : j # i => j \in 1 .. l /\ j <= l
  BY <1>2 DEF Longer
<1> HIDE DEF own, new, n
<1>10. r \in Copies /\ r.items = own /\ r.time = T /\ r.switch = at.switch
  BY <1>1, <1>8 DEF Copies
<1> HIDE DEF r
<1>11. Alike(own, new) BY <1>1, <1>4, <1>7, <1>8, <1>9 DEF Alike
<1>12. Neat(r)
  <2>1. \A j \in 1 .. n : own[j] # NoItem => ~UsedUp(own[j])
    BY <1>1, <1>4, <1>8, <1>9, ItemIsThere DEF Neat, Left
  <2>2. Whole(own, at.switch) BY <1>1, <1>4, <1>8, <1>9 DEF Neat, Whole
  <2> QED BY <1>8, <1>10, <2>1, <2>2 DEF Neat
<1>13. Meets(r, T, new) BY <1>10, <1>11, <1>12, MeetsNow
<1> QED BY <1>5, <1>6, <1>7, <1>13 DEF new, c, i

\* A kart uses the switch.
LEMMA MeetsSwitch ==
  ASSUME NEW T \in Nat, NEW its \in Seq(Slot), NEW cs, Meets(cs, T, its), NEW sw \in Int,
         Whole(its, sw), NEW e \in Events, e.kind = "switch", e.ticks = T
  PROVE  LET new == SwitchAll(its, sw)
         IN  new \in Seq(Slot) /\ Holds(e, cs.items) /\ Meets(Replayed(cs, e), T, new)
<1> DEFINE at == Forward(cs, T - cs.time)
           k == T - cs.time
           new == SwitchAll(its, sw)
           own == SwitchAll(at.items, at.switch)
           x == SwitchedTicks(at.switch)
           r == [at EXCEPT !.items = own, !.switch = x]
           l == Len(its)
<1>1. /\ at \in Copies /\ Neat(at) /\ at.time = T /\ Len(at.items) = l
      /\ Len(cs.items) = l /\ k \in Nat /\ cs.time <= T /\ cs \in Copies
      /\ \A j \in 1 .. l :
           /\ Moved(cs.items[j], at.items[j], k)
           /\ SameItem(at.items[j], Left(its[j]))
           /\ at.items[j] \in Slot /\ cs.items[j] \in Slot /\ its[j] \in Slot
  <2>1. cs.time <= T /\ cs \in Copies BY DEF Meets
  <2> QED BY <2>1, MeetsAt
<1>2. at.items \in Seq(Slot) /\ at.switch \in Int /\ Whole(at.items, at.switch)
  BY <1>1 DEF Copies, Neat
<1>3. Replayed(cs, e) = r
  <2>1. ~IsPast(e, cs.time) BY <1>1 DEF IsPast, Copies
  <2> QED BY <2>1 DEF Replayed
<1>4. Holds(e, cs.items) BY DEF Holds
<1> HIDE DEF at, k, l
<1>5. x \in Int /\ (x < 0 <=> at.switch >= 0)
  BY <1>2, ConstAssumption DEF SwitchedTicks
<1>6. new \in Seq(Slot) /\ Len(new) = l /\ \A j \in 1 .. l : Turned(its[j], new[j])
  BY SwitchAllFits DEF l
<1> HIDE DEF x
<1>7. /\ own \in Seq(Slot) /\ Len(own) = l /\ Whole(own, x)
      /\ \A j \in 1 .. l : Turned(at.items[j], own[j])
  BY <1>1, <1>2, <1>5, SwitchAllFits
<1> HIDE DEF new, own
<1>8. r \in Copies /\ r.items = own /\ r.time = T /\ r.switch = x
  BY <1>1, <1>5, <1>7 DEF Copies
<1> HIDE DEF r
<1>9. Alike(own, new) BY <1>1, <1>6, <1>7, SameTurned DEF Alike
<1>10. Neat(r)
  <2>1. \A j \in 1 .. l : own[j] # NoItem => ~UsedUp(own[j])
    BY <1>1, <1>7 DEF Neat, Turned, UsedUp
  <2> QED BY <1>7, <1>8, <2>1 DEF Neat
<1>11. Meets(r, T, new) BY <1>8, <1>9, <1>10, MeetsNow
<1> QED BY <1>3, <1>4, <1>6, <1>11 DEF new

-----------------------------------------------------------------------------
(* A copy that events are applied to                                       *)

IsCourse(cs, evs, a) ==
  /\ a[0] = cs
  /\ \A i \in 1 .. Len(evs) : a[i] = Replayed(a[i - 1], evs[i])
  /\ \A i \in 0 .. Len(evs) : a[i] \in Copies

LEMMA CourseIs ==
  ASSUME NEW cs \in Copies, NEW evs \in Seq(Events)
  PROVE  IsCourse(cs, evs, Course(cs, evs))
<1> DEFINE n == Len(evs)
           step == [x \in (1 .. n) \X Copies |-> Replayed(x[2], evs[x[1]])]
           Def(f) == f = [i \in 0 .. n |-> IF i = 0 THEN cs ELSE Replayed(f[i - 1], evs[i])]
<1>0. n \in Nat /\ \A i \in 1 .. n : evs[i] \in Events OBVIOUS
<1>1. \A i \in 1 .. n, a \in Copies : Replayed(a, evs[i]) \in Copies
  <2> HIDE DEF n
  <2> QED BY <1>0, ReplayedFits
<1>2. step \in [(1 .. n) \X Copies -> Copies]
  <2> HIDE DEF n
  <2> QED BY <1>1
<1>3. \A i \in 1 .. n, a \in Copies : step[<<i, a>>] = Replayed(a, evs[i])
  <2> HIDE DEF n
  <2> QED OBVIOUS
<1> HIDE DEF n
<1>4. PICK f : Recursion(n, Copies, cs, step, f)
  <2> HIDE DEF step
  <2>1. HasRecursion(n, Copies, cs, step) BY <1>0, <1>2, RecursionExists
  <2> QED BY <2>1 DEF HasRecursion
<1>5. \A i \in 1 .. n : f[i] = Replayed(f[i - 1], evs[i])
  <2> HIDE DEF step
  <2>1. \A i \in 1 .. n : i - 1 \in 0 .. n BY <1>0
  <2> QED BY <1>3, <1>4, <2>1 DEF Recursion
<1>6. f \in [0 .. n -> Copies] /\ f[0] = cs
  <2> HIDE DEF step
  <2> QED BY <1>4 DEF Recursion
<1>7. Def(f)
  <2>1. \A i \in 0 .. n : f[i] = IF i = 0 THEN cs ELSE Replayed(f[i - 1], evs[i])
    <3>1. \A i \in 0 .. n : i = 0 \/ i \in 1 .. n BY <1>0
    <3> QED BY <1>5, <1>6, <3>1
  <2>2. f = [i \in 0 .. n |-> f[i]] BY <1>6
  <2> QED BY <2>1, <2>2, Zenon
<1> DEFINE g == CHOOSE g : Def(g)
<1>8. Def(g)
  <2> HIDE DEF Def
  <2> QED BY <1>7
<1>9. Course(cs, evs) = g BY DEF Course, n
<1> HIDE DEF g
<1>10. g[0] = cs /\ \A i \in 1 .. n : g[i] = Replayed(g[i - 1], evs[i])
  <2>1. 0 \in 0 .. n /\ \A i \in 1 .. n : i \in 0 .. n /\ i # 0 BY <1>0
  <2>2. \A i \in 0 .. n : g[i] = IF i = 0 THEN cs ELSE Replayed(g[i - 1], evs[i])
    BY <1>8, Zenon
  <2> QED BY <2>1, <2>2
<1>11. \A i \in 0 .. n : g[i] \in Copies
  <2> DEFINE S == {i \in 0 .. n : g[i] \in Copies}
  <2>1. 0 \in S BY <1>0, <1>10
  <2>2. ASSUME NEW i \in 0 .. (n - 1), i \in S PROVE i + 1 \in S
    <3>1. i + 1 \in 1 .. n /\ (i + 1) - 1 = i BY <1>0
    <3>2. g[i + 1] = Replayed(g[i], evs[i + 1]) BY <1>10, <3>1
    <3> QED BY <1>0, <1>1, <2>2, <3>1, <3>2
  <2> HIDE DEF S
  <2>3. \A i \in 0 .. n : i \in S BY <1>0, <2>1, <2>2, UpTo
  <2> QED BY <2>3 DEF S
<1> QED BY <1>9, <1>10, <1>11 DEF IsCourse, n

\* From some copy on g follows f, of which it is k events behind.
Trails(m, k, x, f, g) ==
  /\ g[0] = f[k]
  /\ \A i \in 1 .. m : /\ g[i] = Replayed(g[i - 1], x[i])
                       /\ f[k + i] = Replayed(f[k + i - 1], x[i])

LEMMA TrailsTo ==
  ASSUME NEW m \in Nat, NEW k \in Nat, NEW x, NEW f, NEW g, Trails(m, k, x, f, g)
  PROVE  \A i \in 0 .. m : g[i] = f[k + i]
<1> DEFINE S == {i \in 0 .. m : g[i] = f[k + i]}
<1>1. 0 \in S
  <2>1. k + 0 = k OBVIOUS
  <2> QED BY <2>1 DEF Trails
<1>2. ASSUME NEW i \in 0 .. (m - 1), i \in S PROVE i + 1 \in S
  <2>1. i + 1 \in 1 .. m /\ (i + 1) - 1 = i /\ k + (i + 1) - 1 = k + i OBVIOUS
  <2>2. /\ g[i + 1] = Replayed(g[i], x[i + 1])
        /\ f[k + (i + 1)] = Replayed(f[k + i], x[i + 1])
    BY <2>1 DEF Trails
  <2> QED BY <1>2, <2>1, <2>2
<1> HIDE DEF S
<1>3. \A i \in 0 .. m : i \in S BY <1>1, <1>2, UpTo
<1> QED BY <1>3 DEF S

\* Events of the past are skipped.
LEMMA Skipping ==
  ASSUME NEW cs \in Copies, NEW evs \in Seq(Events), NEW k \in 0 .. Len(evs),
         \A i \in 1 .. k : evs[i].ticks < cs.time
  PROVE  \A i \in 0 .. k : Course(cs, evs)[i] = cs
<1> DEFINE a == Course(cs, evs)
           S == {i \in 0 .. k : a[i] = cs}
<1>1. IsCourse(cs, evs, a) BY CourseIs
<1>2. k \in Nat /\ Len(evs) \in Nat /\ k <= Len(evs) OBVIOUS
<1> HIDE DEF a
<1>3. 0 \in S BY <1>1, <1>2 DEF IsCourse
<1>4. ASSUME NEW i \in 0 .. (k - 1), i \in S PROVE i + 1 \in S
  <2>1. i + 1 \in 1 .. k /\ i + 1 \in 1 .. Len(evs) /\ (i + 1) - 1 = i BY <1>2
  <2>2. a[i + 1] = Replayed(cs, evs[i + 1]) BY <1>1, <1>4, <2>1 DEF IsCourse
  <2>3. IsPast(evs[i + 1], cs.time) BY <2>1 DEF IsPast
  <2>4. Replayed(cs, evs[i + 1]) = cs BY <2>3 DEF Replayed
  <2> QED BY <2>1, <2>2, <2>4
<1> HIDE DEF S
<1>5. \A i \in 0 .. k : i \in S BY <1>2, <1>3, <1>4, UpTo
<1> QED BY <1>5 DEF S, a

\* The events evs lead from the copy cs to the items its at the tick T, and
\* restoreState makes no wrong assertion on the way.
Follows(cs, evs, T, its) ==
  /\ Meets(Course(cs, evs)[Len(evs)], T, its)
  /\ \A i \in 1 .. Len(evs) :
       evs[i].ticks >= cs.time => Holds(evs[i], Course(cs, evs)[i - 1].items)

\* What leads to the items of the next moment
Serves(T, its, U, new) == \A x \in Copies : Meets(x, T, its) => Meets(x, U, new)
ServesBy(e, T, its, new) == \A x \in Copies :
  Meets(x, T, its) => Holds(e, x.items) /\ Meets(Replayed(x, e), T, new)

LEMMA FollowsLater ==
  ASSUME NEW cs, NEW evs, NEW T, NEW U, NEW its, NEW new,
         Follows(cs, evs, T, its), Serves(T, its, U, new)
  PROVE  Follows(cs, evs, U, new)
<1>1. Course(cs, evs)[Len(evs)] \in Copies BY DEF Follows, Meets
<1> QED BY <1>1 DEF Follows, Serves

LEMMA FollowsAppend ==
  ASSUME NEW cs \in Copies, NEW evs \in Seq(Events), NEW e \in Events,
         NEW T, NEW its, NEW new, Follows(cs, evs, T, its), ServesBy(e, T, its, new)
  PROVE  Follows(cs, Append(evs, e), T, new)
<1> DEFINE f == Course(cs, evs)
           all == Append(evs, e)
           g == Course(cs, all)
           n == Len(evs)
<1>1. /\ all \in Seq(Events) /\ n \in Nat /\ Len(all) = n + 1 /\ all[n + 1] = e
      /\ \A i \in 1 .. n : all[i] = evs[i]
  OBVIOUS
<1>2. IsCourse(cs, evs, f) /\ IsCourse(cs, all, g)
  <2> HIDE DEF all
  <2> QED BY <1>1, CourseIs
<1> HIDE DEF f, g, all, n
<1>3. \A i \in 0 .. n : g[i] = f[i]
  <2>1. Trails(n, 0, evs, f, g)
    <3>1. \A i \in 1 .. n : i \in 1 .. Len(all) /\ i \in 1 .. Len(evs) /\ 0 + i = i
      BY <1>1 DEF n
    <3> QED BY <1>1, <1>2, <3>1 DEF Trails, IsCourse
  <2>2. \A i \in 0 .. n : g[i] = f[0 + i] BY <1>1, <2>1, TrailsTo
  <2>3. \A i \in 0 .. n : 0 + i = i BY <1>1
  <2> QED BY <2>2, <2>3
<1>4. n \in 0 .. n /\ n + 1 \in 1 .. Len(all) /\ (n + 1) - 1 = n BY <1>1
<1>5. g[n + 1] = Replayed(f[n], e) BY <1>1, <1>2, <1>3, <1>4 DEF IsCourse
<1>6. Meets(f[n], T, its) /\ f[n] \in Copies BY <1>4 DEF Follows, f, n, Meets
<1>7. Holds(e, f[n].items) /\ Meets(g[n + 1], T, new) BY <1>5, <1>6 DEF ServesBy
<1>8. ASSUME NEW i \in 1 .. Len(all), all[i].ticks >= cs.time
      PROVE  Holds(all[i], g[i - 1].items)
  <2>1. CASE i = n + 1 BY <1>1, <1>3, <1>4, <1>7, <2>1
  <2>2. CASE i # n + 1
    <3>1. i \in 1 .. n /\ i - 1 \in 0 .. n BY <1>1, <2>2
    <3>2. Holds(evs[i], f[i - 1].items) BY <1>1, <1>8, <3>1 DEF Follows, f, n
    <3> QED BY <1>1, <1>3, <3>1, <3>2
  <2> QED BY <2>1, <2>2
<1> QED BY <1>1, <1>7, <1>8 DEF Follows, g, all

LEMMA FollowsSuffix ==
  ASSUME NEW cs \in Copies, NEW evs \in Seq(Events), NEW k \in 0 .. Len(evs),
         \A i \in 1 .. k : evs[i].ticks < cs.time,
         NEW T, NEW its, Follows(cs, evs, T, its)
  PROVE  Follows(cs, SubSeq(evs, k + 1, Len(evs)), T, its)
<1> DEFINE f == Course(cs, evs)
           n == Len(evs)
           t == SubSeq(evs, k + 1, n)
           g == Course(cs, t)
           m == n - k
<1>1. n \in Nat /\ k \in Nat /\ m \in Nat /\ k + m = n OBVIOUS
<1>2. t \in Seq(Events) /\ Len(t) = m /\ \A i \in 1 .. m : t[i] = evs[k + i]
  <2>1. IsSeq(evs) BY DEF IsSeq
  <2>2. DOMAIN t = 1 .. m /\ \A i \in 1 .. m : t[i] = evs[i + k]
    BY <2>1, SeqSuffix
  <2>3. t \in Seq(Events) /\ Len(t) = m
    <3> DEFINE p == k + 1
    <3>1. p \in Int /\ n \in Int /\ \A i \in p .. n : evs[i] \in Events BY <1>1
    <3> HIDE DEF p
    <3>2. /\ SubSeq(evs, p, n) \in Seq(Events)
          /\ Len(SubSeq(evs, p, n)) = IF p <= n THEN n - p + 1 ELSE 0
      BY <3>1, SubSeqProperties
    <3>3. (IF p <= n THEN n - p + 1 ELSE 0) = m
      <4> HIDE DEF n
      <4> QED BY <1>1 DEF p
    <3>4. t = SubSeq(evs, p, n) BY DEF p
    <3> HIDE DEF t, n, m
    <3> QED BY <3>2, <3>3, <3>4
  <2> HIDE DEF t
  <2> QED BY <1>1, <2>2, <2>3
<1>3. IsCourse(cs, evs, f) /\ IsCourse(cs, t, g)
  <2> HIDE DEF t
  <2> QED BY <1>2, CourseIs
<1>4. f[k] = cs BY <1>1, Skipping
<1> HIDE DEF f, g, t, n, m
<1>5. \A i \in 0 .. m : g[i] = f[k + i]
  <2>1. Trails(m, k, t, f, g)
    <3>1. \A i \in 1 .. m : i \in 1 .. Len(t) /\ k + i \in 1 .. Len(evs)
      BY <1>1, <1>2 DEF n
    <3>2. \A i \in 1 .. m : g[i] = Replayed(g[i - 1], t[i])
      BY <1>3, <3>1 DEF IsCourse
    <3>3. ASSUME NEW i \in 1 .. m PROVE f[k + i] = Replayed(f[k + i - 1], t[i])
      <4> DEFINE j == k + i
      <4>1. j \in 1 .. Len(evs) /\ t[i] = evs[j] BY <1>2, <3>1
      <4> HIDE DEF j
      <4>2. f[j] = Replayed(f[j - 1], evs[j]) BY <1>3, <4>1 DEF IsCourse
      <4> QED BY <4>1, <4>2 DEF j
    <3>4. g[0] = f[k] BY <1>3, <1>4 DEF IsCourse
    <3> QED BY <3>2, <3>3, <3>4 DEF Trails
  <2> QED BY <1>1, <2>1, TrailsTo
<1>6. Meets(g[Len(t)], T, its)
  <2>1. g[m] = f[n] BY <1>1, <1>5
  <2> QED BY <1>2, <2>1 DEF Follows, f, n
<1>7. ASSUME NEW i \in 1 .. Len(t), t[i].ticks >= cs.time
      PROVE  Holds(t[i], g[i - 1].items)
  <2>1. /\ i \in 1 .. m /\ i - 1 \in 0 .. m /\ k + i \in 1 .. n
        /\ k + (i - 1) = (k + i) - 1
    BY <1>1, <1>2
  <2>2. Holds(evs[k + i], f[(k + i) - 1].items)
    BY <1>2, <1>7, <2>1 DEF Follows, f, n
  <2> QED BY <1>2, <1>5, <2>1, <2>2
<1> QED BY <1>6, <1>7 DEF Follows, g, t, n

\* What leads any copy that was like the server at the tick t to the items its
Leads(evs, t, was, T, its) == \A cs \in Copies :
  Neat(cs) /\ cs.time = t /\ Alike(cs.items, was) => Follows(cs, evs, T, its)

LEMMA LeadsSkipping ==
  ASSUME NEW evs \in Seq(Events), NEW T \in Nat, NEW its,
         \A i \in 1 .. Len(evs) : evs[i].ticks < T
  PROVE  Leads(evs, T, its, T, its)
<1> SUFFICES ASSUME NEW cs \in Copies, Neat(cs), cs.time = T, Alike(cs.items, its)
             PROVE  Follows(cs, evs, T, its)
  BY DEF Leads
<1>1. Len(evs) \in Nat /\ Len(evs) \in 0 .. Len(evs) OBVIOUS
<1>2. Course(cs, evs)[Len(evs)] = cs BY <1>1, Skipping
<1>3. Meets(cs, T, its) BY MeetsNow
<1>4. \A i \in 1 .. Len(evs) : ~(evs[i].ticks >= cs.time)
  <2>1. \A i \in 1 .. Len(evs) : evs[i] \in Events OBVIOUS
  <2> QED BY <2>1 DEF Events
<1> QED BY <1>2, <1>3, <1>4 DEF Follows

LEMMA LeadsLater ==
  ASSUME NEW evs, NEW t, NEW was, NEW T, NEW U, NEW its, NEW new,
         Leads(evs, t, was, T, its), Serves(T, its, U, new)
  PROVE  Leads(evs, t, was, U, new)
BY FollowsLater DEF Leads

LEMMA LeadsAppend ==
  ASSUME NEW evs \in Seq(Events), NEW e \in Events, NEW t, NEW was, NEW T, NEW its, NEW new,
         Leads(evs, t, was, T, its), ServesBy(e, T, its, new)
  PROVE  Leads(Append(evs, e), t, was, T, new)
BY FollowsAppend DEF Leads

LEMMA LeadsSuffix ==
  ASSUME NEW evs \in Seq(Events), NEW k \in 0 .. Len(evs), NEW t, NEW was, NEW T, NEW its,
         \A i \in 1 .. k : evs[i].ticks < t, Leads(evs, t, was, T, its)
  PROVE  Leads(SubSeq(evs, k + 1, Len(evs)), t, was, T, its)
BY FollowsSuffix DEF Leads

-----------------------------------------------------------------------------
(* The items of the server                                                 *)

LEMMA CollectedWhole ==
  ASSUME NEW its \in Seq(Slot), NEW sw, Whole(its, sw), NEW i \in 1 .. Len(its),
         its[i] # NoItem, NEW t \in Int
  PROVE  LET new == [its EXCEPT ![i] = [Collected(its[i]) EXCEPT !.ttr = t]] IN
         new \in Seq(Slot) /\ Whole(new, sw)
<1> DEFINE c == [Collected(its[i]) EXCEPT !.ttr = t]
           new == [its EXCEPT ![i] = c]
<1>1. its[i] \in Item BY DEF Slot
<1>2. c \in Item /\ c.original = its[i].original BY <1>1, Collecting
<1>3. c \in Slot BY <1>2 DEF Slot
<1> HIDE DEF c
<1>4. /\ new \in Seq(Slot) /\ Len(new) = Len(its)
      /\ \A j \in 1 .. Len(its) : new[j] = IF j = i THEN c ELSE its[j]
  BY <1>3
<1> HIDE DEF new
<1>5. new \in Seq(Slot) /\ Whole(new, sw) BY <1>2, <1>4 DEF Whole
<1> QED BY <1>5 DEF new, c

LEMMA DroppedWhole ==
  ASSUME NEW its \in Seq(Slot), NEW sw \in Int, Whole(its, sw)
  PROVE  LET new == Put(its, FreeIndex(its), Dropped(sw)) IN
         new \in Seq(Slot) /\ Whole(new, sw)
<1> DEFINE i == FreeIndex(its)
           c == Dropped(sw)
           new == Put(its, i, c)
<1>1. i \in Nat /\ Len(its) \in Nat BY FreeIndexFits
<1>2. c \in Item /\ (c.original = "none" <=> sw < 0) BY SameDropped
<1> HIDE DEF i, c
<1>3. HasPut(its, i, c, new) BY <1>1, <1>2, PutFits
<1> HIDE DEF new
<1>4. new \in Seq(Slot) /\ Whole(new, sw) BY <1>1, <1>2, <1>3 DEF HasPut, Whole
<1> QED BY <1>4 DEF new, i, c

LEMMA TickedWhole ==
  ASSUME NEW its \in Seq(Slot), NEW sw, Whole(its, sw), NEW l, l = Len(its)
  PROVE  LET new == [i \in 1 .. l |-> IF its[i] = NoItem THEN NoItem ELSE Ticked(its[i])]
         IN  /\ new \in Seq(Slot) /\ Len(new) = l /\ Whole(new, sw)
             /\ \A i \in 1 .. l : new[i] # NoItem => ~UsedUp(new[i])
<1> DEFINE new == [i \in 1 .. l |-> IF its[i] = NoItem THEN NoItem ELSE Ticked(its[i])]
<1>1. l \in Nat /\ \A i \in 1 .. l : its[i] = NoItem \/ its[i] \in Item BY SlotsOf
<1>2. ASSUME NEW i \in 1 .. l
      PROVE  /\ new[i] \in Slot
             /\ new[i] # NoItem => /\ its[i] # NoItem /\ new[i].original = its[i].original
                                   /\ ~UsedUp(new[i])
  <2>1. CASE its[i] = NoItem BY <2>1 DEF Slot
  <2>2. CASE its[i] \in Item /\ its[i] # NoItem
    <3> DEFINE g == Aged(its[i], 1)
    <3>1. its[i] \in Item /\ 1 \in Int BY <2>2
    <3>2. g \in Item /\ g.original = its[i].original BY <3>1, Aging
    <3> HIDE DEF g
    <3>3. new[i] = IF UsedUp(g) THEN NoItem ELSE g BY <2>2 DEF Ticked, g
    <3> HIDE DEF new
    <3> QED BY <2>2, <3>2, <3>3 DEF Slot
  <2> QED BY <1>1, <2>1, <2>2
<1>3. new = [i \in 1 .. l |-> new[i]] OBVIOUS
<1> HIDE DEF new
<1>4. new \in Seq(Slot) /\ Len(new) = l BY <1>1, <1>2, <1>3
<1>5. Whole(new, sw) BY <1>2, <1>4 DEF Whole
<1> QED BY <1>2, <1>4, <1>5 DEF new

-----------------------------------------------------------------------------
(* The invariant of the items                                              *)

Was(t) == past[t + 1].items

EventsTyped ==
  /\ events \in Seq(Events)
  /\ \A c \in Clients : \A s \in states[c] : s.events \in Seq(Events)

\* Between ticks the items of the server are the last ones of the history.
ServerFits ==
  /\ items \in Seq(Slot) /\ Whole(items, switch)
  /\ main # "karts" => past[now + 1] = [items |-> items, switch |-> switch]

PastFits ==
  /\ past \in Seq([items : Seq(Slot), switch : Int]) /\ Len(past) = now + 1
  /\ \A p \in 1 .. now + 1 : Neat(past[p])

StartFits == \A c \in Clients :
  /\ start[c] \in Copies
  /\ conn[c] \in {"entering", "loading"} =>
       /\ start[c].time <= now
       /\ start[c].items = Was(start[c].time)
       /\ start[c].switch = past[start[c].time + 1].switch

CopyFits == \A c \in Clients :
  /\ copy[c] \in Copies
  /\ conn[c] = "racing" => Neat(copy[c]) /\ Alike(copy[c].items, Was(copy[c].time))

\* The events of the server lead from what a client knows, or will know, to
\* the items of the server, and those of a state to the items of its time.
ServerLeads == \A c \in Racing : \A t \in Known(c) .. now :
  Leads(events, t, Was(t), now, items)
StatesLead == \A c \in Racing : \A s \in states[c] : \A t \in Known(c) .. s.ticks :
  Leads(s.events, t, Was(t), s.ticks, Was(s.ticks))

ItemsInv == /\ EventsTyped /\ ServerFits /\ PastFits /\ StartFits /\ CopyFits
            /\ ServerLeads /\ StatesLead

\* The items that are part of the track
LEMMA TrackFits ==
  LET its == Track.items IN
  /\ Track = [items |-> its, switch |-> -1]
  /\ Complete(Track) = [time |-> 0, items |-> its, switch |-> -1]
  /\ its \in Seq(Slot) /\ Whole(its, -1)
  /\ \A i \in 1 .. Len(its) : its[i].original = "none" /\ ~UsedUp(its[i])
<1> DEFINE its == Track.items
           l == Len(FirstItems)
<1>1. Track = [items |-> its, switch |-> -1] BY DEF Track
<1>2. Complete(Track) = [time |-> 0, items |-> its, switch |-> -1] BY <1>1 DEF Complete
<1>3. \A i \in DOMAIN FirstItems : NewItem(FirstItems[i]) \in Item
        /\ NewItem(FirstItems[i]).original = "none" /\ ~UsedUp(NewItem(FirstItems[i]))
  <2>1. \A k \in DOMAIN SwitchTo : NewItem(k) \in Item /\ NewItem(k).original = "none"
                                   /\ ~UsedUp(NewItem(k))
    BY DEF NewItem, Item, UsedUp
  <2>2. \A i \in DOMAIN FirstItems : FirstItems[i] \in DOMAIN SwitchTo
    BY ItemsAssumption
  <2> QED BY <2>1, <2>2
<1>4. l \in Nat /\ DOMAIN FirstItems = 1 .. l BY ItemsAssumption
<1>5. its = [i \in 1 .. l |-> NewItem(FirstItems[i])] BY <1>4 DEF Track
<1>6. \A i \in 1 .. l : its[i] \in Slot /\ its[i].original = "none" /\ ~UsedUp(its[i])
  BY <1>3, <1>4, <1>5 DEF Slot
<1>7. its = [i \in 1 .. l |-> its[i]] BY <1>5
<1> HIDE DEF its, l
<1>8. its \in Seq(Slot) /\ Len(its) = l BY <1>4, <1>6, <1>7
<1>9. Whole(its, -1) BY <1>6, <1>8 DEF Whole
<1> QED BY <1>1, <1>2, <1>6, <1>8, <1>9 DEF its

LEMMA InitItems == Init => ItemsInv
<1> SUFFICES ASSUME Init PROVE ItemsInv OBVIOUS
<1> DEFINE its == Track.items
<1>1. /\ now = 0 /\ items = its /\ switch = -1 /\ events = <<>> /\ past = <<Track>>
      /\ Track = [items |-> its, switch |-> -1]
      /\ \A c \in Clients : start[c] = [time |-> 0, items |-> its, switch |-> -1]
      /\ \A c \in Clients : copy[c] = start[c] /\ states[c] = {}
  BY TrackFits DEF Init
<1>3. its \in Seq(Slot) /\ \A i \in 1 .. Len(its) : its[i].original = "none" /\ ~UsedUp(its[i])
  BY TrackFits
<1>4. Whole(its, -1) BY TrackFits
<1>5. \A cs \in {Track, [time |-> 0, items |-> its, switch |-> -1]} : Neat(cs)
  BY <1>1, <1>3, <1>4 DEF Neat
<1>6. [time |-> 0, items |-> its, switch |-> -1] \in Copies BY <1>3 DEF Copies
<1> HIDE DEF its
<1>7. Len(past) = 1 /\ past[1] = Track /\ Was(0) = its BY <1>1 DEF Was
<1>8. EventsTyped BY <1>1 DEF EventsTyped
<1>9. ServerFits BY <1>1, <1>3, <1>4, <1>7 DEF ServerFits
<1>10. PastFits
  <2>1. Track \in [items : Seq(Slot), switch : Int] BY <1>1, <1>3
  <2>2. past \in Seq([items : Seq(Slot), switch : Int]) BY <1>1, <2>1
  <2> QED BY <1>1, <1>5, <1>7, <2>2 DEF PastFits
<1>11. StartFits BY <1>1, <1>6, <1>7 DEF StartFits
<1>12. Alike(its, its)
  <2>1. \A i \in 1 .. Len(its) : Left(its[i]) = its[i] BY <1>3 DEF Left
  <2> QED BY <2>1 DEF Alike, SameItem
<1>13. CopyFits BY <1>1, <1>5, <1>6, <1>7, <1>12 DEF CopyFits
<1>14. ServerLeads
  <2>1. \A c \in Racing : Known(c) = 0 BY <1>1 DEF Racing, Known
  <2>2. Leads(<<>>, 0, its, 0, its)
    <3>1. <<>> \in Seq(Events) /\ 0 \in Nat /\ Len(<<>>) = 0 OBVIOUS
    <3>2. \A i \in 1 .. Len(<<>>) : <<>>[i].ticks < 0 BY <3>1
    <3> QED BY <3>1, <3>2, LeadsSkipping
  <2> QED BY <1>1, <1>7, <2>1, <2>2 DEF ServerLeads
<1>15. StatesLead BY <1>1 DEF StatesLead, Racing
<1> QED BY <1>8, <1>9, <1>10, <1>11, <1>13, <1>14, <1>15 DEF ItemsInv

\* A step that leaves the items and the clock of the server alone
LEMMA QuietServer ==
  ASSUME ServerFits, PastFits, main' # "karts" => main # "karts",
         UNCHANGED <<now, items, switch, past>>
  PROVE  ServerFits' /\ PastFits' /\ \A t : Was(t)' = Was(t)
BY DEF ServerFits, PastFits, Was

LEMMA SaveStateItems == IInv /\ ItemsInv /\ SaveState => ItemsInv'
<1> SUFFICES ASSUME IInv, ItemsInv, SaveState PROVE ItemsInv' OBVIOUS
<1> USE DEF ItemsInv
<1> DEFINE state == [ticks |-> now, events |-> events]
<1>1. /\ main = "rewind" /\ now' = now /\ items' = items /\ switch' = switch /\ past' = past
      /\ conn' = conn /\ start' = start /\ copy' = copy /\ events' = events
  BY DEF SaveState, clientVars, history
<1>2. ServerFits' /\ PastFits' /\ \A t : Was(t)' = Was(t) BY <1>1, QuietServer
<1>3. Racing' = Racing /\ \A c : Known(c)' = Known(c) BY <1>1 DEF Racing, Known
<1>4. \A c \in Clients : \A s \in states'[c] : c \in Racing /\ (s \in states[c] \/ s = state)
  BY DEF SaveState, Newest
<1>5. EventsTyped' BY <1>1, <1>4 DEF EventsTyped
<1>6. StartFits' BY <1>1, <1>2 DEF StartFits, Was
<1>7. CopyFits' BY <1>1, <1>2 DEF CopyFits
<1>8. ServerLeads' BY <1>1, <1>2, <1>3 DEF ServerLeads
<1>9. StatesLead'
  <2> SUFFICES ASSUME NEW c \in Racing, NEW s \in states'[c], NEW t \in Known(c) .. s.ticks
               PROVE  Leads(s.events, t, Was(t), s.ticks, Was(s.ticks))
    BY <1>2, <1>3 DEF StatesLead
  <2>1. CASE s \in states[c] BY <2>1 DEF StatesLead
  <2>2. CASE s = state
    <3>1. Was(now) = items BY <1>1 DEF ServerFits, Was
    <3>2. s.ticks = now /\ s.events = events BY <2>2
    <3>3. Leads(events, t, Was(t), now, items) BY <3>2 DEF ServerLeads
    <3> QED BY <3>1, <3>2, <3>3
  <2>3. c \in Clients BY DEF Racing
  <2> QED BY <1>4, <2>1, <2>2, <2>3
<1> QED BY <1>2, <1>5, <1>6, <1>7, <1>8, <1>9

\* What the karts do to the items is logged for the clients.
LEMMA EventStep ==
  ASSUME IInv, ItemsInv, main = "karts", NEW e \in Events, Log(e),
         UNCHANGED <<now, main, conn, start, states, copy, past>>,
         items' \in Seq(Slot), Whole(items', switch'), ServesBy(e, now, items, items')
  PROVE  ItemsInv'
<1> USE DEF ItemsInv
<1>1. events' = Append(events, e) BY DEF Log
<1>2. Racing' = Racing /\ (\A c : Known(c)' = Known(c)) /\ \A t : Was(t)' = Was(t)
  BY DEF Racing, Known, Was
<1>3. events \in Seq(Events) BY DEF EventsTyped
<1>4. EventsTyped'
  <2>1. events' \in Seq(Events) BY <1>1, <1>3
  <2> QED BY <2>1 DEF EventsTyped
<1>5. ServerFits' BY DEF ServerFits
<1>6. PastFits' BY DEF PastFits
<1>7. StartFits' BY <1>2 DEF StartFits, Was
<1>8. CopyFits' BY <1>2 DEF CopyFits
<1>9. ServerLeads'
  <2> SUFFICES ASSUME NEW c \in Racing, NEW t \in Known(c) .. now
               PROVE  Leads(Append(events, e), t, Was(t), now, items')
    BY <1>1, <1>2 DEF ServerLeads
  <2>1. Leads(events, t, Was(t), now, items) BY DEF ServerLeads
  <2> QED BY <1>3, <2>1, LeadsAppend
<1>10. StatesLead' BY <1>2 DEF StatesLead
<1> QED BY <1>4, <1>5, <1>6, <1>7, <1>8, <1>9, <1>10

LEMMA KartsItems ==
  ASSUME IInv, ItemsInv, DropItem \/ SwitchItems \/ \E i \in DOMAIN items : CollectItem(i)
  PROVE  ItemsInv'
<1>1. now \in Nat /\ Len(log) \in Nat /\ switch \in Int
  BY ConstAssumption DEF IInv, TypeOK
<1>2. items \in Seq(Slot) /\ Whole(items, switch) /\ Len(items) \in Nat
  BY DEF ItemsInv, ServerFits
<1>3. ASSUME NEW kind \in {"collect", "new", "switch"}, NEW i \in Nat, NEW t \in Int
      PROVE  LET e == Event(kind, i, t) IN
             e \in Events /\ e.kind = kind /\ e.index = i /\ e.ttr = t /\ e.ticks = now
  <2>1. Len(log) + 1 \in Nat BY <1>1
  <2> QED BY <1>1, <2>1 DEF Event, Events
<1>4. CASE DropItem
  <2> DEFINE i == FreeIndex(items)
             e == Event("new", i, 0)
  <2>1. /\ main = "karts" /\ items' = Put(items, i, Dropped(switch)) /\ Log(e)
        /\ switch' = switch /\ UNCHANGED <<now, main, conn, start, states, copy, past>>
    BY <1>4 DEF DropItem, netVars, clientVars
  <2>2. i \in Nat BY <1>2, FreeIndexFits
  <2>3. e \in Events /\ e.kind = "new" /\ e.index = i /\ e.ticks = now BY <1>3, <2>2
  <2>4. items' \in Seq(Slot) /\ Whole(items', switch') BY <1>1, <1>2, <2>1, DroppedWhole
  <2> HIDE DEF e
  <2>5. ServesBy(e, now, items, items')
    <3> SUFFICES ASSUME NEW x \in Copies, Meets(x, now, items)
                 PROVE  Holds(e, x.items) /\ Meets(Replayed(x, e), now, items')
      BY DEF ServesBy
    <3> QED BY <1>1, <1>2, <2>1, <2>3, MeetsNew
  <2> QED BY <2>1, <2>3, <2>4, <2>5, EventStep
<1>5. CASE SwitchItems
  <2> DEFINE e == Event("switch", 0, 0)
  <2>1. /\ main = "karts" /\ items' = SwitchAll(items, switch) /\ Log(e)
        /\ switch' = SwitchedTicks(switch)
        /\ UNCHANGED <<now, main, conn, start, states, copy, past>>
    BY <1>5 DEF SwitchItems, netVars, clientVars
  <2>2. e \in Events /\ e.kind = "switch" /\ e.ticks = now BY <1>3
  <2>3. switch' \in Int /\ (switch' < 0 <=> switch >= 0)
    BY <1>1, <2>1, ConstAssumption DEF SwitchedTicks
  <2>4. items' \in Seq(Slot) /\ Whole(items', switch')
    BY <1>1, <1>2, <2>1, <2>3, SwitchAllFits
  <2> HIDE DEF e
  <2>5. ServesBy(e, now, items, items')
    <3> SUFFICES ASSUME NEW x \in Copies, Meets(x, now, items)
                 PROVE  Holds(e, x.items) /\ Meets(Replayed(x, e), now, items')
      BY DEF ServesBy
    <3> QED BY <1>1, <1>2, <2>1, <2>2, MeetsSwitch
  <2> QED BY <2>1, <2>2, <2>4, <2>5, EventStep
<1>6. ASSUME NEW i \in DOMAIN items, CollectItem(i) PROVE ItemsInv'
  <2> DEFINE it == Collected(items[i])
  <2>1. /\ main = "karts" /\ items[i] # NoItem /\ Available(items[i]) /\ switch' = switch
        /\ UNCHANGED <<now, main, conn, start, states, copy, past>>
    BY <1>6 DEF CollectItem, netVars, clientVars
  <2>2. PICK t \in {it.ttr} \cup (IF it.type = "banana" THEN {BombTicks} ELSE {}) :
          items' = [items EXCEPT ![i] = [it EXCEPT !.ttr = t]] /\ Log(Event("collect", i, t))
    BY <1>6 DEF CollectItem
  <2>3. i \in 1 .. Len(items) /\ items[i] \in Item BY <1>2, <2>1 DEF Slot
  <2>4. t \in Int
    <3>1. items[i].ttr \in Int /\ items[i].uses \in Int BY <2>3, ItemFields
    <3>2. it.ttr \in Int BY <2>3, <3>1, ItemsAssumption DEF Collected, Item
    <3> QED BY <3>2, ItemsAssumption
  <2> DEFINE e == Event("collect", i, t)
  <2>5. /\ e \in Events /\ e.kind = "collect" /\ e.index = i /\ e.ttr = t /\ e.ticks = now
        /\ Log(e)
    <3>1. i \in Nat BY <1>2, <2>3
    <3> QED BY <1>3, <2>2, <2>4, <3>1
  <2>6. items' \in Seq(Slot) /\ Whole(items', switch')
    BY <1>2, <2>1, <2>2, <2>3, <2>4, CollectedWhole
  <2> HIDE DEF e
  <2>7. ServesBy(e, now, items, items')
    <3> SUFFICES ASSUME NEW x \in Copies, Meets(x, now, items)
                 PROVE  Holds(e, x.items) /\ Meets(Replayed(x, e), now, items')
      BY DEF ServesBy
    <3> QED BY <1>1, <1>2, <2>1, <2>2, <2>3, <2>5, MeetsCollect
  <2> QED BY <2>1, <2>5, <2>6, <2>7, EventStep
<1> QED BY <1>4, <1>5, <1>6

LEMMA UpdateItemsItems == IInv /\ ItemsInv /\ UpdateItems => ItemsInv'
<1> SUFFICES ASSUME IInv, ItemsInv, UpdateItems PROVE ItemsInv' OBVIOUS
<1> USE DEF ItemsInv
<1> DEFINE l == Len(items)
           sw == Counted(switch)
           off == switch >= 0 /\ sw < 0
           back == IF off THEN SwitchAll(items, switch) ELSE items
           new == [i \in 1 .. l |-> IF back[i] = NoItem THEN NoItem ELSE Ticked(back[i])]
           then == [items |-> new, switch |-> sw]
<1>1. now \in Nat /\ switch \in Int /\ sw \in Int BY ConstAssumption DEF IInv, TypeOK, Counted
<1>2. items \in Seq(Slot) /\ Whole(items, switch) /\ l \in Nat BY DEF ServerFits
<1>3. /\ back \in Seq(Slot) /\ Len(back) = l /\ Whole(back, sw)
      /\ \A i \in 1 .. l : Turned(items[i], back[i])
  <2>1. CASE off
    <3>1. back = SwitchAll(items, switch) /\ (sw < 0 <=> switch >= 0) BY <2>1
    <3> HIDE DEF back, sw
    <3> QED BY <1>1, <1>2, <3>1, SwitchAllFits
  <2>2. CASE ~off
    <3>1. back = items /\ (sw < 0 <=> switch < 0) BY <1>1, <2>2 DEF Counted
    <3>2. \A i \in 1 .. l : Turned(items[i], items[i]) BY <1>2, SlotsOf DEF Turned
    <3>3. Whole(items, sw) BY <1>2, <3>1 DEF Whole
    <3> HIDE DEF back, sw
    <3> QED BY <1>2, <3>1, <3>2, <3>3
  <2> QED BY <2>1, <2>2
<1>4. /\ switch' = sw /\ items' = new /\ now' = now + 1 /\ main = "karts"
      /\ past' = Append(past, then)
      /\ events' = events /\ conn' = conn /\ start' = start /\ states' = states /\ copy' = copy
  <2>1. /\ switch' = sw /\ now' = now + 1 /\ main = "karts"
        /\ past' = Append(past, [items |-> items', switch |-> sw])
        /\ events' = events /\ conn' = conn /\ start' = start /\ states' = states /\ copy' = copy
    BY DEF UpdateItems, netVars, clientVars
  <2>2. back = IF off THEN OnItems(SwitchBack, items) ELSE items
    BY <1>1 DEF SwitchAll
  <2>3. items' = [i \in DOMAIN back |-> IF back[i] = NoItem THEN NoItem ELSE Ticked(back[i])]
    BY <2>2 DEF UpdateItems, OnItems, Ticked
  <2>4. DOMAIN back = 1 .. l
    <3> HIDE DEF back, l
    <3> QED BY <1>3
  <2> HIDE DEF back, l, sw
  <2> QED BY <2>1, <2>3, <2>4
<1> HIDE DEF back, sw, l
<1>5. /\ new \in Seq(Slot) /\ Len(new) = l /\ Whole(new, sw)
      /\ \A i \in 1 .. l : new[i] # NoItem => ~UsedUp(new[i])
  BY <1>3, TickedWhole
<1>6. Serves(now, items, now + 1, new)
  <2> SUFFICES ASSUME NEW x \in Copies, Meets(x, now, items) PROVE Meets(x, now + 1, new)
    BY DEF Serves
  <2> QED BY <1>1, <1>2, <1>3, MeetsNext DEF l
<1> HIDE DEF new
<1>7. Neat(then) /\ then \in [items : Seq(Slot), switch : Int] BY <1>1, <1>5 DEF Neat
<1>8. then.items = new OBVIOUS
<1> HIDE DEF then
<1>9. /\ past' \in Seq([items : Seq(Slot), switch : Int]) /\ Len(past') = now + 2
      /\ past'[now + 2] = then /\ \A p \in 1 .. now + 1 : past'[p] = past[p]
  BY <1>1, <1>4, <1>7 DEF PastFits
<1>10. \A t \in 0 .. now : Was(t)' = Was(t)
  <2>1. \A t \in 0 .. now : t + 1 \in 1 .. now + 1 BY <1>1
  <2> QED BY <1>9, <2>1 DEF Was
<1>11. ASSUME NEW t, t = now + 1 PROVE Was(t)' = new
  <2>1. t + 1 = now + 2 BY <1>1, <1>11
  <2> QED BY <1>8, <1>9, <2>1 DEF Was
<1>12. Racing' = Racing /\ \A c : Known(c)' = Known(c) BY <1>4 DEF Racing, Known
<1>13. EventsTyped' BY <1>4 DEF EventsTyped
<1>14. ServerFits'
  <2>1. now' + 1 = now + 2 BY <1>1, <1>4
  <2> QED BY <1>4, <1>5, <1>9, <2>1 DEF ServerFits, then
<1>15. PastFits'
  <2>1. now' + 1 = now + 2 BY <1>1, <1>4
  <2>2. \A p \in 1 .. now + 2 : p \in 1 .. now + 1 \/ p = now + 2 BY <1>1
  <2> QED BY <1>7, <1>9, <2>1, <2>2 DEF PastFits
<1>16. StartFits'
  <2>1. ASSUME NEW c \in Clients, conn[c] \in {"entering", "loading"}
        PROVE  /\ start[c].time <= now /\ start[c].time \in 0 .. now
               /\ start[c].time + 1 \in 1 .. now + 1
    BY <1>1, <2>1 DEF StartFits, Copies
  <2>2. ASSUME NEW c \in Clients, conn[c] \in {"entering", "loading"}
        PROVE  start[c].time <= now + 1 BY <1>1, <2>1, <2>2
  <2> QED BY <1>4, <1>9, <1>10, <2>1, <2>2 DEF StartFits
<1>17. CopyFits'
  <2>1. ASSUME NEW c \in Clients, conn[c] = "racing" PROVE copy[c].time \in 0 .. now
    <3>1. c \in Racing /\ Known(c) = copy[c].time BY <2>1 DEF Racing, Known
    <3>2. copy[c].time <= now BY <3>1 DEF IInv, KnownIsPast
    <3> QED BY <1>1, <3>2 DEF CopyFits, Copies
  <2> QED BY <1>4, <1>10, <2>1 DEF CopyFits
<1>18. \A c \in Racing : Known(c) \in 0 .. now
  <2> SUFFICES ASSUME NEW c \in Racing PROVE Known(c) \in 0 .. now OBVIOUS
  <2>1. Known(c) <= now BY DEF IInv, KnownIsPast
  <2>2. Known(c) \in Nat BY DEF Known, IInv, Times, Racing
  <2> QED BY <1>1, <2>1, <2>2
<1>19. ServerLeads'
  <2> SUFFICES ASSUME NEW c \in Racing, NEW t \in Known(c) .. now + 1
               PROVE  Leads(events, t, Was(t)', now + 1, new)
    BY <1>4, <1>12 DEF ServerLeads
  <2>1. CASE t = now + 1
    <3>1. \A i \in 1 .. Len(events) : events[i].ticks < now + 1
      <4>1. \A i \in DOMAIN events : events[i].ticks <= now /\ events[i].ticks \in Nat
        BY DEF IInv, EventsLogged, OfLog, LogInOrder, TypeOK
      <4>2. DOMAIN events = 1 .. Len(events) BY DEF EventsTyped
      <4> QED BY <1>1, <4>1, <4>2
    <3>2. events \in Seq(Events) /\ now + 1 \in Nat BY <1>1 DEF EventsTyped
    <3>3. Leads(events, now + 1, new, now + 1, new) BY <3>1, <3>2, LeadsSkipping
    <3> QED BY <1>11, <2>1, <3>3
  <2>2. CASE t # now + 1
    <3>1. t \in Known(c) .. now /\ t \in 0 .. now BY <1>1, <1>18, <2>2
    <3>2. Leads(events, t, Was(t), now, items) BY <3>1 DEF ServerLeads
    <3>3. Leads(events, t, Was(t), now + 1, new) BY <1>6, <3>2, LeadsLater
    <3> QED BY <1>10, <3>1, <3>3
  <2> QED BY <2>1, <2>2
<1>20. StatesLead'
  <2> SUFFICES ASSUME NEW c \in Racing, NEW s \in states[c], NEW t \in Known(c) .. s.ticks
               PROVE  Leads(s.events, t, Was(t)', s.ticks, Was(s.ticks)')
    BY <1>4, <1>12 DEF StatesLead
  <2>1. s.ticks \in Nat /\ s.ticks <= now
    BY DEF IInv, StatesComplement, Complements, Racing
  <2>2. t \in 0 .. now /\ s.ticks \in 0 .. now BY <1>1, <1>18, <2>1
  <2> QED BY <1>10, <2>2 DEF StatesLead
<1> QED BY <1>13, <1>14, <1>15, <1>16, <1>17, <1>19, <1>20

\* A step that leaves the items and the events of the server alone, after
\* which nobody knows less than before
LEMMA QuietStep ==
  ASSUME IInv, ItemsInv, UNCHANGED <<now, items, switch, past, events>>,
         main' # "karts" => main # "karts",
         \A c \in Clients : states'[c] \subseteq states[c],
         \A c \in Racing' : c \in Racing /\ Known(c)' \in Int /\ Known(c) <= Known(c)',
         StartFits', CopyFits'
  PROVE  ItemsInv'
<1> USE DEF ItemsInv
<1>1. ServerFits' /\ PastFits' /\ \A t : Was(t)' = Was(t) BY QuietServer
<1>2. EventsTyped' BY DEF EventsTyped
<1>3. ASSUME NEW c \in Racing', NEW T \in Int, NEW t \in Known(c)' .. T
      PROVE  c \in Racing /\ c \in Clients /\ t \in Known(c) .. T
  <2>1. Known(c) \in Nat /\ c \in Clients BY DEF IInv, Times, Known, Racing
  <2> QED BY <2>1
<1>4. ServerLeads'
  <2> SUFFICES ASSUME NEW c \in Racing', NEW t \in Known(c)' .. now
               PROVE  Leads(events, t, Was(t), now, items)
    BY <1>1 DEF ServerLeads
  <2>1. now \in Int BY DEF IInv, TypeOK
  <2>2. c \in Racing /\ t \in Known(c) .. now BY <1>3, <2>1
  <2> QED BY <2>2 DEF ServerLeads
<1>5. StatesLead'
  <2> SUFFICES ASSUME NEW c \in Racing', NEW s \in states'[c],
                      NEW t \in Known(c)' .. s.ticks
               PROVE  Leads(s.events, t, Was(t), s.ticks, Was(s.ticks))
    BY <1>1 DEF StatesLead
  <2>1. c \in Clients /\ s \in states[c] BY DEF Racing
  <2>2. s.ticks \in Int BY <2>1 DEF IInv, StatesComplement, Complements
  <2>3. c \in Racing /\ t \in Known(c) .. s.ticks BY <1>3, <2>2
  <2> QED BY <2>1, <2>3 DEF StatesLead
<1> QED BY <1>1, <1>2, <1>4, <1>5

LEMMA ConfirmItemsItems ==
  ASSUME IInv, IInv', ItemsInv, NEW c \in Clients, NEW t \in confs[c], ConfirmItems(c, t)
  PROVE  ItemsInv'
<1> USE DEF ItemsInv
<1>1. /\ now' = now /\ main' = main /\ items' = items /\ switch' = switch /\ conn' = conn
      /\ start' = start /\ states' = states /\ copy' = copy /\ past' = past
      /\ events' = events
  BY Zenon DEF ConfirmItems, serverVars, clientVars, history
<1>2. \A x : Was(x)' = Was(x) BY <1>1, QuietServer
<1>3. \A p \in Racing' : p \in Racing /\ Known(p)' \in Int /\ Known(p) <= Known(p)'
  <2>1. \A p \in Racing : Known(p) \in Nat BY DEF Known, Racing, IInv, Times
  <2> QED BY <1>1, <2>1 DEF Racing, Known
<1>4. StartFits' BY <1>1, <1>2 DEF StartFits, Was
<1>5. CopyFits' BY <1>1, <1>2 DEF CopyFits
<1> QED BY <1>1, <1>3, <1>4, <1>5, QuietStep

\* Nobody that is in the race knows less than the time up to which events
\* are discarded, unless the map was empty.
LEMMA DiscardEventsItems ==
  IInv /\ IInv' /\ ItemsInv /\ ~unasked' /\ DiscardEvents => ItemsInv'
<1> SUFFICES ASSUME IInv, IInv', ItemsInv, ~unasked', DiscardEvents PROVE ItemsInv'
  OBVIOUS
<1> USE DEF ItemsInv
<1>1. /\ now' = now /\ main' = main /\ items' = items /\ switch' = switch /\ conn' = conn
      /\ start' = start /\ states' = states /\ copy' = copy /\ past' = past
      /\ unasked' = (unasked \/ (minTime = Int32Max /\ Racing # {}))
  BY Zenon DEF DiscardEvents, netVars, clientVars, history
<1>2. PICK k \in 0 .. Len(events) :
        /\ \A i \in 1 .. k : Before(events[i], minTime)
        /\ events' = SubSeq(events, k + 1, Len(events))
  BY Zenon DEF DiscardEvents
<1>3. Racing' = Racing /\ \A p : Known(p)' = Known(p) BY <1>1 DEF Racing, Known
<1>4. ServerFits' /\ PastFits' /\ \A x : Was(x)' = Was(x) BY <1>1, QuietServer
<1>5. events \in Seq(Events) /\ Len(events) \in Nat BY DEF EventsTyped
<1>6. events' \in Seq(Events)
  <2> DEFINE p == k + 1
             n == Len(events)
  <2>1. p \in Int /\ n \in Int /\ \A i \in p .. n : events[i] \in Events BY <1>5
  <2>2. events' = SubSeq(events, p, n) BY <1>2
  <2> HIDE DEF p, n
  <2> QED BY <2>1, <2>2, SubSeqProperties
<1>7. EventsTyped' BY <1>1, <1>6 DEF EventsTyped
<1>8. StartFits' BY <1>1, <1>4 DEF StartFits, Was
<1>9. CopyFits' BY <1>1, <1>4 DEF CopyFits
<1>10. ServerLeads'
  <2> SUFFICES ASSUME NEW p \in Racing, NEW x \in Known(p) .. now
               PROVE  Leads(SubSeq(events, k + 1, Len(events)), x, Was(x), now, items)
    BY <1>1, <1>2, <1>3, <1>4 DEF ServerLeads
  <2>1. minTime \in Int /\ minTime <= Known(p)
    <3>1. minTime # Int32Max BY <1>1
    <3> QED BY <3>1 DEF IInv, MinConfirmed, TypeOK
  <2>2. Known(p) \in Nat BY DEF IInv, Times, Known, Racing
  <2>3. ASSUME NEW i \in 1 .. k PROVE events[i].ticks < x
    <3>1. events[i] \in Events BY <1>5
    <3>2. events[i].ticks < minTime BY <1>2 DEF Before
    <3> QED BY <2>1, <2>2, <3>1, <3>2 DEF Events
  <2>4. Leads(events, x, Was(x), now, items) BY DEF ServerLeads
  <2> QED BY <1>5, <2>3, <2>4, LeadsSuffix
<1>11. StatesLead' BY <1>1, <1>3, <1>4 DEF StatesLead
<1> QED BY <1>4, <1>7, <1>8, <1>9, <1>10, <1>11

LEMMA SaveCompleteStateItems ==
  ASSUME IInv, IInv', ItemsInv, NEW c \in Clients, SaveCompleteState(c)
  PROVE  ItemsInv'
<1> USE DEF ItemsInv
<1> DEFINE whole == [time |-> now, items |-> items, switch |-> switch]
<1>1. /\ now' = now /\ items' = items /\ switch' = switch /\ events' = events /\ past' = past
      /\ states' = states /\ copy' = copy /\ main = "rewind" /\ conn[c] = "lobby"
      /\ start' = [start EXCEPT ![c] = whole] /\ conn' = [conn EXCEPT ![c] = "entering"]
  BY DEF SaveCompleteState, clientVars, history
<1>2. /\ conn'[c] = "entering" /\ \A p \in Clients : p # c => conn'[p] = conn[p]
      /\ start'[c] = whole /\ \A p \in Clients : p # c => start'[p] = start[p]
  BY <1>1 DEF IInv, TypeOK, Times
<1>3. Racing' = Racing /\ \A p \in Racing : p \in Clients /\ p # c
  BY <1>1, <1>2 DEF Racing
<1>4. \A p \in Racing : Known(p)' = Known(p) /\ Known(p) \in Nat
  BY <1>1, <1>2, <1>3 DEF Known, IInv, Times
<1>5. \A t : Was(t)' = Was(t) BY <1>1, QuietServer
<1>6. whole \in Copies BY ConstAssumption DEF ServerFits, Copies, IInv, TypeOK
<1>7. past[now + 1] = [items |-> items, switch |-> switch] /\ Was(now) = items
  BY <1>1 DEF ServerFits, Was
<1>8. StartFits'
  <2> SUFFICES ASSUME NEW p \in Clients
               PROVE  /\ start'[p] \in Copies
                      /\ conn'[p] \in {"entering", "loading"} =>
                           /\ start'[p].time <= now
                           /\ start'[p].items = Was(start'[p].time)
                           /\ start'[p].switch = past[start'[p].time + 1].switch
    BY <1>1 DEF StartFits, Was
  <2>1. CASE p = c
    <3>1. now <= now BY DEF IInv, TypeOK
    <3> QED BY <1>2, <1>6, <1>7, <2>1, <3>1
  <2>2. CASE p # c BY <1>2, <2>2 DEF StartFits
  <2> QED BY <2>1, <2>2
<1>9. CopyFits'
  <2>1. \A p \in Clients : conn'[p] = "racing" => conn[p] = "racing" BY <1>2
  <2> QED BY <1>1, <1>5, <2>1 DEF CopyFits
<1> QED BY <1>1, <1>3, <1>4, <1>8, <1>9, QuietStep

LEMMA AddLiveJoinPeerItems ==
  ASSUME IInv, IInv', ItemsInv, NEW c \in Clients, AddLiveJoinPeer(c)
  PROVE  ItemsInv'
<1> USE DEF ItemsInv
<1>1. /\ now' = now /\ items' = items /\ switch' = switch /\ events' = events /\ past' = past
      /\ states' = states /\ copy' = copy /\ start' = start /\ main = "join"
      /\ conn[c] = "entering" /\ conn' = [conn EXCEPT ![c] = "loading"]
  BY DEF AddLiveJoinPeer, netVars, clientVars, history
<1>2. conn'[c] = "loading" /\ \A p \in Clients : p # c => conn'[p] = conn[p]
  BY <1>1 DEF IInv, TypeOK
<1>3. ServerFits' /\ PastFits' /\ \A t : Was(t)' = Was(t) BY <1>1, QuietServer
<1>4. Racing' = Racing \cup {c} /\ c \notin Racing BY <1>1, <1>2 DEF Racing
<1>5. \A p \in Racing : Known(p)' = Known(p) BY <1>1, <1>2, <1>4 DEF Racing, Known
<1>6. Known(c)' = now /\ now \in Nat
  BY <1>1, <1>2 DEF Known, IInv, OneJoins, TypeOK
<1>7. EventsTyped' BY <1>1 DEF EventsTyped
<1>8. StartFits'
  <2>1. \A p \in Clients : conn'[p] \in {"entering", "loading"} =>
                             conn[p] \in {"entering", "loading"}
    BY <1>1, <1>2
  <2> QED BY <1>1, <1>3, <2>1 DEF StartFits, Was
<1>9. CopyFits'
  <2>1. \A p \in Clients : conn'[p] = "racing" => conn[p] = "racing" BY <1>1, <1>2
  <2> QED BY <1>1, <1>3, <2>1 DEF CopyFits
<1>10. ServerLeads'
  <2> SUFFICES ASSUME NEW p \in Racing', NEW t \in Known(p)' .. now
               PROVE  Leads(events, t, Was(t), now, items)
    BY <1>1, <1>3 DEF ServerLeads
  <2>1. CASE p = c
    <3>1. t = now BY <1>6, <2>1
    <3>2. Was(now) = items BY <1>1 DEF ServerFits, Was
    <3>3. \A i \in 1 .. Len(events) : events[i].ticks < now
      <4>1. DOMAIN events = 1 .. Len(events) BY DEF EventsTyped
      <4> QED BY <1>1, <4>1 DEF IInv, EventsLogged, OfLog, LogInOrder
    <3>4. events \in Seq(Events) BY DEF EventsTyped
    <3>5. Leads(events, now, items, now, items) BY <1>6, <3>3, <3>4, LeadsSkipping
    <3> QED BY <3>1, <3>2, <3>5
  <2>2. CASE p # c BY <1>4, <1>5, <2>2 DEF ServerLeads
  <2> QED BY <2>1, <2>2
<1>11. StatesLead'
  <2>1. states[c] = {} BY <1>4 DEF IInv, StatesComplement
  <2> SUFFICES ASSUME NEW p \in Racing', NEW s \in states[p], NEW t \in Known(p)' .. s.ticks
               PROVE  Leads(s.events, t, Was(t), s.ticks, Was(s.ticks))
    BY <1>1, <1>3 DEF StatesLead
  <2>2. p # c BY <2>1
  <2> QED BY <1>4, <1>5, <2>2 DEF StatesLead
<1> QED BY <1>3, <1>7, <1>8, <1>9, <1>10, <1>11

LEMMA LeaveItems ==
  ASSUME IInv, IInv', ItemsInv, NEW c \in Clients, BackToLobby(c) \/ Disconnect(c)
  PROVE  ItemsInv'
<1> USE DEF ItemsInv
<1>1. PICK place \in {"lobby", "gone"} : conn' = [conn EXCEPT ![c] = place]
  BY DEF BackToLobby, Disconnect
<1>2. /\ now' = now /\ items' = items /\ switch' = switch /\ events' = events /\ past' = past
      /\ start' = start /\ main' = main
      /\ states' = [states EXCEPT ![c] = {}] /\ copy' = [copy EXCEPT ![c] = Complete(Track)]
  BY DEF BackToLobby, Disconnect, ClientStops, serverVars, history
<1>3. /\ conn'[c] = place /\ \A p \in Clients : p # c => conn'[p] = conn[p]
      /\ copy'[c] = Complete(Track) /\ \A p \in Clients : p # c => copy'[p] = copy[p]
      /\ \A p \in Clients : states'[p] \subseteq states[p]
  BY <1>1, <1>2 DEF IInv, TypeOK, Times
<1>4. \A t : Was(t)' = Was(t) BY <1>2, QuietServer
<1>5. \A p \in Racing' : /\ p \in Clients /\ p # c /\ p \in Racing
                         /\ Known(p)' = Known(p) /\ Known(p) \in Nat
  BY <1>2, <1>3 DEF Racing, Known, IInv, Times
<1>6. StartFits'
  <2>1. \A p \in Clients : conn'[p] \in {"entering", "loading"} => conn'[p] = conn[p]
    BY <1>3
  <2> QED BY <1>2, <1>4, <2>1 DEF StartFits, Was
<1>7. CopyFits'
  <2>1. Complete(Track) \in Copies BY TrackFits DEF Copies
  <2>2. \A p \in Clients : /\ copy'[p] \in Copies
                           /\ conn'[p] = "racing" => copy'[p] = copy[p] /\ conn[p] = "racing"
    BY <1>3, <2>1 DEF CopyFits
  <2> QED BY <1>4, <2>2 DEF CopyFits
<1> QED BY <1>2, <1>3, <1>5, <1>6, <1>7, QuietStep

\* A list in which nothing was used up is like itself.
LEMMA AlikeItself ==
  ASSUME NEW cs, Neat(cs)
  PROVE  Alike(cs.items, cs.items)
<1>1. \A i \in 1 .. Len(cs.items) : Left(cs.items[i]) = cs.items[i] BY DEF Neat, Left
<1> QED BY <1>1 DEF Alike, SameItem

LEMMA RestoreCompleteStateItems ==
  ASSUME IInv, IInv', ItemsInv, NEW c \in Clients, RestoreCompleteState(c)
  PROVE  ItemsInv'
<1> USE DEF ItemsInv
<1> DEFINE whole == start[c]
<1>1. /\ now' = now /\ items' = items /\ switch' = switch /\ events' = events /\ past' = past
      /\ states' = states /\ main' = main /\ conn[c] = "loading"
      /\ conn' = [conn EXCEPT ![c] = "racing"] /\ copy' = [copy EXCEPT ![c] = whole]
      /\ start' = [start EXCEPT ![c] = Complete(Track)]
  BY DEF RestoreCompleteState, serverVars, history
<1>2. /\ conn'[c] = "racing" /\ \A p \in Clients : p # c => conn'[p] = conn[p]
      /\ copy'[c] = whole /\ \A p \in Clients : p # c => copy'[p] = copy[p]
      /\ start'[c] = Complete(Track) /\ \A p \in Clients : p # c => start'[p] = start[p]
  BY <1>1 DEF IInv, TypeOK, Times
<1>3. \A t : Was(t)' = Was(t) BY <1>1, QuietServer
<1>4. \A p \in Racing' : /\ p \in Clients /\ p \in Racing
                         /\ Known(p)' = Known(p) /\ Known(p) \in Nat
  BY <1>1, <1>2 DEF Racing, Known, IInv, Times
<1>5. StartFits'
  <2>1. Complete(Track) \in Copies BY TrackFits DEF Copies
  <2>2. \A p \in Clients : /\ start'[p] \in Copies
                           /\ conn'[p] \in {"entering", "loading"} =>
                                start'[p] = start[p] /\ conn[p] \in {"entering", "loading"}
    BY <1>2, <2>1 DEF StartFits
  <2> QED BY <1>1, <1>3, <2>2 DEF StartFits, Was
<1>6. Neat(whole) /\ Alike(whole.items, Was(whole.time)) /\ whole \in Copies
  <2>1. /\ whole \in Copies /\ whole.time <= now /\ whole.items = Was(whole.time)
        /\ whole.switch = past[whole.time + 1].switch
    BY <1>1 DEF StartFits
  <2> HIDE DEF whole
  <2>2. whole.time + 1 \in 1 .. now + 1 BY <2>1 DEF Copies, IInv, TypeOK
  <2>3. Neat(whole) BY <2>1, <2>2 DEF PastFits, Neat, Was
  <2> QED BY <2>1, <2>3, AlikeItself
<1> HIDE DEF whole
<1>7. CopyFits'
  <2> SUFFICES ASSUME NEW p \in Clients
               PROVE  /\ copy'[p] \in Copies
                      /\ conn'[p] = "racing" =>
                           Neat(copy'[p]) /\ Alike(copy'[p].items, Was(copy'[p].time))
    BY <1>1 DEF CopyFits, Was
  <2>1. CASE p = c BY <1>2, <1>6, <2>1
  <2>2. CASE p # c BY <1>2, <2>2 DEF CopyFits
  <2> QED BY <2>1, <2>2
<1> QED BY <1>1, <1>4, <1>5, <1>7, QuietStep

\* A state leads the copy of a client to the items the server had.
LEMMA StateLeads ==
  ASSUME IInv, ItemsInv, NEW c \in Clients, conn[c] = "racing", NEW s \in states[c]
  PROVE  Follows(copy[c], s.events, s.ticks, Was(s.ticks)) /\ s.ticks \in 0 .. now
<1> USE DEF ItemsInv
<1>1. c \in Racing /\ Known(c) = copy[c].time /\ copy[c].time \in Nat
  BY DEF Racing, Known, IInv, Times
<1>2. copy[c].time <= s.ticks /\ s.ticks \in Nat /\ s.ticks <= now
  BY <1>1 DEF IInv, StatesComplement, Complements
<1>3. copy[c] \in Copies /\ Neat(copy[c]) /\ Alike(copy[c].items, Was(copy[c].time))
  BY DEF CopyFits
<1>4. copy[c].time \in Known(c) .. s.ticks BY <1>1, <1>2
<1>5. Leads(s.events, copy[c].time, Was(copy[c].time), s.ticks, Was(s.ticks))
  BY <1>1, <1>4 DEF StatesLead
<1>6. s.ticks \in 0 .. now BY <1>2 DEF IInv, TypeOK
<1> QED BY <1>3, <1>5, <1>6 DEF Leads

LEMMA RestoreStateItems ==
  ASSUME IInv, IInv', ItemsInv, NEW c \in Clients, NEW s \in states[c], RestoreState(c, s)
  PROVE  ItemsInv'
<1> USE DEF ItemsInv
<1> DEFINE end == Restored(copy[c], s)
           new == [time |-> s.ticks, items |-> end.items, switch |-> end.switch]
           T == s.ticks
<1>1. /\ now' = now /\ items' = items /\ switch' = switch /\ events' = events /\ past' = past
      /\ main' = main /\ start' = start /\ conn' = conn /\ conn[c] = "racing"
      /\ states' = [states EXCEPT ![c] = {o \in @ : o.ticks > s.ticks}]
      /\ copy' = [copy EXCEPT ![c] = new]
  BY Zenon DEF RestoreState, serverVars, history
<1>2. /\ copy'[c] = new /\ \A p \in Clients : p # c => copy'[p] = copy[p]
      /\ \A p \in Clients : states'[p] \subseteq states[p]
  <2> HIDE DEF new
  <2> QED BY <1>1 DEF IInv, Times
<1>3. \A t : Was(t)' = Was(t) BY <1>1, QuietServer
<1>4. Follows(copy[c], s.events, T, Was(T)) /\ T \in 0 .. now /\ T \in Nat
  BY <1>1, StateLeads
<1>5. Was(T) \in Seq(Slot)
  <2>1. T + 1 \in 1 .. now + 1 /\ DOMAIN past = 1 .. now + 1
    BY <1>4 DEF PastFits, IInv, TypeOK
  <2>2. past[T + 1] \in [items : Seq(Slot), switch : Int]
    <3>1. \A S : \A q \in Seq(S) : \A i \in DOMAIN q : q[i] \in S OBVIOUS
    <3>2. past \in Seq([items : Seq(Slot), switch : Int]) /\ T + 1 \in DOMAIN past
      BY <2>1 DEF PastFits
    <3> QED BY <3>1, <3>2, Zenon
  <2> HIDE DEF T
  <2> QED BY <2>2 DEF Was
<1>6. end \in Copies /\ Neat(end) /\ Alike(end.items, Was(T))
  <2> DEFINE done == Course(copy[c], s.events)[Len(s.events)]
  <2>1. Meets(done, T, Was(T)) BY <1>4 DEF Follows
  <2>2. end = Forward(done, T - done.time) BY DEF Restored
  <2> HIDE DEF done, end
  <2> QED BY <1>4, <1>5, <2>1, <2>2, MeetsAt DEF Meets
<1> HIDE DEF end
<1>7. /\ new \in Copies /\ Neat(new) /\ new.time = T /\ Alike(new.items, Was(new.time))
  BY <1>4, <1>6 DEF Copies, Neat
<1> HIDE DEF new
<1>8. \A p \in Racing' : p \in Racing /\ Known(p)' \in Int /\ Known(p) <= Known(p)'
  <2> TAKE p \in Racing'
  <2>1. p \in Racing /\ p \in Clients /\ Known(p) \in Nat
    BY <1>1 DEF Racing, Known, IInv, Times
  <2>2. CASE p = c
    <3>1. Known(p)' = T /\ Known(p) <= T
      BY <1>1, <1>2, <1>7, <2>2 DEF Known, Racing, IInv, StatesComplement, Complements
    <3> QED BY <1>4, <2>1, <3>1
  <2>3. CASE p # c
    <3>1. Known(p)' = Known(p) BY <1>1, <1>2, <2>1, <2>3 DEF Known
    <3> QED BY <2>1, <3>1
  <2> QED BY <2>2, <2>3
<1>9. StartFits' BY <1>1, <1>3 DEF StartFits, Was
<1>10. CopyFits'
  <2> SUFFICES ASSUME NEW p \in Clients
               PROVE  /\ copy'[p] \in Copies
                      /\ conn[p] = "racing" =>
                           Neat(copy'[p]) /\ Alike(copy'[p].items, Was(copy'[p].time))
    BY <1>1 DEF CopyFits, Was
  <2>1. CASE p = c BY <1>2, <1>7, <2>1
  <2>2. CASE p # c BY <1>2, <2>2 DEF CopyFits
  <2> QED BY <2>1, <2>2
<1> QED BY <1>1, <1>2, <1>8, <1>9, <1>10, QuietStep

LEMMA StutterItems ==
  IInv /\ ItemsInv /\ (RaceStops \/ UNCHANGED vars) => ItemsInv'
<1> SUFFICES ASSUME IInv, ItemsInv, RaceStops \/ UNCHANGED vars PROVE ItemsInv' OBVIOUS
<1> USE DEF ItemsInv
<1>1. /\ now' = now /\ items' = items /\ switch' = switch /\ events' = events
      /\ conn' = conn /\ start' = start /\ states' = states /\ copy' = copy /\ past' = past
      /\ (main' # "karts" => main # "karts")
  <2>1. CASE RaceStops
    BY <2>1 DEF RaceStops, netVars, clientVars, history
  <2>2. CASE UNCHANGED vars
    BY <2>2 DEF vars, serverVars, netVars, clientVars, history
  <2> QED BY <2>1, <2>2
<1>2. \A t : Was(t)' = Was(t) BY <1>1, QuietServer
<1>3. \A p \in Racing' : p \in Racing /\ Known(p)' \in Int /\ Known(p) <= Known(p)'
  <2>1. \A p \in Racing : Known(p) \in Nat BY DEF Known, Racing, IInv, Times
  <2> QED BY <1>1, <2>1 DEF Racing, Known
<1>4. StartFits' BY <1>1, <1>2 DEF StartFits, Was
<1>5. CopyFits' BY <1>1, <1>2 DEF CopyFits
<1> QED BY <1>1, <1>3, <1>4, <1>5, QuietStep

\* What was lost once is lost for good.
LEMMA UnaskedStays == TypeOK /\ [Next]_vars /\ ~unasked' => ~unasked
<1> SUFFICES ASSUME unasked \in BOOLEAN, [Next]_vars, unasked PROVE unasked'
  BY DEF TypeOK
<1>1. CASE DiscardEvents BY <1>1 DEF DiscardEvents
<1>2. ASSUME NEW c \in Clients, NEW t \in confs[c], ConfirmItems(c, t) PROVE unasked' = unasked
  BY <1>2, Zenon DEF ConfirmItems
<1>3. ASSUME NEW c \in Clients, Lobby(c) PROVE unasked' = unasked
  BY <1>3, Zenon DEF Lobby, SaveCompleteState, AddLiveJoinPeer, BackToLobby, Disconnect, discards
<1>4. ASSUME NEW c \in Clients, RestoreCompleteState(c) PROVE unasked' = unasked
  BY <1>4, Zenon DEF RestoreCompleteState, discards
<1>5. ASSUME NEW c \in Clients, Restore(c) PROVE unasked' = unasked
  BY <1>5, Zenon DEF Restore, RestoreState, discards
<1>6. CASE SaveState \/ UpdateItems \/ RaceStops
  BY <1>6, Zenon DEF SaveState, UpdateItems, RaceStops, discards
<1>7. CASE DropItem \/ SwitchItems \/ \E i \in DOMAIN items : CollectItem(i)
  BY <1>7, Zenon DEF DropItem, SwitchItems, CollectItem, discards
<1>8. CASE UNCHANGED vars \/ Over BY <1>8, Zenon DEF Over, vars, discards
<1> QED BY <1>1, <1>2, <1>3, <1>4, <1>5, <1>6, <1>7, <1>8 DEF Next

LEMMA StepItems == IInv /\ IInv' /\ ItemsInv /\ [Next]_vars /\ ~unasked' => ItemsInv'
<1> SUFFICES ASSUME IInv, IInv', ItemsInv, [Next]_vars, ~unasked' PROVE ItemsInv' OBVIOUS
<1>1. CASE SaveState BY <1>1, SaveStateItems
<1>2. CASE DropItem \/ SwitchItems \/ \E i \in DOMAIN items : CollectItem(i)
  BY <1>2, KartsItems
<1>3. CASE UpdateItems BY <1>3, UpdateItemsItems
<1>4. ASSUME NEW c \in Clients, NEW t \in confs[c], ConfirmItems(c, t) PROVE ItemsInv'
  BY <1>4, ConfirmItemsItems
<1>5. ASSUME NEW c \in Clients, Lobby(c) PROVE ItemsInv'
  <2>1. CASE SaveCompleteState(c) BY <2>1, SaveCompleteStateItems
  <2>2. CASE AddLiveJoinPeer(c) BY <2>2, AddLiveJoinPeerItems
  <2>3. CASE BackToLobby(c) \/ Disconnect(c) BY <2>3, LeaveItems
  <2> QED BY <1>5, <2>1, <2>2, <2>3 DEF Lobby
<1>6. ASSUME NEW c \in Clients, RestoreCompleteState(c) PROVE ItemsInv'
  BY <1>6, RestoreCompleteStateItems
<1>7. ASSUME NEW c \in Clients, Restore(c) PROVE ItemsInv'
  BY <1>7, RestoreStateItems DEF Restore
<1>8. CASE RaceStops \/ Over \/ UNCHANGED vars BY <1>8, StutterItems DEF Over
<1>9. CASE DiscardEvents BY <1>9, DiscardEventsItems
<1> QED BY <1>1, <1>2, <1>3, <1>4, <1>5, <1>6, <1>7, <1>8, <1>9 DEF Next

\* Whatever leads a copy like a past state of the server to its items goes on
\* leading there: the list of events that the server keeps, and the lists in
\* the states on their way (NetworkItemManager::saveState and restoreState),
\* as long as no events were discarded unasked.
THEOREM ItemsInvariant == Spec => [](IInv /\ (~unasked => ItemsInv))
<1>1. Init => IInv /\ ItemsInv BY InitInv, InitItems
<1>2. IInv /\ (~unasked => ItemsInv) /\ [Next]_vars => IInv' /\ (~unasked' => ItemsInv')
  BY StepInv, StepItems, UnaskedStays DEF IInv
<1> QED BY <1>1, <1>2, PTL DEF Spec

\* After every restored state a client has the items that the server had at
\* that time, in the same places (NetworkItemManager::restoreState), unless
\* events were discarded for an empty map.
THEOREM SameItems == Spec => []ItemsAgree
<1>1. IInv /\ (~unasked => ItemsInv) => ItemsAgree
  <2> SUFFICES ASSUME IInv, ItemsInv, NEW c \in Clients, conn[c] = "racing"
               PROVE  /\ Len(copy[c].items) = Len(Then(c).items)
                      /\ \A i \in DOMAIN copy[c].items :
                           SameItem(copy[c].items[i], Then(c).items[i])
    BY DEF ItemsAgree
  <2>1. copy[c] \in Copies /\ Alike(copy[c].items, Then(c).items)
    BY DEF ItemsInv, CopyFits, Was, Then
  <2>2. copy[c].time + 1 \in 1 .. now + 1
    BY <2>1 DEF IInv, KnownIsPast, Racing, Known, TypeOK, Copies
  <2>3. Neat(Then(c)) BY <2>2 DEF ItemsInv, PastFits, Then
  <2>4. DOMAIN copy[c].items = 1 .. Len(copy[c].items) BY <2>1 DEF Copies
  <2>5. \A i \in 1 .. Len(Then(c).items) : Left(Then(c).items[i]) = Then(c).items[i]
    BY <2>3 DEF Neat, Left
  <2> QED BY <2>1, <2>4, <2>5 DEF Alike
<1> QED BY <1>1, ItemsInvariant, PTL

\* The assertions of restoreState hold for every state on its way to a client:
\* what was collected exists, and a new item gets a free place (unless events
\* were discarded for an empty map).
THEOREM AssertionsNeverFail == Spec => []AssertionsHold
<1>1. IInv /\ (~unasked => ItemsInv) => AssertionsHold
  <2> SUFFICES ASSUME IInv, ItemsInv, NEW c \in Clients, conn[c] = "racing",
                      NEW s \in states[c], NEW i \in Fresh(s, copy[c].time)
               PROVE  Holds(s.events[i], Course(copy[c], s.events)[i - 1].items)
    BY Zenon DEF AssertionsHold, Holds
  <2>1. Follows(copy[c], s.events, s.ticks, Was(s.ticks)) BY StateLeads
  <2>2. i \in 1 .. Len(s.events) /\ s.events[i].ticks >= copy[c].time
    BY DEF ItemsInv, EventsTyped, Fresh
  <2> QED BY <2>1, <2>2 DEF Follows
<1> QED BY <1>1, ItemsInvariant, PTL

-----------------------------------------------------------------------------
(* The refinement of EventLog                                              *)

Seen == [c \in Clients |-> SeenBy(c)]

LEMMA InitLog == Init => Abstract!Init
<1> SUFFICES ASSUME Init PROVE Abstract!Init OBVIOUS
<1>1. Len(log) = 0 /\ Racing \subseteq Clients BY DEF Init, Racing
<1>2. \A c \in Clients : SeenBy(c) = {}
  BY <1>1 DEF SeenBy, Init
<1> QED BY <1>1, <1>2 DEF Abstract!Init

\* What the lower level sees of a step that is none at the upper level
LEMMA SameLog ==
  ASSUME log' = log, Racing' = Racing, \A c \in Clients : SeenBy(c)' = SeenBy(c)
  PROVE  UNCHANGED Abstract!vars
BY DEF Abstract!vars

\* The server logs an event: whoever is loading has not seen it.
LEMMA LogRefines ==
  ASSUME IInv, main = "karts", log' = Append(log, now),
         conn' = conn, start' = start, applied' = applied
  PROVE  Abstract!Log
<1>1. /\ now \in Nat /\ Len(log) \in Nat /\ Len(log') = Len(log) + 1
      /\ \A n \in 1 .. Len(log) : log'[n] = log[n]
      /\ log'[Len(log) + 1] = now
  BY DEF IInv, TypeOK
<1>2. Racing' = Racing BY DEF Racing
<1>3. ASSUME NEW c \in Clients PROVE SeenBy(c)' = SeenBy(c)
  <2>1. CASE conn[c] = "loading"
    <3>1. start[c].time \in Nat /\ start[c].time <= now
      BY <2>1 DEF IInv, Times, KnownIsPast, Known, Racing
    <3>2. {n \in 1 .. Len(log') : log'[n] < start[c].time}
            = {n \in 1 .. Len(log) : log[n] < start[c].time}
      BY <1>1, <3>1
    <3>3. DOMAIN log = 1 .. Len(log) /\ DOMAIN log' = 1 .. Len(log')
      BY DEF IInv, TypeOK
    <3> QED BY <2>1, <3>2, <3>3 DEF SeenBy
  <2>2. CASE conn[c] # "loading" BY <2>2 DEF SeenBy
  <2> QED BY <2>1, <2>2
<1> QED BY <1>1, <1>2, <1>3 DEF Abstract!Log

LEMMA JoinRefines ==
  ASSUME IInv, NEW c \in Clients, AddLiveJoinPeer(c)
  PROVE  Abstract!Join(c)
<1>1. /\ conn[c] = "entering" /\ main = "join" /\ log' = log /\ start' = start
      /\ applied' = applied /\ conn' = [conn EXCEPT ![c] = "loading"]
  BY Zenon DEF AddLiveJoinPeer, netVars, clientVars, history
<1>2. conn'[c] = "loading" /\ \A p \in Clients : p # c => conn'[p] = conn[p]
  BY <1>1 DEF IInv, TypeOK
<1>3. Racing' = Racing \cup {c} /\ c \notin Racing BY <1>1, <1>2 DEF Racing
<1>4. start[c].time = now BY <1>1 DEF IInv, OneJoins
<1>5. DOMAIN log = 1 .. Len(log) /\ \A n \in DOMAIN log : log[n] < now
  BY <1>1 DEF IInv, LogInOrder, TypeOK
<1>6. SeenBy(c)' = 1 .. Len(log) BY <1>1, <1>2, <1>4, <1>5 DEF SeenBy
<1>7. \A p \in Clients : p # c => SeenBy(p)' = SeenBy(p)
  BY <1>1, <1>2 DEF SeenBy
<1>8. Seen' = [Seen EXCEPT ![c] = 1 .. Len(log)] BY <1>6, <1>7 DEF Seen
<1> QED BY <1>1, <1>3, <1>8 DEF Abstract!Join, Abstract!Events, Seen

LEMMA LeaveRefines ==
  ASSUME IInv, NEW c \in Clients, BackToLobby(c) \/ Disconnect(c)
  PROVE  Abstract!Leave(c)
<1>1. PICK place \in {"lobby", "gone"} : conn' = [conn EXCEPT ![c] = place]
  BY Zenon DEF BackToLobby, Disconnect
<1>2. /\ c \in Racing /\ log' = log /\ start' = start
      /\ applied' = [applied EXCEPT ![c] = {}]
  BY Zenon DEF BackToLobby, Disconnect, ClientStops, serverVars, history
<1>3. conn'[c] = place /\ \A p \in Clients : p # c => conn'[p] = conn[p]
  BY <1>1 DEF IInv, TypeOK
<1>4. \A p \in Clients : p # c => applied'[p] = applied[p]
  BY <1>2 DEF IInv, TypeOK
<1>5. Racing' = Racing \ {c} BY <1>3 DEF Racing
<1>6. SeenBy(c)' = {} BY <1>3 DEF SeenBy
<1>7. \A p \in Clients : p # c => SeenBy(p)' = SeenBy(p)
  BY <1>2, <1>3, <1>4 DEF SeenBy
<1>8. Seen' = [Seen EXCEPT ![c] = {}] BY <1>6, <1>7 DEF Seen
<1> QED BY <1>2, <1>5, <1>8 DEF Abstract!Leave, Seen

LEMMA CatchUpRefines ==
  ASSUME IInv, ~unasked, NEW c \in Clients, NEW s \in states[c], RestoreState(c, s)
  PROVE  Abstract!CatchUp(c)
<1> DEFINE S == {n \in DOMAIN log : log[n] < s.ticks}
<1>1. Known(c) <= s.ticks /\ log' = log /\ applied' = [applied EXCEPT ![c] = S]
  BY RestoreStateInv
<1>2. conn[c] = "racing" /\ conn' = conn /\ start' = start
  BY Zenon DEF RestoreState
<1>3. c \in Racing /\ Racing' = Racing BY <1>2 DEF Racing
<1>4. DOMAIN log = 1 .. Len(log) /\ Len(log) \in Nat /\ \A n \in DOMAIN log : log[n] \in Nat
  BY DEF IInv, TypeOK
<1>5. copy[c].time \in Nat /\ s.ticks \in Nat /\ copy[c].time <= s.ticks
  BY <1>1, <1>2 DEF Known, IInv, Times, StatesComplement, Complements
<1>6. SeenBy(c) \subseteq S
  <2>1. SeenBy(c) = {n \in DOMAIN log : log[n] < copy[c].time}
    BY <1>2 DEF SeenBy, IInv, CaughtUp
  <2> QED BY <1>4, <1>5, <2>1
<1>7. \A n \in S : 1 .. n \subseteq S
  <2> SUFFICES ASSUME NEW n \in S, NEW m \in 1 .. n PROVE m \in S OBVIOUS
  <2>1. m \in DOMAIN log /\ m <= n BY <1>4
  <2>2. log[m] <= log[n] BY <2>1 DEF IInv, LogInOrder
  <2> QED BY <1>4, <1>5, <2>1, <2>2
<1>8. SeenBy(c)' = S /\ \A p \in Clients : p # c => SeenBy(p)' = SeenBy(p)
  <2>1. applied'[c] = S /\ \A p \in Clients : p # c => applied'[p] = applied[p]
    BY <1>1 DEF IInv, TypeOK
  <2> HIDE DEF S
  <2> QED BY <1>1, <1>2, <2>1 DEF SeenBy
<1>9. Seen' = [Seen EXCEPT ![c] = S] /\ Seen[c] = SeenBy(c)
  <2> HIDE DEF S
  <2> QED BY <1>8 DEF Seen
<1>10. S \in SUBSET (1 .. Len(log)) BY <1>4
<1> HIDE DEF S
<1> QED BY <1>1, <1>3, <1>6, <1>7, <1>9, <1>10
     DEF Abstract!CatchUp, Abstract!Events, Abstract!Initial, Seen

LEMMA StepLog == IInv /\ [Next]_vars => [unasked' \/ Abstract!Next]_(Abstract!vars)
<1> SUFFICES ASSUME IInv, [Next]_vars, ~unasked'
             PROVE  Abstract!Next \/ UNCHANGED Abstract!vars
  OBVIOUS
<1>1. ASSUME UNCHANGED <<conn, start, applied, log>> PROVE UNCHANGED Abstract!vars
  <2>1. log' = log /\ conn' = conn /\ start' = start /\ applied' = applied
    BY <1>1
  <2>2. Racing' = Racing /\ \A c \in Clients : SeenBy(c)' = SeenBy(c)
    BY <2>1 DEF Racing, SeenBy
  <2> QED BY <2>1, <2>2, SameLog
<1>2. CASE SaveState BY <1>1, <1>2 DEF SaveState, clientVars, history
<1>3. CASE DropItem \/ SwitchItems \/ \E i \in DOMAIN items : CollectItem(i)
  <2>1. main = "karts" /\ log' = Append(log, now) /\ conn' = conn
        /\ start' = start /\ applied' = applied
    BY <1>3, Zenon DEF DropItem, SwitchItems, CollectItem, Log, netVars, clientVars
  <2> QED BY <2>1, LogRefines DEF Abstract!Next
<1>4. CASE UpdateItems BY <1>1, <1>4 DEF UpdateItems, netVars, clientVars
<1>5. ASSUME RaceStops \/ DiscardEvents
               \/ \E c \in Clients : \E t \in confs[c] : ConfirmItems(c, t)
      PROVE  UNCHANGED Abstract!vars
  <2>1. UNCHANGED <<conn, start, applied, log>>
    BY <1>5, Zenon DEF RaceStops, DiscardEvents, ConfirmItems, netVars, clientVars, history
  <2> QED BY <1>1, <2>1
<1>6. ASSUME NEW c \in Clients, SaveCompleteState(c) PROVE UNCHANGED Abstract!vars
  <2>1. /\ conn[c] = "lobby" /\ log' = log /\ applied' = applied
        /\ conn' = [conn EXCEPT ![c] = "entering"]
        /\ \A p \in Clients : p # c => start'[p] = start[p]
    BY <1>6 DEF SaveCompleteState, clientVars, history, IInv, Times
  <2>2. conn'[c] = "entering" /\ \A p \in Clients : p # c => conn'[p] = conn[p]
    BY <2>1 DEF IInv, TypeOK
  <2>3. Racing' = Racing BY <2>1, <2>2 DEF Racing
  <2>4. \A p \in Clients : SeenBy(p)' = SeenBy(p) BY <2>1, <2>2 DEF SeenBy
  <2> QED BY <2>1, <2>3, <2>4, SameLog
<1>7. ASSUME NEW c \in Clients, RestoreCompleteState(c) PROVE UNCHANGED Abstract!vars
  <2> DEFINE before == {n \in 1 .. Len(log) : log[n] < start[c].time}
  <2>1. /\ conn[c] = "loading" /\ log' = log
        /\ conn' = [conn EXCEPT ![c] = "racing"]
        /\ applied' = [applied EXCEPT ![c] = before]
        /\ \A p \in Clients : p # c => start'[p] = start[p]
    BY <1>7 DEF RestoreCompleteState, history, IInv, Times
  <2>2. /\ conn'[c] = "racing" /\ \A p \in Clients : p # c => conn'[p] = conn[p]
        /\ applied'[c] = before
        /\ \A p \in Clients : p # c => applied'[p] = applied[p]
    BY <2>1 DEF IInv, TypeOK
  <2>3. Racing' = Racing BY <2>1, <2>2 DEF Racing
  <2>4. DOMAIN log = 1 .. Len(log) BY DEF IInv, TypeOK
  <2>5. \A p \in Clients : SeenBy(p)' = SeenBy(p)
    BY <2>1, <2>2, <2>4 DEF SeenBy
  <2> QED BY <2>1, <2>3, <2>5, SameLog
<1>8. ASSUME NEW c \in Clients, Lobby(c) PROVE Abstract!Next \/ UNCHANGED Abstract!vars
  <2>1. CASE SaveCompleteState(c) BY <1>6, <2>1
  <2>2. CASE AddLiveJoinPeer(c) BY <2>2, JoinRefines DEF Abstract!Next
  <2>3. CASE BackToLobby(c) \/ Disconnect(c) BY <2>3, LeaveRefines DEF Abstract!Next
  <2> QED BY <1>8, <2>1, <2>2, <2>3 DEF Lobby
<1>9. ASSUME NEW c \in Clients, Restore(c) PROVE Abstract!Next
  <2>1. ~unasked BY UnaskedStays DEF IInv
  <2> QED BY <1>9, <2>1, CatchUpRefines DEF Restore, Abstract!Next
<1>10. CASE UNCHANGED vars \/ Over BY <1>1, <1>10 DEF Over, vars, netVars, clientVars, history
<1> QED BY <1>2, <1>3, <1>4, <1>5, <1>7, <1>8, <1>9, <1>10 DEF Next

\* The item protocol implements a log whose replicas apply every event once
\* and in order, step by step until events are discarded for an empty map.
THEOREM Refinement == Spec => ImplementsLog
<1>1. Spec => []IInv BY Invariant
<1> QED BY <1>1, InitLog, StepLog, PTL DEF Spec, ImplementsLog

\* A race in which that never happens is a behaviour of the log.
THEOREM RefinementWhileAsked == Spec /\ []~unasked => Abstract!Spec
<1>1. (~unasked)' /\ [unasked' \/ Abstract!Next]_(Abstract!vars)
        => [Abstract!Next]_(Abstract!vars)
  OBVIOUS
<1> QED BY <1>1, Refinement, PTL DEF ImplementsLog, Abstract!Spec
=============================================================================
