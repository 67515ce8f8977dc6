----------------------- MODULE ProtocolManagerProofs -----------------------
(***************************************************************************)
(* Proofs about ProtocolManager, for every set of protocols, of events and *)
(* of handlers, on a client and on a server: every event has one owner and *)
(* is deleted once, and a protocol handles an event at most once and the   *)
(* events of one list in the order of their arrival.                       *)
(***************************************************************************)
EXTENDS ProtocolManager, TLAPS

-----------------------------------------------------------------------------
(* The inductive invariant                                                 *)

\* Who may do what: the counters of the threads, the shared pointers they
\* hold and the end of the manager.
Control ==
    /\ exit <=> mpc # "run"
    /\ mpc # "run" => at["main"] = "idle"
    /\ at["main"] # "gone"
    /\ at["async"] = "gone" => exit
    /\ \A t \in Threads : at[t] # "events" => pos[t] = 1
    /\ netAt = "propagate" => arrived < MaxEvents
    /\ "net" \in holders <=> netAt # "poll"
    /\ "async" \in holders <=> at["async"] # "gone"
    /\ "ctrl" \in holders <=> ctrlAt # "dead"
    /\ "main" \in holders <=> mpc \in {"push", "joinctrl", "joinasync", "release"}
    /\ ctrlEv # None <=> ctrlAt = "deliver"
    /\ destroyer # "none" => holders = {}

\* An event of list l that was propagated
Sound(e, l) == ListOf(e.kind) = l /\ e.id <= arrived

\* The events of a list, in order of arrival
Increasing(s) ==
    \A i, j \in 1..Len(s) :
        i < j /\ s[i] # None /\ s[j] # None => s[i].id < s[j].id

Queued ==
    /\ \A l \in Lists : Increasing(list[l])
    /\ \A l \in Lists : \A i \in 1..Len(list[l]) :
          list[l][i] # None => Sound(list[l][i], l)

\* The event that the controller event thread has taken
InHand ==
    ctrlEv # None =>
        /\ ListOf(ctrlEv.kind) = "ctrl"
        /\ ctrlEv.id \notin deleted
        /\ \A i \in 1..Len(list["ctrl"]) :
              list["ctrl"][i] # None => ctrlEv.id < list["ctrl"][i].id

Wants(p, e) == Concerns(p, e) /\ HasHandler(p, e)

\* What p has handled came before all that waits for p.
Before(p, h) ==
    /\ h.id \in deleted
    /\ ListOf(h.kind) = "ctrl" /\ ctrlEv # None => h.id < ctrlEv.id
    /\ \A i \in 1..Len(list[ListOf(h.kind)]) :
          LET e == list[ListOf(h.kind)][i]
          IN e # None /\ e.id < h.id => ListOf(h.kind) # "ctrl" /\ ~Wants(p, e)

Past == \A p \in Protocols : \A n \in 1..Len(handled[p]) : Before(p, handled[p][n])

\* What a pass has left behind concerns nobody in it.
PassedOver ==
    \A t \in Threads : \A p \in snap[t] : \A i \in 1..Len(list[t]) :
        at[t] = "events" /\ i < pos[t] => ~Wants(p, list[t][i])

Core == Queued /\ InHand /\ Past /\ OneOwner /\ HandledOnce /\ InOrder

IInv == TypeOK /\ Control /\ Core /\ PassedOver

-----------------------------------------------------------------------------
(* Lists of events                                                         *)

Entries == Events \cup {None}

\* s2 is s without its k-th element.
Without(s2, s, k) ==
    /\ Len(s2) = Len(s) - 1
    /\ \A j \in 1..Len(s2) : s2[j] = IF j < k THEN s[j] ELSE s[j + 1]

\* s2 is s with e at the end.
With(s2, s, e) ==
    /\ Len(s2) = Len(s) + 1
    /\ \A j \in 1..Len(s) : s2[j] = s[j]
    /\ s2[Len(s) + 1] = e

LEMMA EventFacts ==
  ASSUME NEW e \in Events
  PROVE  e # None /\ e.id \in 1..MaxEvents /\ e.kind \in Kinds
<1>1. e.id \in 1..MaxEvents /\ e.kind \in Kinds /\ e \in [id : Nat, kind : Kinds]
  BY PMAssumption DEF Events
<1> QED BY <1>1, PMAssumption

LEMMA AppendWith ==
  ASSUME NEW T, NEW s \in Seq(T), NEW e \in T
  PROVE  Append(s, e) \in Seq(T) /\ With(Append(s, e), s, e)
BY DEF With

LEMMA RemoveWithout ==
  ASSUME NEW T, NEW s \in Seq(T), NEW k \in 1..Len(s)
  PROVE  RemoveAt(s, k) \in Seq(T) /\ Without(RemoveAt(s, k), s, k)
<1> DEFINE a == SubSeq(s, 1, k - 1)
           b == SubSeq(s, k + 1, Len(s))
<1>1. Len(s) \in Nat /\ \A i \in 1..Len(s) : s[i] \in T OBVIOUS
<1>2. a \in Seq(T) /\ Len(a) = k - 1 /\ \A i \in 1..Len(a) : a[i] = s[i]
  BY <1>1
<1>3. b \in Seq(T) /\ Len(b) = Len(s) - k /\ \A i \in 1..Len(b) : b[i] = s[k + i]
  BY <1>1
<1> HIDE DEF a, b
<1>4. /\ a \o b \in Seq(T) /\ Len(a \o b) = Len(s) - 1
      /\ \A i \in 1..Len(a \o b) :
            (a \o b)[i] = IF i <= Len(a) THEN a[i] ELSE b[i - Len(a)]
  <2>1. a \in Seq(T) /\ b \in Seq(T) BY <1>2, <1>3
  <2>2. /\ a \o b \in Seq(T) /\ Len(a \o b) = Len(a) + Len(b)
        /\ \A i \in 1..Len(a \o b) :
              (a \o b)[i] = IF i <= Len(a) THEN a[i] ELSE b[i - Len(a)]
    BY <2>1
  <2> QED BY <1>1, <1>2, <1>3, <2>2
<1>5. \A i \in 1..Len(a \o b) : (a \o b)[i] = IF i < k THEN s[i] ELSE s[i + 1]
  <2> TAKE i \in 1..Len(a \o b)
  <2>1. CASE i < k BY <1>1, <1>2, <1>4, <2>1
  <2>2. CASE ~(i < k)
    <3>1. i - Len(a) \in 1..Len(b) /\ k + (i - Len(a)) = i + 1
      BY <1>1, <1>2, <1>3, <1>4, <2>2
    <3> QED BY <1>2, <1>3, <1>4, <2>2, <3>1
  <2> QED BY <2>1, <2>2
<1> QED BY <1>4, <1>5 DEF RemoveAt, Without, a, b

LEMMA TailWithout ==
  ASSUME NEW s \in Seq(Entries), s # <<>>
  PROVE  /\ Tail(s) \in Seq(Entries) /\ Without(Tail(s), s, 1)
         /\ Len(s) \in Nat /\ 1 \in 1..Len(s) /\ Head(s) = s[1] /\ Head(s) \in Entries
<1>1. /\ Len(s) \in Nat /\ Len(s) >= 1 /\ Head(s) = s[1] /\ s[1] \in Entries
  OBVIOUS
<1>2. Tail(s) \in Seq(Entries) /\ Len(Tail(s)) = Len(s) - 1
  OBVIOUS
<1>3. \A j \in 1..Len(Tail(s)) : Tail(s)[j] = s[j + 1]
  OBVIOUS
<1> QED BY <1>1, <1>2, <1>3 DEF Without

LEMMA IdsOf ==
  ASSUME NEW s, NEW x
  PROVE  x \in Ids(s) <=> \E i \in 1..Len(s) : s[i] # None /\ s[i].id = x
BY DEF Ids

LEMMA IncreasingWithout ==
  ASSUME NEW s \in Seq(Entries), NEW k \in 1..Len(s), NEW s2,
         Without(s2, s, k), Increasing(s)
  PROVE  Increasing(s2)
<1> SUFFICES ASSUME NEW i \in 1..Len(s2), NEW j \in 1..Len(s2),
                    i < j, s2[i] # None, s2[j] # None
             PROVE  s2[i].id < s2[j].id
  BY DEF Increasing
<1> DEFINE at_(n) == IF n < k THEN n ELSE n + 1
<1>0. Len(s) \in Nat /\ Len(s2) = Len(s) - 1 BY DEF Without
<1>1. at_(i) \in 1..Len(s) /\ at_(j) \in 1..Len(s) /\ at_(i) < at_(j) BY <1>0
<1>2. s2[i] = s[at_(i)] /\ s2[j] = s[at_(j)] BY DEF Without
<1> HIDE DEF at_
<1> QED BY <1>1, <1>2 DEF Increasing

LEMMA IdsWithout ==
  ASSUME NEW s \in Seq(Entries), NEW k \in 1..Len(s), NEW s2,
         Without(s2, s, k), Increasing(s), s[k] # None
  PROVE  Ids(s2) = Ids(s) \ {s[k].id}
<1>0. /\ Len(s) \in Nat /\ Len(s2) = Len(s) - 1
      /\ \A i \in 1..Len(s) : s[i] \in Entries /\ (s[i] # None => s[i].id \in Nat)
  BY EventFacts DEF Without, Entries
<1>1. ASSUME NEW x \in Ids(s2) PROVE x \in Ids(s) /\ x # s[k].id
  <2>1. PICK i \in 1..Len(s2) : s2[i] # None /\ s2[i].id = x BY <1>1, IdsOf
  <2>2. PICK n \in 1..Len(s) : n # k /\ s[n] = s2[i]
    <3>1. CASE i < k
      <4>1. i \in 1..Len(s) /\ s2[i] = s[i] BY <1>0, <3>1 DEF Without
      <4> QED BY <3>1, <4>1
    <3>2. CASE ~(i < k)
      <4>1. i + 1 \in 1..Len(s) /\ s2[i] = s[i + 1] /\ i + 1 # k BY <1>0, <3>2 DEF Without
      <4> QED BY <4>1
    <3> QED BY <3>1, <3>2
  <2>3. n < k \/ k < n BY <1>0, <2>2
  <2>4. s[n].id # s[k].id BY <1>0, <2>1, <2>2, <2>3 DEF Increasing
  <2> QED BY <2>1, <2>2, <2>4, IdsOf
<1>2. ASSUME NEW x \in Ids(s), x # s[k].id PROVE x \in Ids(s2)
  <2>1. PICK n \in 1..Len(s) : s[n] # None /\ s[n].id = x BY <1>2, IdsOf
  <2>2. n # k BY <1>2, <2>1
  <2>3. CASE n < k
    <3>1. n \in 1..Len(s2) /\ s2[n] = s[n] BY <1>0, <2>3 DEF Without
    <3> QED BY <2>1, <3>1, IdsOf
  <2>4. CASE n > k
    <3>1. n - 1 \in 1..Len(s2) /\ ~(n - 1 < k) /\ (n - 1) + 1 = n BY <1>0, <2>4
    <3>2. s2[n - 1] = s[n] BY <3>1 DEF Without
    <3> QED BY <2>1, <3>1, <3>2, IdsOf
  <2> QED BY <2>2, <2>3, <2>4
<1> QED BY <1>1, <1>2

\* The end that abort() has pushed leaves the list.
LEMMA IdsWithoutNone ==
  ASSUME NEW s \in Seq(Entries), s # <<>>, Head(s) = None
  PROVE  Ids(Tail(s)) = Ids(s)
<1>0. /\ Without(Tail(s), s, 1) /\ Len(s) \in Nat /\ Len(Tail(s)) = Len(s) - 1
      /\ s[1] = None
  BY TailWithout DEF Without
<1>1. ASSUME NEW x \in Ids(Tail(s)) PROVE x \in Ids(s)
  <2>1. PICK i \in 1..Len(Tail(s)) : Tail(s)[i] # None /\ Tail(s)[i].id = x BY <1>1, IdsOf
  <2>2. i + 1 \in 1..Len(s) /\ Tail(s)[i] = s[i + 1] BY <1>0 DEF Without
  <2> QED BY <2>1, <2>2, IdsOf
<1>2. ASSUME NEW x \in Ids(s) PROVE x \in Ids(Tail(s))
  <2>1. PICK n \in 1..Len(s) : s[n] # None /\ s[n].id = x BY <1>2, IdsOf
  <2>2. n - 1 \in 1..Len(Tail(s)) /\ ~(n - 1 < 1) /\ (n - 1) + 1 = n BY <1>0, <2>1
  <2>3. Tail(s)[n - 1] = s[n] BY <1>0, <2>2 DEF Without
  <2> QED BY <2>1, <2>2, <2>3, IdsOf
<1> QED BY <1>1, <1>2

LEMMA IdsWith ==
  ASSUME NEW s \in Seq(Entries), NEW e \in Entries, NEW s2, With(s2, s, e)
  PROVE  Ids(s2) = Ids(s) \cup (IF e = None THEN {} ELSE {e.id})
<1>0. Len(s) \in Nat /\ Len(s2) = Len(s) + 1 BY DEF With
<1>1. ASSUME NEW x \in Ids(s2) PROVE x \in Ids(s) \cup (IF e = None THEN {} ELSE {e.id})
  <2>1. PICK i \in 1..Len(s2) : s2[i] # None /\ s2[i].id = x BY <1>1, IdsOf
  <2>2. CASE i \in 1..Len(s) BY <2>1, <2>2, IdsOf DEF With
  <2>3. CASE i = Len(s) + 1 BY <2>1, <2>3 DEF With
  <2> QED BY <1>0, <2>2, <2>3
<1>2. ASSUME NEW x \in Ids(s) PROVE x \in Ids(s2)
  <2>1. PICK n \in 1..Len(s) : s[n] # None /\ s[n].id = x BY <1>2, IdsOf
  <2>2. n \in 1..Len(s2) /\ s2[n] = s[n] BY <1>0 DEF With
  <2> QED BY <2>1, <2>2, IdsOf
<1>3. e # None => e.id \in Ids(s2)
  <2>1. Len(s) + 1 \in 1..Len(s2) /\ s2[Len(s) + 1] = e BY <1>0 DEF With
  <2> QED BY <2>1, IdsOf
<1> QED BY <1>1, <1>2, <1>3

-----------------------------------------------------------------------------
(* Types, program counters and shared pointers                             *)

LEMMA ListTypes ==
  ASSUME TypeOK, NEW l \in Lists
  PROVE  /\ list[l] \in Seq(Entries) /\ Len(list[l]) \in Nat
         /\ \A i \in 1..Len(list[l]) :
               /\ list[l][i] \in Entries
               /\ list[l][i] # None =>
                     /\ list[l][i] \in Events /\ list[l][i].id \in 1..MaxEvents
                     /\ list[l][i].kind \in Kinds
               /\ l # "ctrl" => list[l][i] # None
<1>1. list[l] \in Seq(Entries) BY DEF TypeOK, Entries
<1>2. Len(list[l]) \in Nat /\ \A i \in 1..Len(list[l]) : list[l][i] \in Entries
  BY <1>1
<1>3. ASSUME l # "ctrl", NEW i \in 1..Len(list[l]) PROVE list[l][i] # None
  <2>1. list[l] \in Seq(Events) BY <1>3 DEF TypeOK, Lists
  <2>2. list[l][i] \in Events BY <2>1
  <2> QED BY <2>2, EventFacts
<1> QED BY <1>1, <1>2, <1>3, EventFacts DEF Entries

LEMMA FreesTypes ==
  ASSUME TypeOK
  PROVE  /\ \A l \in Lists : Ids(list[l]) \in SUBSET (1..MaxEvents)
         /\ Frees \in SUBSET (1..MaxEvents)
<1>1. ASSUME NEW l \in Lists, NEW x \in Ids(list[l]) PROVE x \in 1..MaxEvents
  BY <1>1, ListTypes, IdsOf
<1> QED BY <1>1 DEF Frees

LEMMA KindList ==
  ASSUME NEW k PROVE ListOf(k) \in Lists
BY DEF ListOf, Lists, Threads

LEMMA EmptyLists ==
  /\ <<>> \in Seq(Events)
  /\ [l \in Lists |-> <<>>] \in [Lists -> Seq(Entries)]
  /\ <<>> \in Seq(Entries) /\ Len(<<>>) = 0
OBVIOUS

LEMMA MaxIsNat == MaxEvents \in Nat
BY PMAssumption

\* The two halves of TypeOK
ListsTyped ==
    /\ list \in [Lists -> Seq(Entries)]
    /\ \A t \in Threads : list[t] \in Seq(Events)
    /\ handled \in [Protocols -> Seq(Events)]
    /\ pos \in [Threads -> Nat \ {0}]
    /\ \A t \in Threads : pos[t] <= Len(list[t]) + 1

RestTyped ==
    /\ running \in SUBSET Protocols /\ started \in SUBSET Protocols
    /\ snap \in [Threads -> SUBSET Protocols]
    /\ at \in [Threads -> {"idle", "events", "gone"}]
    /\ old \in SUBSET (1..MaxEvents)
    /\ ctrlAt \in {"awake", "asleep", "deliver", "dead"}
    /\ ctrlEv \in Entries
    /\ racing \in BOOLEAN /\ netAt \in {"poll", "propagate", "release"}
    /\ exit \in BOOLEAN
    /\ mpc \in {"run", "push", "joinctrl", "joinasync", "release", "done"}
    /\ holders \in SUBSET {"main", "async", "ctrl", "net"}
    /\ destroyer \in {"none", "main", "async", "ctrl", "net"}
    /\ arrived \in 0..MaxEvents /\ deleted \in SUBSET (1..MaxEvents)

LEMMA TypeHalves == TypeOK <=> ListsTyped /\ RestTyped
BY DEF TypeOK, ListsTyped, RestTyped, Entries

LEMMA TypesNext == ListsTyped' /\ RestTyped' => TypeOK'
BY TypeHalves, PTL

LEMMA InitTypes == Init => TypeOK /\ Control
<1> SUFFICES ASSUME Init PROVE TypeOK /\ Control OBVIOUS
<1>1. list \in [Lists -> Seq(Events \cup {None})] BY EmptyLists DEF Init, Entries
<1>2. handled \in [Protocols -> Seq(Events)] BY DEF Init
<1>3. \A t \in Threads : list[t] \in Seq(Events) /\ pos[t] <= Len(list[t]) + 1
  BY EmptyLists DEF Init, Lists, Threads
<1>4. /\ pos \in [Threads -> Nat \ {0}] /\ snap \in [Threads -> SUBSET Protocols]
      /\ at \in [Threads -> {"idle", "events", "gone"}]
  BY DEF Init
<1>5. arrived \in 0..MaxEvents BY MaxIsNat DEF Init
<1>6. exit \in BOOLEAN /\ racing \in BOOLEAN BY DEF Init
<1>7. ctrlAt \in {"awake", "dead"} /\ holders \in SUBSET {"async", "ctrl"} BY DEF Init
<1>8. TypeOK BY <1>1, <1>2, <1>3, <1>4, <1>5, <1>6, <1>7 DEF Init, TypeOK
<1>9. Control BY DEF Init, Control, Threads
<1> QED BY <1>8, <1>9

\* What a handler's turn does, whether it throws or not.
LEMMA Delivery ==
  ASSUME TypeOK, NEW t \in Threads, Deliver(t)
  PROVE  LET e == list[t][pos[t]] IN
         /\ at[t] = "events" /\ pos[t] \in 1..Len(list[t]) /\ e \in Events
         /\ \E S \in SUBSET Receivers(t, e) :
              /\ handled' = [p \in Protocols |->
                               IF p \in S THEN Append(handled[p], e) ELSE handled[p]]
              /\ \/ /\ Erase(t, e)
                    /\ pos' = [pos EXCEPT ![t] = pos[t]]
                 \/ /\ Receivers(t, e) = {} /\ UNCHANGED <<list, deleted>>
                    /\ pos' = [pos EXCEPT ![t] = pos[t] + 1]
<1> DEFINE e == list[t][pos[t]]
           R == Receivers(t, e)
<1>1. at[t] = "events" /\ pos[t] <= Len(list[t]) BY DEF Deliver
<1>2. pos[t] \in Nat \ {0} /\ t \in Lists BY DEF TypeOK, Lists
<1>3. Len(list[t]) \in Nat BY <1>2, ListTypes
<1>4. pos[t] \in 1..Len(list[t]) BY <1>1, <1>2, <1>3
<1>5. e \in Events BY <1>2, <1>4, ListTypes DEF Lists, Threads
<1> HIDE DEF e, R
<1>6. \/ /\ handled' = [p \in Protocols |->
                          IF p \in R THEN Append(handled[p], e) ELSE handled[p]]
         /\ IF CanBeDeleted(t, e, R)
            THEN Erase(t, e) ELSE UNCHANGED <<list, deleted>>
         /\ pos' = [pos EXCEPT ![t] = NextPos(t, CanBeDeleted(t, e, R))]
      \/ \E S \in SUBSET R :
           /\ handled' = [p \in Protocols |->
                            IF p \in S THEN Append(handled[p], e) ELSE handled[p]]
           /\ Erase(t, e)
           /\ pos' = [pos EXCEPT ![t] = NextPos(t, TRUE)]
  BY DEF Deliver, e, R
<1>7. \E S \in SUBSET R :
           /\ handled' = [p \in Protocols |->
                            IF p \in S THEN Append(handled[p], e) ELSE handled[p]]
           /\ \/ /\ Erase(t, e)
                 /\ pos' = [pos EXCEPT ![t] = pos[t]]
              \/ /\ R = {} /\ UNCHANGED <<list, deleted>>
                 /\ pos' = [pos EXCEPT ![t] = pos[t] + 1]
  <2>1. CASE CanBeDeleted(t, e, R) BY <1>6, <2>1 DEF NextPos
  <2>2. CASE ~CanBeDeleted(t, e, R)
    <3>1. R = {} BY <2>2 DEF CanBeDeleted
    <3> QED BY <1>6, <2>2, <3>1 DEF NextPos
  <2> QED BY <2>1, <2>2
<1> QED BY <1>1, <1>4, <1>5, <1>7 DEF e, R

\* A shared pointer that goes.
LEMMA ReleaseTypes ==
  ASSUME TypeOK, NEW h \in {"main", "async", "ctrl", "net"}, Release(h)
  PROVE  /\ holders' = holders \ {h}
         /\ running' \in SUBSET Protocols
         /\ list' \in [Lists -> Seq(Entries)]
         /\ deleted' \in SUBSET (1..MaxEvents)
         /\ destroyer' \in {"none", "main", "async", "ctrl", "net"}
         /\ destroyer' # "none" => destroyer # "none" \/ holders' = {}
         /\ \A l \in Lists : list'[l] = list[l] \/ list'[l] = <<>>
<1>1. CASE holders = {h}
  <2>1. list' = [l \in Lists |-> <<>>] BY <1>1 DEF Release
  <2>2. list' \in [Lists -> Seq(Entries)] BY <2>1, EmptyLists
  <2>3. deleted' \in SUBSET (1..MaxEvents) BY <1>1, FreesTypes DEF Release, TypeOK
  <2> QED BY <1>1, <2>1, <2>2, <2>3 DEF Release
<1>2. CASE holders # {h} BY <1>2 DEF Release, TypeOK, Entries
<1> QED BY <1>1, <1>2

LEMMA TypeStep == TypeOK /\ Control /\ [Next]_vars => TypeOK' /\ Control'
<1> SUFFICES ASSUME TypeOK, Control, [Next]_vars PROVE TypeOK' /\ Control'
  OBVIOUS
<1> USE DEF passVars, ctrlVars, lifeVars, protVars, histVars
<1>1. CASE NetLock
  <2>1. TypeOK' BY <1>1 DEF NetLock, TypeOK
  <2>2. Control' BY <1>1 DEF NetLock, TypeOK, Control, Threads
  <2> QED BY <2>1, <2>2
<1>2. ASSUME NEW k \in Kinds, PropagateEvent(k) PROVE TypeOK' /\ Control'
  <2> DEFINE e == [id |-> arrived + 1, kind |-> k]
             l == ListOf(k)
  <2>1. arrived + 1 \in 1..MaxEvents BY <1>2, MaxIsNat DEF PropagateEvent, Control, TypeOK
  <2>2. e \in Events /\ e \in Entries BY <2>1 DEF Events, Entries
  <2>3. l \in Lists BY KindList
  <2> HIDE DEF e, l
  <2>4. list' = [list EXCEPT ![l] = Append(@, e)] /\ list \in [Lists -> Seq(Entries)]
    BY <1>2 DEF PropagateEvent, e, l, TypeOK, Entries
  <2>5. With(list'[l], list[l], e) BY <2>2, <2>3, <2>4, AppendWith
  <2>6. list' \in [Lists -> Seq(Entries)] BY <2>2, <2>3, <2>4, AppendWith
  <2>7. \A t \in Threads : list'[t] \in Seq(Events) /\ pos'[t] <= Len(list'[t]) + 1
    <3> TAKE t \in Threads
    <3>0. t \in Lists BY DEF Lists
    <3>1. pos[t] \in Nat /\ pos[t] <= Len(list[t]) + 1 /\ Len(list[t]) \in Nat /\ pos' = pos
      BY <1>2, <3>0, ListTypes DEF PropagateEvent, TypeOK
    <3>2. list[t] \in Seq(Events) BY DEF TypeOK
    <3>3. CASE t = l
      <4>1. Len(list'[t]) = Len(list[t]) + 1 BY <2>5, <3>3 DEF With
      <4>2. list'[t] \in Seq(Events) BY <2>2, <2>3, <2>4, <3>3, <3>2, AppendWith
      <4> QED BY <3>1, <4>1, <4>2
    <3>4. CASE t # l
      <4>1. list'[t] = list[t] BY <2>4, <3>0, <3>4
      <4> QED BY <3>1, <3>2, <4>1
    <3> QED BY <3>3, <3>4
  <2>8. ctrlAt' \in {"awake", "asleep", "deliver", "dead"}
    BY <1>2 DEF PropagateEvent, Notify, TypeOK
  <2>9. arrived' \in 0..MaxEvents BY <1>2, <2>1, MaxIsNat DEF PropagateEvent
  <2>10. TypeOK' BY <1>2, <2>6, <2>7, <2>8, <2>9 DEF PropagateEvent, TypeOK, Entries
  <2>11. Control' BY <1>2 DEF PropagateEvent, Notify, Control
  <2> QED BY <2>10, <2>11
<1>3. CASE NetRelease
  <2>1. Release("net") /\ netAt = "release" /\ netAt' = "poll" BY <1>3 DEF NetRelease
  <2>2. TypeOK'
    <3>1. \A t \in Threads : list'[t] \in Seq(Events) /\ pos'[t] <= Len(list'[t]) + 1
      <4> TAKE t \in Threads
      <4>1. t \in Lists /\ pos' = pos BY <1>3 DEF NetRelease, Lists
      <4>2. CASE list'[t] = list[t] BY <1>3, <4>2 DEF NetRelease, TypeOK
      <4>3. CASE list'[t] # list[t]
        <5>1. holders = {"net"} /\ destroyer' # "none" BY <2>1, <4>3 DEF Release
        <5>2. at["async"] = "gone" /\ mpc # "run" BY <5>1 DEF Control
        <5>3. at[t] # "events" BY <5>2 DEF Control, Threads
        <5>4. pos'[t] = 1 BY <1>3, <5>3 DEF Control, NetRelease
        <5>5. list' = [l \in Lists |-> <<>>] BY <2>1, <5>1 DEF Release
        <5> QED BY <5>4, <5>5, <4>1, EmptyLists
      <4> QED BY <4>2, <4>3
    <3> QED BY <1>3, <2>1, <3>1, ReleaseTypes DEF NetRelease, TypeOK, Entries
  <2>3. holders' = holders \ {"net"} /\ (destroyer' # "none" => holders' = {})
    BY <2>1, ReleaseTypes DEF Control
  <2>4. Control' BY <1>3, <2>3 DEF NetRelease, Control
  <2> QED BY <2>2, <2>4
<1>4. ASSUME NEW l \in Lists, NEW e \in ToSet(list[l]) \ {None}, Age(e)
      PROVE TypeOK' /\ Control'
  <2>1. e.id \in 1..MaxEvents BY ListTypes DEF ToSet
  <2>2. TypeOK'
    <3>1. ListsTyped' BY <1>4, TypeHalves DEF Age, ListsTyped
    <3>2. RestTyped' BY <1>4, <2>1, TypeHalves DEF Age, RestTyped
    <3> QED BY <3>1, <3>2, TypesNext
  <2>3. Control' BY <1>4 DEF Age, Control
  <2> QED BY <2>2, <2>3
<1>5. ASSUME NEW p \in Protocols, RequestStart(p) PROVE TypeOK' /\ Control'
  BY <1>5 DEF RequestStart, TypeOK, Control
<1>6. ASSUME NEW gone, Terminate(gone) PROVE TypeOK' /\ Control'
  BY <1>6 DEF Terminate, TypeOK, Control
<1>7. CASE LobbyState
  <2>1. TypeOK' BY <1>7 DEF LobbyState, TypeOK
  <2>2. Control' BY <1>7 DEF LobbyState, Control
  <2> QED BY <2>1, <2>2
<1>8. ASSUME NEW t \in Threads, BeginPass(t) PROVE TypeOK' /\ Control'
  <2>1. TypeOK' BY <1>8 DEF BeginPass, TypeOK
  <2>2. Control' BY <1>8 DEF BeginPass, MayBegin, TypeOK, Control, Threads
  <2> QED BY <2>1, <2>2
<1>9. ASSUME NEW t \in Threads, Deliver(t) PROVE TypeOK' /\ Control'
  <2> DEFINE e == list[t][pos[t]]
  <2>0. t \in Lists BY DEF Lists
  <2>1. PICK S \in SUBSET Receivers(t, e) :
           /\ handled' = [p \in Protocols |->
                            IF p \in S THEN Append(handled[p], e) ELSE handled[p]]
           /\ \/ Erase(t, e) /\ pos' = [pos EXCEPT ![t] = pos[t]]
              \/ /\ Receivers(t, e) = {} /\ UNCHANGED <<list, deleted>>
                 /\ pos' = [pos EXCEPT ![t] = pos[t] + 1]
    BY <1>9, Delivery
  <2>2. at[t] = "events" /\ pos[t] \in 1..Len(list[t]) /\ e \in Events BY <1>9, Delivery
  <2>3. e.id \in 1..MaxEvents BY <2>2, EventFacts
  <2> HIDE DEF e
  <2>4. handled' \in [Protocols -> Seq(Events)]
    <3>1. \A p \in Protocols : handled[p] \in Seq(Events) /\ Append(handled[p], e) \in Seq(Events)
      BY <2>2 DEF TypeOK
    <3> QED BY <2>1, <3>1
  <2>5. list[t] \in Seq(Events) /\ list[t] \in Seq(Entries) /\ Len(list[t]) \in Nat
    BY <2>0, ListTypes DEF TypeOK
  <2>6. UNCHANGED <<running, started, snap, at, old, ctrlAt, ctrlEv, racing,
                    netAt, exit, mpc, holders, destroyer, arrived>>
    BY <1>9 DEF Deliver
  <2>7. CASE Erase(t, e) /\ pos' = [pos EXCEPT ![t] = pos[t]]
    <3> DEFINE s2 == RemoveAt(list[t], pos[t])
    <3>1. s2 \in Seq(Events) /\ s2 \in Seq(Entries) /\ Len(s2) = Len(list[t]) - 1
      BY <2>2, <2>5, RemoveWithout DEF Without
    <3>2. list' = [list EXCEPT ![t] = s2] /\ deleted' = deleted \cup {e.id} BY <2>7 DEF Erase
    <3> HIDE DEF s2
    <3>3. list' \in [Lists -> Seq(Entries)] BY <3>1, <3>2 DEF TypeOK, Entries
    <3>4. \A u \in Threads : list'[u] \in Seq(Events) /\ pos'[u] <= Len(list'[u]) + 1
      <4> TAKE u \in Threads
      <4>1. pos' = pos BY <2>7 DEF TypeOK
      <4>2. CASE u = t BY <2>0, <2>2, <2>5, <3>1, <3>2, <4>1, <4>2 DEF TypeOK
      <4>3. CASE u # t BY <3>2, <4>1, <4>3 DEF TypeOK, Lists
      <4> QED BY <4>2, <4>3
    <3>5. pos' \in [Threads -> Nat \ {0}] BY <2>7 DEF TypeOK
    <3>6. TypeOK'
      <4>1. ListsTyped' BY <2>4, <3>3, <3>4, <3>5 DEF ListsTyped
      <4>2. RestTyped' BY <2>3, <2>6, <3>2, TypeHalves DEF RestTyped
      <4> QED BY <4>1, <4>2, TypesNext
    <3>7. Control' BY <2>2, <2>6, <2>7 DEF Control, TypeOK
    <3> QED BY <3>6, <3>7
  <2>8. CASE UNCHANGED <<list, deleted>> /\ pos' = [pos EXCEPT ![t] = pos[t] + 1]
    <3>1. \A u \in Threads : pos'[u] \in Nat \ {0} /\ pos'[u] <= Len(list'[u]) + 1
      <4> TAKE u \in Threads
      <4>1. CASE u = t BY <2>2, <2>5, <2>8, <4>1 DEF TypeOK
      <4>2. CASE u # t BY <2>8, <4>2 DEF TypeOK
      <4> QED BY <4>1, <4>2
    <3>2. pos' \in [Threads -> Nat \ {0}] BY <2>8, <3>1 DEF TypeOK
    <3>3. TypeOK' BY <2>4, <2>6, <2>8, <3>1, <3>2 DEF TypeOK
    <3>4. Control' BY <2>2, <2>6, <2>8 DEF Control, TypeOK
    <3> QED BY <3>3, <3>4
  <2> QED BY <2>1, <2>7, <2>8
<1>10. ASSUME NEW t \in Threads, EndPass(t) PROVE TypeOK' /\ Control'
  <2>1. TypeOK'
    <3>1. \A u \in Threads : pos'[u] \in Nat \ {0} /\ pos'[u] <= Len(list'[u]) + 1
      <4> TAKE u \in Threads
      <4>1. Len(list[u]) \in Nat BY ListTypes DEF Lists
      <4> QED BY <1>10, <4>1 DEF EndPass, TypeOK
    <3> QED BY <1>10, <3>1 DEF EndPass, TypeOK
  <2>2. Control' BY <1>10 DEF EndPass, TypeOK, Control, Threads
  <2> QED BY <2>1, <2>2
<1>11. CASE AsyncExit
  <2>1. Release("async") BY <1>11 DEF AsyncExit
  <2>2. TypeOK'
    <3>1. \A t \in Threads : list'[t] \in Seq(Events) /\ pos'[t] <= Len(list'[t]) + 1
      <4> TAKE t \in Threads
      <4>1. t \in Lists /\ pos' = pos /\ pos[t] <= Len(list[t]) + 1 /\ list[t] \in Seq(Events)
        BY <1>11 DEF AsyncExit, TypeOK, Lists
      <4>2. pos[t] = 1 \/ list'[t] = list[t]
        <5>1. at["async"] # "events" /\ (mpc # "run" => at["main"] # "events") /\ mpc # "run"
          BY <1>11 DEF AsyncExit, Control
        <5> QED BY <5>1 DEF Control, Threads
      <4>3. CASE list'[t] = list[t] BY <4>1, <4>3
      <4>4. CASE list'[t] # list[t] BY <2>1, <4>1, <4>2, <4>4, ReleaseTypes, EmptyLists
      <4> QED BY <4>3, <4>4
    <3> QED BY <1>11, <2>1, <3>1, ReleaseTypes DEF AsyncExit, TypeOK, Entries
  <2>3. holders' = holders \ {"async"} /\ (destroyer' # "none" => holders' = {})
    BY <2>1, ReleaseTypes DEF Control
  <2>4. Control' BY <1>11, <2>3 DEF AsyncExit, Control, TypeOK, Threads
  <2> QED BY <2>2, <2>4
<1>12. CASE CtrlWait
  BY <1>12 DEF CtrlWait, TypeOK, Control
<1>13. CASE CtrlTake
  <2> DEFINE s == list["ctrl"]
             e == Head(s)
  <2>0. "ctrl" \in Lists BY DEF Lists
  <2>1. ctrlAt = "awake" /\ s # <<>> /\ e # None BY <1>13 DEF CtrlTake
  <2>2. Tail(s) \in Seq(Entries) /\ e \in Events
    BY <2>0, <2>1, TailWithout, ListTypes DEF Entries
  <2>3. e.id \in 1..MaxEvents BY <2>2, EventFacts
  <2>4. list' = [list EXCEPT !["ctrl"] = Tail(s)] BY <1>13 DEF CtrlTake
  <2>5. UNCHANGED <<running, started, pos, snap, at, old, racing, netAt, exit, mpc,
                    holders, destroyer, arrived, handled>>
    BY <1>13 DEF CtrlTake
  <2>6. \/ ctrlAt' = "deliver" /\ ctrlEv' = e /\ UNCHANGED deleted
        \/ deleted' = deleted \cup {e.id} /\ UNCHANGED <<ctrlAt, ctrlEv>>
    BY <1>13 DEF CtrlTake
  <2> HIDE DEF e
  <2>7. list' \in [Lists -> Seq(Entries)] /\ \A t \in Threads : list'[t] = list[t]
    BY <2>2, <2>4 DEF TypeOK, Entries, Lists, Threads
  <2>8. TypeOK'
    <3>1. ListsTyped' BY <2>5, <2>7, TypeHalves DEF ListsTyped
    <3>2. RestTyped' BY <2>2, <2>3, <2>5, <2>6, TypeHalves DEF RestTyped, Entries
    <3> QED BY <3>1, <3>2, TypesNext
  <2>9. Control' BY <2>1, <2>5, <2>6 DEF Control
  <2> QED BY <2>8, <2>9
<1>14. CASE CtrlDeliver
  <2>1. ctrlEv \in Events BY <1>14 DEF CtrlDeliver, Control, TypeOK
  <2>2. PICK gp : handled' = [p \in Protocols |->
                     IF p \in gp THEN Append(handled[p], ctrlEv) ELSE handled[p]]
    BY <1>14 DEF CtrlDeliver
  <2>3. \A p \in Protocols : handled[p] \in Seq(Events) /\ Append(handled[p], ctrlEv) \in Seq(Events)
    BY <2>1 DEF TypeOK
  <2>4. handled' \in [Protocols -> Seq(Events)] BY <2>2, <2>3
  <2>5. ctrlEv.id \in 1..MaxEvents BY <2>1, EventFacts
  <2>6. TypeOK' BY <1>14, <2>4, <2>5 DEF CtrlDeliver, TypeOK
  <2>7. Control' BY <1>14 DEF CtrlDeliver, Control
  <2> QED BY <2>6, <2>7
<1>15. CASE CtrlExit
  <2> DEFINE s == list["ctrl"]
  <2>0. "ctrl" \in Lists BY DEF Lists
  <2>1. ctrlAt = "awake" /\ s # <<>> BY <1>15 DEF CtrlExit
  <2>2. Tail(s) \in Seq(Entries) BY <2>0, <2>1, TailWithout, ListTypes
  <2>4. list' = [list EXCEPT !["ctrl"] = Tail(s)] BY <1>15 DEF CtrlExit
  <2>7. list' \in [Lists -> Seq(Entries)] /\ \A t \in Threads : list'[t] = list[t]
    BY <2>2, <2>4 DEF TypeOK, Entries, Lists, Threads
  <2>8. TypeOK' BY <1>15, <2>7 DEF CtrlExit, TypeOK, Entries
  <2>9. Control' BY <1>15 DEF CtrlExit, Control
  <2> QED BY <2>8, <2>9
<1>16. CASE AbortBegin
  <2>1. TypeOK' BY <1>16 DEF AbortBegin, TypeOK
  <2>2. Control' BY <1>16 DEF AbortBegin, Control, TypeOK, Threads
  <2> QED BY <2>1, <2>2
<1>17. CASE AbortPush
  <2> DEFINE s == list["ctrl"]
  <2>0. "ctrl" \in Lists /\ None \in Entries BY DEF Lists, Entries
  <2>1. Append(s, None) \in Seq(Entries) BY <2>0, ListTypes, AppendWith
  <2>4. list' = [list EXCEPT !["ctrl"] = Append(s, None)] BY <1>17 DEF AbortPush
  <2>7. list' \in [Lists -> Seq(Entries)] /\ \A t \in Threads : list'[t] = list[t]
    BY <2>1, <2>4 DEF TypeOK, Entries, Lists, Threads
  <2>8. TypeOK' BY <1>17, <2>7 DEF AbortPush, Notify, TypeOK, Entries
  <2>9. Control' BY <1>17 DEF AbortPush, Notify, Control
  <2> QED BY <2>8, <2>9
<1>18. CASE AbortJoin
  <2>1. TypeOK' BY <1>18 DEF AbortJoin, TypeOK
  <2>2. Control' BY <1>18 DEF AbortJoin, Control
  <2> QED BY <2>1, <2>2
<1>19. CASE AbortRelease
  <2>1. Release("main") /\ mpc = "release" BY <1>19 DEF AbortRelease
  <2>2. TypeOK'
    <3>1. \A t \in Threads : list'[t] \in Seq(Events) /\ pos'[t] <= Len(list'[t]) + 1
      <4> TAKE t \in Threads
      <4>1. t \in Lists /\ pos' = pos BY <1>19 DEF AbortRelease, Lists
      <4>2. CASE list'[t] = list[t] BY <1>19, <4>2 DEF AbortRelease, TypeOK
      <4>3. CASE list'[t] # list[t]
        <5>1. holders = {"main"} BY <2>1, <4>3 DEF Release
        <5>2. at["async"] = "gone" BY <5>1 DEF Control
        <5>3. pos[t] = 1 BY <2>1, <5>2 DEF Control, Threads
        <5> QED BY <2>1, <4>1, <4>3, <5>3, ReleaseTypes, EmptyLists
      <4> QED BY <4>2, <4>3
    <3> QED BY <1>19, <2>1, <3>1, ReleaseTypes DEF AbortRelease, TypeOK, Entries
  <2>3. holders' = holders \ {"main"} /\ (destroyer' # "none" => holders' = {})
    BY <2>1, ReleaseTypes DEF Control
  <2>4. Control' BY <1>19, <2>3 DEF AbortRelease, Control
  <2> QED BY <2>2, <2>4
<1>20. CASE UNCHANGED vars BY <1>20 DEF vars, TypeOK, Control
<1> QED
  BY <1>1, <1>2, <1>3, <1>4, <1>5, <1>6, <1>7, <1>8, <1>9, <1>10, <1>11, <1>12,
     <1>13, <1>14, <1>15, <1>16, <1>17, <1>18, <1>19, <1>20
  DEF Next, Net, Ctrl, Async, Abort, Pass, RequestTerminate, FindAndTerminate, Threads

-----------------------------------------------------------------------------
(* Who owns an event                                                       *)

\* OneOwner, event by event
Owners ==
    /\ \A x : x \in 1..arrived <=>
          (\E l \in Lists : x \in Ids(list[l])) \/ x \in Taken \/ x \in deleted
    /\ \A l \in Lists : \A x \in Ids(list[l]) :
          /\ x \notin deleted /\ x \notin Taken
          /\ \A m \in Lists \ {l} : x \notin Ids(list[m])
    /\ destroyer # "none" => \A x : x \in 1..arrived <=> x \in deleted

LEMMA OwnersHere == OneOwner <=> Owners
<1> DEFINE owned(l) == Ids(list[l])
           U == UNION {owned(l) : l \in Lists}
           N == 1..arrived
<1>1. \A l \in Lists : owned(l) = Ids(list[l]) OBVIOUS
<1>2. \A x : x \in U <=> \E l \in Lists : x \in owned(l) OBVIOUS
<1>3. OneOwner <=> /\ U \cup Taken \cup deleted = N
                   /\ \A l \in Lists :
                        /\ owned(l) \cap (Taken \cup deleted) = {}
                        /\ \A m \in Lists \ {l} : owned(l) \cap owned(m) = {}
                   /\ destroyer # "none" => deleted = N
  BY DEF OneOwner
<1> HIDE DEF owned, U, N
<1>4. U \cup Taken \cup deleted = N <=>
        \A x : x \in N <=> (\E l \in Lists : x \in Ids(list[l])) \/ x \in Taken \/ x \in deleted
  <2>1. U \cup Taken \cup deleted = N <=>
          \A x : x \in N <=> x \in U \/ x \in Taken \/ x \in deleted
    OBVIOUS
  <2> QED BY <1>1, <1>2, <2>1
<1>5. \A l \in Lists : owned(l) \cap (Taken \cup deleted) = {} <=>
         \A x \in Ids(list[l]) : x \notin deleted /\ x \notin Taken
  BY <1>1
<1>6. \A l \in Lists : \A m \in Lists \ {l} : owned(l) \cap owned(m) = {} <=>
         \A x \in Ids(list[l]) : x \notin Ids(list[m])
  BY <1>1
<1>7. deleted = N <=> \A x : x \in N <=> x \in deleted OBVIOUS
<1>8. Owners <=>
        /\ \A x : x \in N <=>
              (\E l \in Lists : x \in Ids(list[l])) \/ x \in Taken \/ x \in deleted
        /\ \A l \in Lists : \A x \in Ids(list[l]) :
              /\ x \notin deleted /\ x \notin Taken
              /\ \A m \in Lists \ {l} : x \notin Ids(list[m])
        /\ destroyer # "none" => \A x : x \in N <=> x \in deleted
  BY DEF Owners, N
<1>9. (\A l \in Lists :
          /\ owned(l) \cap (Taken \cup deleted) = {}
          /\ \A m \in Lists \ {l} : owned(l) \cap owned(m) = {})
      <=> \A l \in Lists : \A x \in Ids(list[l]) :
              /\ x \notin deleted /\ x \notin Taken
              /\ \A m \in Lists \ {l} : x \notin Ids(list[m])
  BY <1>5, <1>6
<1> QED BY <1>3, <1>4, <1>7, <1>8, <1>9

LEMMA OwnersNext ==
  ASSUME \A x : x \in 1..arrived' <=>
            (\E l \in Lists : x \in Ids(list'[l])) \/ x \in Taken' \/ x \in deleted',
         \A l \in Lists : \A x \in Ids(list'[l]) :
            /\ x \notin deleted' /\ x \notin Taken'
            /\ \A m \in Lists \ {l} : x \notin Ids(list'[m]),
         destroyer' # "none" => \A x : x \in 1..arrived' <=> x \in deleted'
  PROVE  OneOwner'
<1>1. Owners'
  <2>1. \A x : x \in 1..arrived' <=>
            (\E l \in Lists : x \in Ids(list[l])') \/ x \in Taken' \/ x \in deleted'
    BY DEF Ids
  <2>2. \A l \in Lists : \A x \in Ids(list[l])' :
            /\ x \notin deleted' /\ x \notin Taken'
            /\ \A m \in Lists \ {l} : x \notin Ids(list[m])'
    BY DEF Ids
  <2> QED BY <2>1, <2>2 DEF Owners
<1>2. OneOwner' <=> Owners' BY OwnersHere, PTL
<1> QED BY <1>1, <1>2

-----------------------------------------------------------------------------
(* What the protocols have handled                                         *)

LEMMA Grown ==
  ASSUME TypeOK, NEW S, NEW e \in Events,
         handled' = [p \in Protocols |->
                       IF p \in S THEN Append(handled[p], e) ELSE handled[p]],
         NEW p \in Protocols
  PROVE  /\ Len(handled[p]) \in Nat
         /\ \A n \in 1..Len(handled[p]) : handled[p][n] \in Events
         /\ \A n \in 1..Len(handled'[p]) :
              \/ n \in 1..Len(handled[p]) /\ handled'[p][n] = handled[p][n]
              \/ p \in S /\ n = Len(handled[p]) + 1 /\ handled'[p][n] = e
<1>1. handled[p] \in Seq(Events) BY DEF TypeOK
<1>2. Len(handled[p]) \in Nat /\ \A n \in 1..Len(handled[p]) : handled[p][n] \in Events
  BY <1>1
<1>3. CASE p \in S
  <2>1. handled'[p] = Append(handled[p], e) BY <1>3
  <2> QED BY <1>1, <1>2, <1>3, <2>1
<1>4. CASE p \notin S BY <1>2, <1>4
<1> QED BY <1>2, <1>3, <1>4

LEMMA GrownInOrder ==
  ASSUME TypeOK, HandledOnce, InOrder, NEW S, NEW e \in Events,
         handled' = [p \in Protocols |->
                       IF p \in S THEN Append(handled[p], e) ELSE handled[p]],
         \A p \in S \cap Protocols : \A n \in 1..Len(handled[p]) :
            /\ handled[p][n].id # e.id
            /\ ListOf(handled[p][n].kind) = ListOf(e.kind) => handled[p][n].id < e.id
  PROVE  HandledOnce' /\ InOrder'
<1>1. HandledOnce'
  <2> SUFFICES ASSUME NEW p \in Protocols, NEW a \in 1..Len(handled'[p]),
                      NEW b \in 1..Len(handled'[p]), handled'[p][a] = handled'[p][b]
               PROVE  a = b
    <3>1. \A p \in Protocols : DOMAIN (handled'[p]) = 1..Len(handled'[p])
      <4> TAKE p \in Protocols
      <4>1. handled[p] \in Seq(Events) BY DEF TypeOK
      <4>2. handled'[p] \in Seq(Events) BY <4>1
      <4> QED BY <4>2
    <3> QED BY <3>1 DEF HandledOnce, IsInjective
  <2>1. \A i, j \in 1..Len(handled[p]) : handled[p][i] = handled[p][j] => i = j
    <3>1. DOMAIN (handled[p]) = 1..Len(handled[p]) BY DEF TypeOK
    <3> QED BY <3>1 DEF HandledOnce, IsInjective
  <2> QED BY <2>1, Grown
<1>2. InOrder'
  <2> SUFFICES ASSUME NEW p \in Protocols, NEW a \in 1..Len(handled'[p]),
                      NEW b \in 1..Len(handled'[p]), a < b,
                      ListOf(handled'[p][a].kind) = ListOf(handled'[p][b].kind)
               PROVE  handled'[p][a].id < handled'[p][b].id
    BY DEF InOrder, ListOf
  <2>1. Len(handled[p]) \in Nat BY Grown
  <2>2. CASE b \in 1..Len(handled[p])
    <3>1. a \in 1..Len(handled[p]) BY <2>1, <2>2
    <3>2. handled'[p][a] = handled[p][a] /\ handled'[p][b] = handled[p][b]
      BY <2>1, <2>2, <3>1, Grown
    <3> QED BY <2>2, <3>1, <3>2 DEF InOrder
  <2>3. CASE b \notin 1..Len(handled[p])
    <3>1. p \in S /\ b = Len(handled[p]) + 1 /\ handled'[p][b] = e BY <2>3, Grown
    <3>2. a \in 1..Len(handled[p]) /\ handled'[p][a] = handled[p][a] BY <2>1, <3>1, Grown
    <3> QED BY <3>1, <3>2
  <2> QED BY <2>2, <2>3
<1> QED BY <1>1, <1>2

-----------------------------------------------------------------------------
(* Steps of the lists                                                      *)

LEMMA IncreasingWith ==
  ASSUME NEW s \in Seq(Entries), NEW e \in Entries, NEW s2, With(s2, s, e),
         Increasing(s),
         e # None => \A i \in 1..Len(s) : s[i] # None => s[i].id < e.id
  PROVE  Increasing(s2)
<1>1. Len(s) \in Nat /\ Len(s2) = Len(s) + 1 BY DEF With
<1> SUFFICES ASSUME NEW i \in 1..Len(s2), NEW j \in 1..Len(s2),
                    i < j, s2[i] # None, s2[j] # None
             PROVE  s2[i].id < s2[j].id
  BY DEF Increasing
<1>2. i \in 1..Len(s) /\ s2[i] = s[i] BY <1>1 DEF With
<1>3. CASE j \in 1..Len(s)
  <2>1. s2[j] = s[j] BY <1>3 DEF With
  <2> QED BY <1>2, <1>3, <2>1 DEF Increasing
<1>4. CASE j = Len(s) + 1
  <2>1. s2[j] = e BY <1>4 DEF With
  <2> QED BY <1>2, <2>1
<1> QED BY <1>1, <1>3, <1>4

LEMMA PastNext ==
  ASSUME \A p \in Protocols : \A n \in 1..Len(handled'[p]) :
            LET h == handled'[p][n] IN
            /\ h.id \in deleted'
            /\ ListOf(h.kind) = "ctrl" /\ ctrlEv' # None => h.id < ctrlEv'.id
            /\ \A i \in 1..Len(list'[ListOf(h.kind)]) :
                  LET e == list'[ListOf(h.kind)][i]
                  IN e # None /\ e.id < h.id => ListOf(h.kind) # "ctrl" /\ ~Wants(p, e)
  PROVE  Past'
BY DEF Past, Before, ListOf, Wants, Concerns, HasHandler

\* Nothing that Core speaks of changes.
LEMMA CoreStays ==
  ASSUME Core, UNCHANGED <<list, ctrlEv, arrived, deleted, handled, destroyer>>
  PROVE  Core'
<1>1. Queued' BY DEF Core, Queued, Increasing, Sound, ListOf
<1>2. InHand' BY DEF Core, InHand, ListOf
<1>3. Past'
  <2>1. \A p \in Protocols : \A n \in 1..Len(handled[p]) : Before(p, handled[p][n])
    BY DEF Core, Past
  <2> QED BY <2>1, PastNext DEF Before
<1>4. OneOwner'
  <2>1. Owners BY OwnersHere DEF Core
  <2>2. Taken' = Taken /\ \A l \in Lists : Ids(list'[l]) = Ids(list[l]) BY DEF Taken
  <2> QED BY <2>1, <2>2, OwnersNext DEF Owners
<1>5. HandledOnce' BY DEF Core, HandledOnce, IsInjective
<1>6. InOrder' BY DEF Core, InOrder, ListOf
<1> QED BY <1>1, <1>2, <1>3, <1>4, <1>5, <1>6 DEF Core

\* What is in the lists was propagated, and has not been deleted yet.
LEMMA Waiting ==
  ASSUME TypeOK, Core, NEW l \in Lists, NEW i \in 1..Len(list[l]), list[l][i] # None
  PROVE  /\ list[l][i] \in Events /\ list[l][i].id \in 1..MaxEvents
         /\ ListOf(list[l][i].kind) = l
         /\ list[l][i].id \in Ids(list[l]) /\ list[l][i].id \in 1..arrived
         /\ list[l][i].id \notin deleted /\ list[l][i].id \notin Taken
<1>1. list[l][i].id \in Ids(list[l]) BY IdsOf
<1>2. Owners BY OwnersHere DEF Core
<1> QED BY <1>1, <1>2, ListTypes DEF Core, Queued, Sound, Owners

LEMMA PastFacts ==
  ASSUME TypeOK, Core, NEW p \in Protocols, NEW n \in 1..Len(handled[p])
  PROVE  /\ handled[p][n] \in Events /\ Before(p, handled[p][n])
         /\ handled[p][n].id \in 1..MaxEvents /\ handled[p][n].id \in 1..arrived
         /\ ListOf(handled[p][n].kind) \in Lists
<1>1. Owners BY OwnersHere DEF Core
<1>2. handled[p] \in Seq(Events) BY DEF TypeOK
<1>3. handled[p][n] \in Events BY <1>2
<1>4. Before(p, handled[p][n]) BY DEF Core, Past
<1> QED BY <1>1, <1>3, <1>4, EventFacts, KindList DEF Before, Owners

\* An entry goes to the end of a list: an event, or the end of the list.
LEMMA CoreAppends ==
  ASSUME TypeOK, Core, NEW l \in Lists, NEW e \in Entries,
         list' = [list EXCEPT ![l] = Append(@, e)],
         UNCHANGED <<ctrlEv, deleted, handled, destroyer>>,
         e = None => arrived' = arrived,
         e # None => /\ arrived' = arrived + 1 /\ e.id = arrived + 1
                     /\ ListOf(e.kind) = l /\ destroyer = "none"
  PROVE  Core'
<1> DEFINE s == list[l]
           s2 == list'[l]
<1>0. s \in Seq(Entries) /\ Len(s) \in Nat BY ListTypes
<1>1. With(s2, s, e) BY <1>0, AppendWith DEF TypeOK
<1>2. \A m \in Lists \ {l} : list'[m] = list[m] BY DEF TypeOK
<1>3. arrived \in Nat /\ arrived' \in Nat /\ arrived <= arrived'
  BY MaxIsNat DEF TypeOK
<1>4. \A m \in Lists : \A i \in 1..Len(list'[m]) :
         \/ i \in 1..Len(list[m]) /\ list'[m][i] = list[m][i]
         \/ m = l /\ list'[m][i] = e
  BY <1>0, <1>1, <1>2 DEF With
<1> HIDE DEF s, s2
<1>5. Queued'
  <2>1. Increasing(list'[l])
    <3>1. \A i \in 1..Len(s) : s[i] # None => s[i].id <= arrived
      BY DEF Core, Queued, Sound, s
    <3>2. \A i \in 1..Len(s) : s[i] # None => s[i].id \in Nat
      BY ListTypes DEF s
    <3>3. e # None => \A i \in 1..Len(s) : s[i] # None => s[i].id < e.id
      BY <1>3, <3>1, <3>2
    <3> QED BY <1>0, <1>1, <3>3, IncreasingWith DEF Core, Queued, s, s2
  <2>2. \A m \in Lists : Increasing(list'[m]) BY <1>2, <2>1 DEF Core, Queued
  <2>3. \A m \in Lists : \A i \in 1..Len(list'[m]) :
           list'[m][i] # None => ListOf(list'[m][i].kind) = m /\ list'[m][i].id <= arrived'
    <3> SUFFICES ASSUME NEW m \in Lists, NEW i \in 1..Len(list'[m]), list'[m][i] # None
                 PROVE  ListOf(list'[m][i].kind) = m /\ list'[m][i].id <= arrived'
      OBVIOUS
    <3>1. CASE i \in 1..Len(list[m]) /\ list'[m][i] = list[m][i]
      <4>1. list[m][i].id \in Nat BY <3>1, ListTypes
      <4> QED BY <1>3, <3>1, <4>1 DEF Core, Queued, Sound
    <3>2. CASE m = l /\ list'[m][i] = e BY <1>3, <3>2
    <3> QED BY <1>4, <3>1, <3>2
  <2> QED BY <2>2, <2>3 DEF Queued, Increasing, Sound, ListOf
<1>6. InHand'
  <2> SUFFICES ASSUME ctrlEv # None
               PROVE  /\ ListOf(ctrlEv.kind) = "ctrl" /\ ctrlEv.id \notin deleted
                      /\ \A i \in 1..Len(list'["ctrl"]) :
                            list'["ctrl"][i] # None => ctrlEv.id < list'["ctrl"][i].id
    BY DEF InHand, ListOf
  <2>1. /\ ListOf(ctrlEv.kind) = "ctrl" /\ ctrlEv.id \notin deleted
        /\ \A i \in 1..Len(list["ctrl"]) :
              list["ctrl"][i] # None => ctrlEv.id < list["ctrl"][i].id
    BY DEF Core, InHand
  <2>2. ctrlEv.id \in 1..arrived
    <3>1. Owners BY OwnersHere DEF Core
    <3> QED BY <3>1 DEF Owners, Taken
  <2> QED BY <1>3, <1>4, <2>1, <2>2 DEF Lists
<1>7. Past'
  <2> SUFFICES ASSUME NEW p \in Protocols, NEW n \in 1..Len(handled[p])
               PROVE  LET h == handled[p][n] IN
                      /\ h.id \in deleted
                      /\ ListOf(h.kind) = "ctrl" /\ ctrlEv # None => h.id < ctrlEv.id
                      /\ \A i \in 1..Len(list'[ListOf(h.kind)]) :
                            LET e1 == list'[ListOf(h.kind)][i]
                            IN e1 # None /\ e1.id < h.id
                                  => ListOf(h.kind) # "ctrl" /\ ~Wants(p, e1)
    <3> handled' = handled /\ deleted' = deleted /\ ctrlEv' = ctrlEv OBVIOUS
    <3> QED BY PastNext
  <2> DEFINE h == handled[p][n]
             m == ListOf(h.kind)
  <2>1. Before(p, h) /\ h.id \in 1..arrived /\ m \in Lists BY PastFacts
  <2> HIDE DEF h
  <2>2. ASSUME NEW i \in 1..Len(list'[m]), list'[m][i] # None, list'[m][i].id < h.id
        PROVE  m # "ctrl" /\ ~Wants(p, list'[m][i])
    <3>1. CASE i \in 1..Len(list[m]) /\ list'[m][i] = list[m][i]
      BY <2>1, <2>2, <3>1 DEF Before
    <3>2. CASE list'[m][i] = e BY <1>3, <2>1, <2>2, <3>2
    <3> QED BY <1>4, <2>1, <3>1, <3>2
  <2> QED BY <2>1, <2>2 DEF Before, h
<1>8. OneOwner'
  <2>1. Owners BY OwnersHere DEF Core
  <2>2. Ids(list'[l]) = Ids(list[l]) \cup (IF e = None THEN {} ELSE {e.id})
    BY <1>0, <1>1, IdsWith DEF s, s2
  <2>3. Taken' = Taken BY DEF Taken
  <2>4. CASE e = None
    <3>1. \A m \in Lists : Ids(list'[m]) = Ids(list[m]) BY <1>2, <2>2, <2>4
    <3> QED BY <2>1, <2>3, <2>4, <3>1, OwnersNext DEF Owners
  <2>5. CASE e # None
    <3>1. Ids(list'[l]) = Ids(list[l]) \cup {arrived + 1} BY <2>2, <2>5
    <3>2. \A m \in Lists \ {l} : Ids(list'[m]) = Ids(list[m]) BY <1>2
    <3>3. \A x : x \in 1..arrived' <=> x \in 1..arrived \/ x = arrived + 1 BY <1>3, <2>5
    <3>4. arrived + 1 \notin 1..arrived BY <1>3
    <3>5. \A x : x \in 1..arrived' <=>
             (\E m \in Lists : x \in Ids(list'[m])) \/ x \in Taken' \/ x \in deleted'
      BY <2>1, <2>3, <3>1, <3>2, <3>3 DEF Owners
    <3>6. \A m \in Lists : \A x \in Ids(list'[m]) :
             /\ x \notin deleted' /\ x \notin Taken'
             /\ \A k \in Lists \ {m} : x \notin Ids(list'[k])
      <4>1. arrived + 1 \notin deleted /\ arrived + 1 \notin Taken
            /\ \A m \in Lists : arrived + 1 \notin Ids(list[m])
        BY <2>1, <3>4 DEF Owners
      <4> QED BY <2>1, <2>3, <3>1, <3>2, <4>1 DEF Owners
    <3>7. destroyer' = "none" BY <2>5
    <3> QED BY <3>5, <3>6, <3>7, OwnersNext
  <2> QED BY <2>4, <2>5
<1>9. HandledOnce' /\ InOrder' BY DEF Core, HandledOnce, IsInjective, InOrder, ListOf
<1> QED BY <1>5, <1>6, <1>7, <1>8, <1>9 DEF Core

\* An entry leaves a list.
LEMMA Shrunk ==
  ASSUME TypeOK, Core, NEW l \in Lists, NEW k \in 1..Len(list[l]), NEW s2,
         s2 \in Seq(Entries), Without(s2, list[l], k),
         list' = [list EXCEPT ![l] = s2], arrived' = arrived
  PROVE  /\ Queued' /\ list'[l] = s2
         /\ \A m \in Lists \ {l} : list'[m] = list[m]
         /\ \A m \in Lists : \A i \in 1..Len(list'[m]) :
              \E j \in 1..Len(list[m]) : list'[m][i] = list[m][j]
         /\ list[l][k] # None => \A i \in 1..Len(list'[l]) :
              i >= k /\ list'[l][i] # None => list[l][k].id < list'[l][i].id
<1>0. list[l] \in Seq(Entries) /\ Len(list[l]) \in Nat BY ListTypes
<1>1. list'[l] = s2 /\ \A m \in Lists \ {l} : list'[m] = list[m] BY DEF TypeOK
<1>2. \A m \in Lists : Increasing(list[m]) BY DEF Core, Queued
<1>3. Increasing(s2) BY <1>0, <1>2, IncreasingWithout
<1>4. ASSUME NEW m \in Lists, NEW i \in 1..Len(list'[m])
      PROVE  \E j \in 1..Len(list[m]) : list'[m][i] = list[m][j]
  <2>1. CASE m = l
    <3>1. i \in 1..Len(list[l]) /\ i + 1 \in 1..Len(list[l])
      BY <1>0, <1>1, <2>1 DEF Without
    <3>2. s2[i] = list[l][i] \/ s2[i] = list[l][i + 1] BY <1>1, <2>1 DEF Without
    <3> QED BY <1>1, <2>1, <3>1, <3>2
  <2>2. CASE m # l BY <1>1, <2>2
  <2> QED BY <2>1, <2>2
<1>5. Queued'
  <2>1. \A m \in Lists : Increasing(list'[m]) BY <1>1, <1>2, <1>3
  <2>2. \A m \in Lists : \A i \in 1..Len(list'[m]) :
           list'[m][i] # None => ListOf(list'[m][i].kind) = m /\ list'[m][i].id <= arrived'
    BY <1>4 DEF Core, Queued, Sound
  <2> QED BY <2>1, <2>2 DEF Queued, Increasing, Sound, ListOf
<1>6. ASSUME list[l][k] # None, NEW i \in 1..Len(list'[l]), i >= k, list'[l][i] # None
      PROVE  list[l][k].id < list'[l][i].id
  <2>1. s2[i] = list[l][i + 1] /\ i + 1 \in 1..Len(list[l]) /\ k < i + 1
    BY <1>0, <1>1, <1>6 DEF Without
  <2> QED BY <1>1, <1>2, <1>6, <2>1 DEF Increasing
<1> QED BY <1>1, <1>4, <1>5, <1>6

\* An event changes hands: from a list to the controller event thread, or from
\* one of them to those deleted.
LEMMA MovesOn ==
  ASSUME Core, NEW x \in 1..arrived, arrived' = arrived, destroyer' = "none",
         \A l \in Lists : Ids(list'[l]) = Ids(list[l]) \ {x},
         Taken' \cup deleted' = Taken \cup deleted \cup {x}
  PROVE  OneOwner'
<1>0. Owners BY OwnersHere DEF Core
<1>1. \A y : y \in Taken' \/ y \in deleted' <=> y \in Taken \/ y \in deleted \/ y = x
  OBVIOUS
<1>2. \A y : y \in 1..arrived' <=>
         (\E l \in Lists : y \in Ids(list'[l])) \/ y \in Taken' \/ y \in deleted'
  BY <1>0, <1>1 DEF Owners
<1>3. \A l \in Lists : \A y \in Ids(list'[l]) :
         /\ y \notin deleted' /\ y \notin Taken'
         /\ \A m \in Lists \ {l} : y \notin Ids(list'[m])
  BY <1>0, <1>1 DEF Owners
<1> QED BY <1>2, <1>3, OwnersNext

\* A handler has had its turn.
LEMMA DeliverStep ==
  ASSUME TypeOK, Control, Core, PassedOver, NEW t \in Threads, Deliver(t)
  PROVE  Core' /\ PassedOver'
<1> DEFINE e == list[t][pos[t]]
           k == pos[t]
<1>0. t \in Lists /\ t # "ctrl" BY DEF Lists, Threads
<1>1. PICK S \in SUBSET Receivers(t, e) :
         /\ handled' = [p \in Protocols |->
                          IF p \in S THEN Append(handled[p], e) ELSE handled[p]]
         /\ \/ Erase(t, e) /\ pos' = [pos EXCEPT ![t] = pos[t]]
            \/ /\ Receivers(t, e) = {} /\ UNCHANGED <<list, deleted>>
               /\ pos' = [pos EXCEPT ![t] = pos[t] + 1]
  BY Delivery
<1>2. at[t] = "events" /\ k \in 1..Len(list[t]) /\ e \in Events BY Delivery
<1>3. UNCHANGED <<snap, at, ctrlEv, destroyer, arrived>> BY DEF Deliver, ctrlVars, lifeVars
<1>4. /\ e # None /\ ListOf(e.kind) = t /\ e.id \in Ids(list[t])
      /\ e.id \in 1..arrived /\ e.id \notin deleted /\ e.id \notin Taken
      /\ e.id \in 1..MaxEvents
  BY <1>0, <1>2, Waiting, EventFacts
<1>5. \A p \in S : p \in snap[t] /\ p \in Protocols /\ Wants(p, e)
  BY DEF Receivers, InPass, Wants, TypeOK
<1>6. destroyer = "none"
  <2>1. "async" \in holders BY <1>2 DEF Control, Threads
  <2> QED BY <2>1 DEF Control
<1>7. CASE Erase(t, e) /\ pos' = [pos EXCEPT ![t] = pos[t]]
  <2> DEFINE s2 == RemoveAt(list[t], k)
  <2>1. s2 \in Seq(Entries) /\ Without(s2, list[t], k)
    BY <1>0, <1>2, ListTypes, RemoveWithout
  <2>2. list' = [list EXCEPT ![t] = s2] /\ deleted' = deleted \cup {e.id} BY <1>7 DEF Erase
  <2> HIDE DEF s2, e
  <2>3. /\ Queued' /\ list'[t] = s2
        /\ \A m \in Lists \ {t} : list'[m] = list[m]
        /\ \A m \in Lists : \A i \in 1..Len(list'[m]) :
             \E j \in 1..Len(list[m]) : list'[m][i] = list[m][j]
        /\ \A i \in 1..Len(list'[t]) :
             i >= k /\ list'[t][i] # None => e.id < list'[t][i].id
    <3>1. arrived' = arrived BY <1>3
    <3>2. /\ Queued' /\ list'[t] = s2
          /\ \A m \in Lists \ {t} : list'[m] = list[m]
          /\ \A m \in Lists : \A i \in 1..Len(list'[m]) :
               \E j \in 1..Len(list[m]) : list'[m][i] = list[m][j]
          /\ list[t][k] # None => \A i \in 1..Len(list'[t]) :
               i >= k /\ list'[t][i] # None => list[t][k].id < list'[t][i].id
      BY <1>0, <1>2, <2>1, <2>2, <3>1, Shrunk
    <3>3. list[t][k] = e BY DEF e
    <3> QED BY <1>4, <3>2, <3>3
  <2>4. \A i \in 1..Len(list'[t]) : i < k => list'[t][i] = list[t][i]
    BY <2>1, <2>3 DEF Without
  <2>5. InHand'
    <3>1. ctrlEv # None =>
            /\ ListOf(ctrlEv.kind) = "ctrl" /\ ctrlEv.id \notin deleted'
            /\ \A i \in 1..Len(list'["ctrl"]) :
                  list'["ctrl"][i] # None => ctrlEv.id < list'["ctrl"][i].id
      BY <1>0, <1>4, <2>2, <2>3 DEF Core, InHand, Lists, Taken
    <3> QED BY <1>3, <3>1 DEF InHand, ListOf
  <2>6. Past'
    <3> SUFFICES ASSUME NEW p \in Protocols, NEW n \in 1..Len(handled'[p])
                 PROVE  LET h == handled'[p][n] IN
                        /\ h.id \in deleted'
                        /\ ListOf(h.kind) = "ctrl" /\ ctrlEv # None => h.id < ctrlEv.id
                        /\ \A i \in 1..Len(list'[ListOf(h.kind)]) :
                              LET e1 == list'[ListOf(h.kind)][i]
                              IN e1 # None /\ e1.id < h.id
                                    => ListOf(h.kind) # "ctrl" /\ ~Wants(p, e1)
      BY <1>3, PastNext
    <3>1. CASE n \in 1..Len(handled[p]) /\ handled'[p][n] = handled[p][n]
      <4> DEFINE h == handled[p][n]
                 m == ListOf(h.kind)
      <4>1. Before(p, h) /\ m \in Lists BY <3>1, PastFacts
      <4> HIDE DEF h
      <4>2. \A i \in 1..Len(list'[m]) :
               list'[m][i] # None /\ list'[m][i].id < h.id => m # "ctrl" /\ ~Wants(p, list'[m][i])
        BY <2>3, <4>1 DEF Before
      <4> QED BY <2>2, <3>1, <4>1, <4>2 DEF Before, h
    <3>2. CASE p \in S /\ handled'[p][n] = e
      <4>1. \A i \in 1..Len(list'[t]) :
               list'[t][i] # None /\ list'[t][i].id < e.id => ~Wants(p, list'[t][i])
        <5> TAKE i \in 1..Len(list'[t])
        <5>1. CASE i < k
          <6>1. i \in 1..Len(list[t])
            <7>1. Len(list[t]) \in Nat BY <1>0, ListTypes
            <7> QED BY <1>2, <5>1, <7>1
          <6> QED BY <1>2, <1>5, <2>4, <3>2, <5>1, <6>1 DEF PassedOver
        <5>2. CASE i >= k
          <6>1. PICK j \in 1..Len(list[t]) : list'[t][i] = list[t][j] BY <1>0, <2>3
          <6>2. list[t][j] # None => list[t][j].id \in Nat BY <1>0, ListTypes
          <6>3. list'[t][i] # None => e.id < list'[t][i].id BY <2>3, <5>2
          <6> QED BY <1>4, <6>1, <6>2, <6>3
        <5> QED BY <1>2, <5>1, <5>2
      <4> QED BY <1>0, <1>4, <2>2, <3>2, <4>1
    <3>3. \/ n \in 1..Len(handled[p]) /\ handled'[p][n] = handled[p][n]
          \/ p \in S /\ handled'[p][n] = e
      BY <1>1, <1>2, Grown DEF e
    <3> QED BY <3>1, <3>2, <3>3
  <2>7. OneOwner'
    <3>1. Ids(list'[t]) = Ids(list[t]) \ {e.id}
      BY <1>0, <1>2, <1>4, <2>1, <2>3, ListTypes, IdsWithout DEF Core, Queued, e
    <3>2. \A m \in Lists \ {t} : Ids(list'[m]) = Ids(list[m]) /\ e.id \notin Ids(list[m])
      <4>1. Owners BY OwnersHere DEF Core
      <4> QED BY <1>0, <1>4, <2>3, <4>1 DEF Owners
    <3>3. \A m \in Lists : Ids(list'[m]) = Ids(list[m]) \ {e.id} BY <3>1, <3>2
    <3>4. Taken' = Taken BY <1>3 DEF Taken
    <3>5. Taken' \cup deleted' = Taken \cup deleted \cup {e.id} BY <2>2, <3>4
    <3> QED BY <1>3, <1>4, <1>6, <3>3, <3>5, MovesOn
  <2>8. HandledOnce' /\ InOrder'
    <3>1. ASSUME NEW p \in S \cap Protocols, NEW n \in 1..Len(handled[p])
          PROVE  /\ handled[p][n].id # e.id
                 /\ ListOf(handled[p][n].kind) = ListOf(e.kind) => handled[p][n].id < e.id
      <4>1. Before(p, handled[p][n]) /\ handled[p][n].id \in 1..MaxEvents BY PastFacts
      <4>2. handled[p][n].id # e.id BY <1>4, <4>1 DEF Before
      <4>3. ListOf(handled[p][n].kind) = t => ~(e.id < handled[p][n].id)
        BY <1>2, <1>4, <1>5, <4>1 DEF Before, e
      <4> QED BY <1>4, <4>1, <4>2, <4>3, MaxIsNat
    <3>2. handled' = [p \in Protocols |->
                        IF p \in S THEN Append(handled[p], e) ELSE handled[p]]
      BY <1>1 DEF e
    <3>3. e \in Events /\ HandledOnce /\ InOrder BY <1>2 DEF Core, e
    <3> QED BY <3>1, <3>2, <3>3, GrownInOrder
  <2>9. PassedOver'
    <3> SUFFICES ASSUME NEW u \in Threads, NEW p \in snap[u], NEW i \in 1..Len(list'[u]),
                        at[u] = "events", i < pos[u]
                 PROVE  ~Wants(p, list'[u][i])
      <4>1. pos' = pos BY <1>7 DEF TypeOK
      <4> QED BY <1>3, <4>1 DEF PassedOver, Wants, Concerns, HasHandler
    <3>1. CASE u = t
      <4>1. i \in 1..Len(list[t])
        <5>1. Len(list[t]) \in Nat BY <1>0, ListTypes
        <5> QED BY <1>2, <3>1, <5>1
      <4> QED BY <2>4, <3>1, <4>1 DEF PassedOver
    <3>2. CASE u # t
      <4>1. list'[u] = list[u] BY <2>3, <3>2 DEF Lists
      <4> QED BY <4>1 DEF PassedOver
    <3> QED BY <3>1, <3>2
  <2> QED BY <2>3, <2>5, <2>6, <2>7, <2>8, <2>9 DEF Core
<1>8. CASE /\ Receivers(t, e) = {} /\ UNCHANGED <<list, deleted>>
           /\ pos' = [pos EXCEPT ![t] = pos[t] + 1]
  <2>1. handled' = handled
    <3>1. handled' = [p \in Protocols |-> handled[p]] BY <1>1, <1>8
    <3> QED BY <3>1 DEF TypeOK
  <2>2. Core' BY <1>3, <1>8, <2>1, CoreStays
  <2>3. PassedOver'
    <3> SUFFICES ASSUME NEW u \in Threads, NEW p \in snap[u], NEW i \in 1..Len(list[u]),
                        at[u] = "events", i < pos'[u]
                 PROVE  ~Wants(p, list[u][i])
      BY <1>3, <1>8 DEF PassedOver, Wants, Concerns, HasHandler
    <3>1. CASE u = t /\ i = k
      <4>1. p \in Protocols BY DEF TypeOK
      <4> QED BY <1>8, <3>1, <4>1 DEF Receivers, InPass, Wants
    <3>2. CASE ~(u = t /\ i = k)
      <4>1. i < pos[u]
        <5>1. CASE u = t
          <6>1. pos'[t] = k + 1 BY <1>8 DEF TypeOK
          <6> QED BY <1>2, <3>2, <5>1, <6>1
        <5>2. CASE u # t
          <6>1. pos'[u] = pos[u] BY <1>8, <5>2 DEF TypeOK
          <6> QED BY <6>1
        <5> QED BY <5>1, <5>2
      <4> QED BY <4>1 DEF PassedOver
    <3> QED BY <3>1, <3>2
  <2> QED BY <2>2, <2>3
<1> QED BY <1>1, <1>7, <1>8

\* The controller event thread takes an event, to deliver or to delete it.
LEMMA TakeStep ==
  ASSUME TypeOK, Control, Core, PassedOver, CtrlTake
  PROVE  Core' /\ PassedOver'
<1> DEFINE s == list["ctrl"]
           e == Head(s)
<1>0. "ctrl" \in Lists BY DEF Lists
<1>1. ctrlAt = "awake" /\ s # <<>> /\ e # None BY DEF CtrlTake
<1>2. /\ Tail(s) \in Seq(Entries) /\ Without(Tail(s), s, 1) /\ 1 \in 1..Len(s)
      /\ e = s[1]
  BY <1>0, <1>1, TailWithout, ListTypes
<1>3. list' = [list EXCEPT !["ctrl"] = Tail(s)] BY DEF CtrlTake
<1>4. UNCHANGED <<pos, snap, at, destroyer, arrived, handled>>
  BY DEF CtrlTake, passVars, lifeVars
<1>5. \/ ctrlEv' = e /\ deleted' = deleted
      \/ ctrlEv' = ctrlEv /\ deleted' = deleted \cup {e.id}
  BY DEF CtrlTake, ctrlVars
<1>6. ctrlEv = None /\ destroyer = "none" BY <1>1 DEF Control
<1> HIDE DEF e
<1>7. /\ e \in Events /\ ListOf(e.kind) = "ctrl" /\ e.id \in Ids(s)
      /\ e.id \in 1..arrived /\ e.id \notin deleted /\ e.id \in 1..MaxEvents
  BY <1>0, <1>1, <1>2, Waiting
<1>8. /\ Queued' /\ list'["ctrl"] = Tail(s)
      /\ \A m \in Lists \ {"ctrl"} : list'[m] = list[m]
      /\ \A m \in Lists : \A i \in 1..Len(list'[m]) :
           \E j \in 1..Len(list[m]) : list'[m][i] = list[m][j]
      /\ \A i \in 1..Len(list'["ctrl"]) :
           i >= 1 /\ list'["ctrl"][i] # None => e.id < list'["ctrl"][i].id
  <2>1. arrived' = arrived BY <1>4
  <2>2. /\ Queued' /\ list'["ctrl"] = Tail(s)
        /\ \A m \in Lists \ {"ctrl"} : list'[m] = list[m]
        /\ \A m \in Lists : \A i \in 1..Len(list'[m]) :
             \E j \in 1..Len(list[m]) : list'[m][i] = list[m][j]
        /\ s[1] # None => \A i \in 1..Len(list'["ctrl"]) :
             i >= 1 /\ list'["ctrl"][i] # None => s[1].id < list'["ctrl"][i].id
    BY <1>0, <1>2, <1>3, <2>1, Shrunk
  <2>3. s[1] # None /\ s[1] = e BY <1>1, <1>2
  <2> QED BY <2>2, <2>3
<1>9. InHand'
  <2>1. ctrlEv' # None =>
           /\ ctrlEv' = e /\ e.id \notin deleted'
           /\ \A i \in 1..Len(list'["ctrl"]) :
                 list'["ctrl"][i] # None => e.id < list'["ctrl"][i].id
    BY <1>5, <1>6, <1>7, <1>8
  <2> QED BY <1>7, <2>1 DEF InHand, ListOf
<1>10. Past'
  <2> SUFFICES ASSUME NEW p \in Protocols, NEW n \in 1..Len(handled[p])
               PROVE  LET h == handled[p][n] IN
                      /\ h.id \in deleted'
                      /\ ListOf(h.kind) = "ctrl" /\ ctrlEv' # None => h.id < ctrlEv'.id
                      /\ \A i \in 1..Len(list'[ListOf(h.kind)]) :
                            LET e1 == list'[ListOf(h.kind)][i]
                            IN e1 # None /\ e1.id < h.id
                                  => ListOf(h.kind) # "ctrl" /\ ~Wants(p, e1)
    BY <1>4, PastNext
  <2> DEFINE h == handled[p][n]
             m == ListOf(h.kind)
  <2>1. Before(p, h) /\ m \in Lists /\ h.id \in 1..MaxEvents BY PastFacts
  <2> HIDE DEF h
  <2>2. \A i \in 1..Len(list'[m]) :
           list'[m][i] # None /\ list'[m][i].id < h.id => m # "ctrl" /\ ~Wants(p, list'[m][i])
    BY <1>8, <2>1 DEF Before
  <2>3. h.id \in deleted /\ h.id \in deleted' BY <1>5, <2>1 DEF Before
  <2>4. m = "ctrl" => h.id < e.id
    <3>1. m = "ctrl" => ~(e.id < h.id) BY <1>1, <1>2, <2>1 DEF Before
    <3> QED BY <1>7, <2>1, <2>3, <3>1, MaxIsNat
  <2>5. m = "ctrl" /\ ctrlEv' # None => h.id < ctrlEv'.id BY <1>5, <1>6, <2>4
  <2> QED BY <2>2, <2>3, <2>5 DEF h
<1>11. OneOwner'
  <2>1. Ids(list'["ctrl"]) = Ids(list["ctrl"]) \ {e.id}
    BY <1>0, <1>1, <1>2, <1>8, ListTypes, IdsWithout DEF Core, Queued
  <2>2. \A m \in Lists \ {"ctrl"} : Ids(list'[m]) = Ids(list[m]) /\ e.id \notin Ids(list[m])
    <3>1. Owners BY OwnersHere DEF Core
    <3> QED BY <1>0, <1>7, <1>8, <3>1 DEF Owners
  <2>3. \A m \in Lists : Ids(list'[m]) = Ids(list[m]) \ {e.id} BY <2>1, <2>2
  <2>4. Taken' \cup deleted' = Taken \cup deleted \cup {e.id}
    <3>1. Taken = {} /\ Taken' = (IF ctrlEv' = None THEN {} ELSE {ctrlEv'.id})
      BY <1>6 DEF Taken
    <3> QED BY <1>1, <1>5, <1>6, <3>1
  <2> QED BY <1>4, <1>6, <1>7, <2>3, <2>4, MovesOn
<1>12. HandledOnce' /\ InOrder'
  BY <1>4 DEF Core, HandledOnce, IsInjective, InOrder, ListOf
<1>13. PassedOver'
  <2>1. \A t \in Threads : list'[t] = list[t] BY <1>8 DEF Lists, Threads
  <2> QED BY <1>4, <2>1 DEF PassedOver, Wants, Concerns, HasHandler
<1> QED BY <1>8, <1>9, <1>10, <1>11, <1>12, <1>13 DEF Core

\* The controller event thread delivers what it has taken.
LEMMA CtrlDeliverStep ==
  ASSUME TypeOK, Control, Core, PassedOver, CtrlDeliver
  PROVE  Core' /\ PassedOver'
<1>1. ctrlAt = "deliver" /\ ctrlEv # None /\ ctrlEv \in Events /\ destroyer = "none"
  BY DEF CtrlDeliver, Control, TypeOK
<1>2. PICK gp : handled' = [p \in Protocols |->
                   IF p \in gp THEN Append(handled[p], ctrlEv) ELSE handled[p]]
  BY DEF CtrlDeliver
<1>3. /\ UNCHANGED <<list, pos, snap, at, destroyer, arrived>> /\ ctrlEv' = None
      /\ deleted' = deleted \cup {ctrlEv.id}
  BY DEF CtrlDeliver, passVars, lifeVars
<1>4. /\ ListOf(ctrlEv.kind) = "ctrl" /\ ctrlEv.id \notin deleted /\ ctrlEv.id \in 1..MaxEvents
      /\ \A i \in 1..Len(list["ctrl"]) :
            list["ctrl"][i] # None => ctrlEv.id < list["ctrl"][i].id
  BY <1>1, EventFacts DEF Core, InHand
<1>5. Queued' BY <1>3 DEF Core, Queued, Increasing, Sound, ListOf
<1>6. InHand' BY <1>3 DEF InHand
<1>7. Past'
  <2> SUFFICES ASSUME NEW p \in Protocols, NEW n \in 1..Len(handled'[p])
               PROVE  LET h == handled'[p][n] IN
                      /\ h.id \in deleted'
                      /\ \A i \in 1..Len(list[ListOf(h.kind)]) :
                            LET e1 == list[ListOf(h.kind)][i]
                            IN e1 # None /\ e1.id < h.id
                                  => ListOf(h.kind) # "ctrl" /\ ~Wants(p, e1)
    BY <1>3, PastNext
  <2>1. CASE n \in 1..Len(handled[p]) /\ handled'[p][n] = handled[p][n]
    <3>1. Before(p, handled[p][n]) BY <2>1, PastFacts
    <3> QED BY <1>3, <2>1, <3>1 DEF Before
  <2>2. CASE handled'[p][n] = ctrlEv
    <3>1. \A i \in 1..Len(list["ctrl"]) :
             list["ctrl"][i] # None => ~(list["ctrl"][i].id < ctrlEv.id)
      <4> TAKE i \in 1..Len(list["ctrl"])
      <4>1. list["ctrl"][i] # None => list["ctrl"][i].id \in Nat BY ListTypes DEF Lists
      <4> QED BY <1>4, <4>1
    <3> QED BY <1>3, <1>4, <2>2, <3>1
  <2> QED BY <1>1, <1>2, <2>1, <2>2, Grown
<1>8. OneOwner'
  <2>1. Owners BY OwnersHere DEF Core
  <2>2. Taken = {ctrlEv.id} /\ Taken' = {} BY <1>1, <1>3 DEF Taken
  <2>3. ctrlEv.id \in 1..arrived BY <2>1, <2>2 DEF Owners
  <2>4. \A l \in Lists : Ids(list'[l]) = Ids(list[l]) \ {ctrlEv.id}
    BY <1>3, <2>1, <2>2 DEF Owners
  <2>5. Taken' \cup deleted' = Taken \cup deleted \cup {ctrlEv.id} BY <1>3, <2>2
  <2> QED BY <1>1, <1>3, <2>3, <2>4, <2>5, MovesOn
<1>9. HandledOnce' /\ InOrder'
  <2>1. ASSUME NEW p \in gp \cap Protocols, NEW n \in 1..Len(handled[p])
        PROVE  /\ handled[p][n].id # ctrlEv.id
               /\ ListOf(handled[p][n].kind) = ListOf(ctrlEv.kind)
                     => handled[p][n].id < ctrlEv.id
    <3>1. Before(p, handled[p][n]) BY PastFacts
    <3> QED BY <1>1, <1>4, <3>1 DEF Before
  <2> QED BY <1>1, <1>2, <2>1, GrownInOrder DEF Core
<1>10. PassedOver' BY <1>3 DEF PassedOver, Wants, Concerns, HasHandler
<1> QED BY <1>5, <1>6, <1>7, <1>8, <1>9, <1>10 DEF Core

\* The controller event thread finds the end of its list.
LEMMA CtrlExitStep ==
  ASSUME TypeOK, Control, Core, PassedOver, CtrlExit
  PROVE  Core' /\ PassedOver'
<1> DEFINE s == list["ctrl"]
<1>0. "ctrl" \in Lists BY DEF Lists
<1>1. ctrlAt = "awake" /\ s # <<>> /\ Head(s) = None BY DEF CtrlExit
<1>2. /\ Tail(s) \in Seq(Entries) /\ Without(Tail(s), s, 1) /\ 1 \in 1..Len(s)
  BY <1>0, <1>1, TailWithout, ListTypes
<1>3. list' = [list EXCEPT !["ctrl"] = Tail(s)] BY DEF CtrlExit
<1>4. UNCHANGED <<pos, snap, at, destroyer, arrived, handled, deleted, ctrlEv>>
  BY DEF CtrlExit, passVars, histVars
<1>5. ctrlEv = None BY <1>1 DEF Control
<1>6. /\ Queued' /\ list'["ctrl"] = Tail(s)
      /\ \A m \in Lists \ {"ctrl"} : list'[m] = list[m]
      /\ \A m \in Lists : \A i \in 1..Len(list'[m]) :
           \E j \in 1..Len(list[m]) : list'[m][i] = list[m][j]
  BY <1>0, <1>2, <1>3, <1>4, Shrunk
<1>7. InHand' BY <1>4, <1>5 DEF InHand
<1>8. Past'
  <2> SUFFICES ASSUME NEW p \in Protocols, NEW n \in 1..Len(handled[p])
               PROVE  LET h == handled[p][n] IN
                      /\ h.id \in deleted
                      /\ \A i \in 1..Len(list'[ListOf(h.kind)]) :
                            LET e1 == list'[ListOf(h.kind)][i]
                            IN e1 # None /\ e1.id < h.id
                                  => ListOf(h.kind) # "ctrl" /\ ~Wants(p, e1)
    BY <1>4, <1>5, PastNext
  <2> DEFINE h == handled[p][n]
             m == ListOf(h.kind)
  <2>1. Before(p, h) /\ m \in Lists BY PastFacts
  <2> HIDE DEF h
  <2>2. \A i \in 1..Len(list'[m]) :
           list'[m][i] # None /\ list'[m][i].id < h.id => m # "ctrl" /\ ~Wants(p, list'[m][i])
    BY <1>6, <2>1 DEF Before
  <2> QED BY <2>1, <2>2 DEF Before, h
<1>9. OneOwner'
  <2>1. Owners BY OwnersHere DEF Core
  <2>2. \A l \in Lists : Ids(list'[l]) = Ids(list[l])
    BY <1>0, <1>1, <1>6, ListTypes, IdsWithoutNone
  <2>3. Taken' = Taken BY <1>4 DEF Taken
  <2> QED BY <1>4, <2>1, <2>2, <2>3, OwnersNext DEF Owners
<1>10. HandledOnce' /\ InOrder'
  BY <1>4 DEF Core, HandledOnce, IsInjective, InOrder, ListOf
<1>11. PassedOver'
  <2>1. \A t \in Threads : list'[t] = list[t] BY <1>6 DEF Lists, Threads
  <2> QED BY <1>4, <2>1 DEF PassedOver, Wants, Concerns, HasHandler
<1> QED BY <1>6, <1>7, <1>8, <1>9, <1>10, <1>11 DEF Core

\* A shared pointer goes: the last one takes the manager with it.
LEMMA ReleaseStep ==
  ASSUME TypeOK, Control, Core, PassedOver,
         NEW h \in {"main", "async", "net"}, Release(h),
         UNCHANGED <<ctrlEv, arrived, handled, pos, snap>>,
         \A t \in Threads : at'[t] = "events" => at[t] = "events"
  PROVE  Core' /\ PassedOver'
<1>1. CASE holders # {h}
  <2>1. UNCHANGED <<list, deleted, destroyer>> BY <1>1 DEF Release
  <2>2. Core' BY <2>1, CoreStays
  <2>3. PassedOver' BY <2>1 DEF PassedOver, Wants, Concerns, HasHandler
  <2> QED BY <2>2, <2>3
<1>2. CASE holders = {h}
  <2>1. /\ list' = [l \in Lists |-> <<>>] /\ deleted' = deleted \cup Frees
        /\ destroyer' = h
    BY <1>2 DEF Release
  <2>2. ctrlEv = None BY <1>2 DEF Control
  <2>3. \A l \in Lists : list'[l] = <<>> /\ Len(list'[l]) = 0 BY <2>1, EmptyLists
  <2>4. \A l \in Lists : \A i \in 1..Len(list'[l]) : FALSE BY <2>3
  <2>5. Queued' BY <2>4 DEF Queued, Increasing
  <2>6. InHand' BY <2>2 DEF InHand
  <2>7. Past'
    <3> SUFFICES ASSUME NEW p \in Protocols, NEW n \in 1..Len(handled[p])
                 PROVE  LET h1 == handled[p][n] IN
                        /\ h1.id \in deleted'
                        /\ \A i \in 1..Len(list'[ListOf(h1.kind)]) : FALSE
      BY <2>2, PastNext
    <3>1. Before(p, handled[p][n]) /\ ListOf(handled[p][n].kind) \in Lists BY PastFacts
    <3> QED BY <2>1, <2>4, <3>1 DEF Before
  <2>8. OneOwner'
    <3>1. Owners BY OwnersHere DEF Core
    <3>2. Taken = {} /\ Taken' = {} BY <2>2 DEF Taken
    <3>3. \A l \in Lists : \A x : x \notin Ids(list'[l]) BY <2>4, IdsOf
    <3>4. \A x : x \in Frees <=> \E l \in Lists : x \in Ids(list[l]) BY DEF Frees
    <3>5. \A x : x \in 1..arrived' <=> x \in deleted'
      BY <2>1, <3>1, <3>2, <3>4 DEF Owners
    <3> QED BY <3>2, <3>3, <3>5, OwnersNext
  <2>9. HandledOnce' /\ InOrder' BY DEF Core, HandledOnce, IsInjective, InOrder, ListOf
  <2>10. PassedOver'
    <3>1. \A t \in Threads : t \in Lists BY DEF Lists
    <3> QED BY <2>4, <3>1 DEF PassedOver
  <2> QED BY <2>5, <2>6, <2>7, <2>8, <2>9, <2>10 DEF Core
<1> QED BY <1>1, <1>2

-----------------------------------------------------------------------------
(* The theorems                                                            *)

LEMMA InitCore == Init => Core /\ PassedOver
<1> SUFFICES ASSUME Init PROVE Core /\ PassedOver OBVIOUS
<1>1. \A l \in Lists : list[l] = <<>> /\ Len(list[l]) = 0 BY EmptyLists DEF Init
<1>2. \A l \in Lists : \A i \in 1..Len(list[l]) : FALSE BY <1>1
<1>3. \A p \in Protocols : handled[p] = <<>> /\ Len(handled[p]) = 0 BY EmptyLists DEF Init
<1>4. \A p \in Protocols : \A n \in 1..Len(handled[p]) : FALSE BY <1>3
<1>5. Queued BY <1>2 DEF Queued, Increasing
<1>6. InHand BY DEF Init, InHand
<1>7. Past BY <1>4 DEF Past
<1>8. Owners
  <2>1. Taken = {} /\ deleted = {} /\ destroyer = "none" BY DEF Init, Taken
  <2>2. \A l \in Lists : \A x : x \notin Ids(list[l]) BY <1>2, IdsOf
  <2>3. \A x : x \notin 1..arrived BY DEF Init
  <2> QED BY <2>1, <2>2, <2>3 DEF Owners
<1>9. HandledOnce
  <2>1. \A p \in Protocols : DOMAIN (handled[p]) = {} BY <1>3
  <2> QED BY <2>1 DEF HandledOnce, IsInjective
<1>10. InOrder BY <1>4 DEF InOrder
<1>11. PassedOver BY DEF Init, PassedOver
<1> QED BY <1>5, <1>6, <1>7, <1>8, <1>9, <1>10, <1>11, OwnersHere DEF Core

LEMMA CoreStep ==
  TypeOK /\ Control /\ Core /\ PassedOver /\ [Next]_vars => Core' /\ PassedOver'
<1> SUFFICES ASSUME TypeOK, Control, Core, PassedOver, [Next]_vars
             PROVE  Core' /\ PassedOver'
  OBVIOUS
<1> USE DEF passVars, ctrlVars, lifeVars, protVars, histVars
\* Neither the events nor the passes are touched.
<1>0. ASSUME UNCHANGED <<list, ctrlEv, arrived, deleted, handled, destroyer,
                         pos, snap, at>>
      PROVE  Core' /\ PassedOver'
  <2>1. Core' BY <1>0, CoreStays
  <2>2. PassedOver' BY <1>0 DEF PassedOver, Wants, Concerns, HasHandler
  <2> QED BY <2>1, <2>2
<1>1. CASE NetLock BY <1>0, <1>1 DEF NetLock
<1>2. ASSUME NEW k \in Kinds, PropagateEvent(k) PROVE Core' /\ PassedOver'
  <2> DEFINE e == [id |-> arrived + 1, kind |-> k]
             l == ListOf(k)
  <2>1. arrived + 1 \in 1..MaxEvents BY <1>2, MaxIsNat DEF PropagateEvent, Control, TypeOK
  <2>2. /\ e \in Events /\ e \in Entries /\ e # None /\ e.id = arrived + 1
        /\ ListOf(e.kind) = l /\ l \in Lists
    BY <2>1, KindList, EventFacts DEF Events, Entries
  <2>3. /\ list' = [list EXCEPT ![l] = Append(@, e)]
        /\ UNCHANGED <<ctrlEv, deleted, handled, destroyer, pos, snap, at>>
        /\ arrived' = arrived + 1
    BY <1>2 DEF PropagateEvent
  <2>4. destroyer = "none"
    <3>1. "net" \in holders BY <1>2 DEF PropagateEvent, Control
    <3> QED BY <3>1 DEF Control
  <2> HIDE DEF e, l
  <2>5. Core' BY <2>2, <2>3, <2>4, CoreAppends
  <2>6. PassedOver'
    <3>1. \A t \in Threads : \A i \in 1..Len(list'[t]) :
             i < pos[t] => i \in 1..Len(list[t]) /\ list'[t][i] = list[t][i]
      <4> TAKE t \in Threads
      <4>1. /\ t \in Lists /\ list[t] \in Seq(Entries) /\ Len(list[t]) \in Nat
            /\ pos[t] \in Nat /\ pos[t] <= Len(list[t]) + 1
        BY ListTypes DEF TypeOK, Lists
      <4>2. CASE t = l
        <5>1. list'[t] = Append(list[t], e) BY <2>3, <4>1, <4>2 DEF TypeOK
        <5>2. With(list'[t], list[t], e) BY <2>2, <4>1, <5>1, AppendWith
        <5> QED BY <4>1, <5>2 DEF With
      <4>3. CASE t # l
        <5>1. list'[t] = list[t] BY <2>3, <4>1, <4>3 DEF TypeOK
        <5> QED BY <5>1
      <4> QED BY <4>2, <4>3
    <3>2. \A t \in Threads : \A p \in snap[t] : \A i \in 1..Len(list'[t]) :
             at[t] = "events" /\ i < pos[t] => ~Wants(p, list'[t][i])
      BY <3>1 DEF PassedOver
    <3> QED BY <2>3, <3>2 DEF PassedOver, Wants, Concerns, HasHandler
  <2> QED BY <2>5, <2>6
<1>3. CASE NetRelease BY <1>3, ReleaseStep DEF NetRelease
<1>4. ASSUME NEW e, Age(e) PROVE Core' /\ PassedOver' BY <1>0, <1>4 DEF Age
<1>5. ASSUME NEW p \in Protocols, RequestStart(p) PROVE Core' /\ PassedOver'
  BY <1>0, <1>5 DEF RequestStart
<1>6. ASSUME NEW gone, Terminate(gone) PROVE Core' /\ PassedOver'
  BY <1>0, <1>6 DEF Terminate
<1>7. CASE LobbyState BY <1>0, <1>7 DEF LobbyState
<1>8. ASSUME NEW t \in Threads, BeginPass(t) PROVE Core' /\ PassedOver'
  <2>1. Core' BY <1>8, CoreStays DEF BeginPass
  <2>2. pos[t] = 1 BY <1>8 DEF BeginPass, Control
  <2>3. PassedOver'
    <3> SUFFICES ASSUME NEW u \in Threads, NEW p \in snap'[u], NEW i \in 1..Len(list[u]),
                        at'[u] = "events", i < pos[u]
                 PROVE  ~Wants(p, list[u][i])
      BY <1>8 DEF BeginPass, PassedOver, Wants, Concerns, HasHandler
    <3>1. u # t BY <2>2
    <3>2. snap'[u] = snap[u] /\ at'[u] = at[u] BY <1>8, <3>1 DEF BeginPass, TypeOK
    <3> QED BY <3>2 DEF PassedOver
  <2> QED BY <2>1, <2>3
<1>9. ASSUME NEW t \in Threads, Deliver(t) PROVE Core' /\ PassedOver' BY <1>9, DeliverStep
<1>10. ASSUME NEW t \in Threads, EndPass(t) PROVE Core' /\ PassedOver'
  <2>1. Core' BY <1>10, CoreStays DEF EndPass
  <2>2. PassedOver'
    <3> SUFFICES ASSUME NEW u \in Threads, NEW p \in snap'[u], NEW i \in 1..Len(list[u]),
                        at'[u] = "events", i < pos'[u]
                 PROVE  ~Wants(p, list[u][i])
      BY <1>10 DEF EndPass, PassedOver, Wants, Concerns, HasHandler
    <3>1. u # t BY <1>10 DEF EndPass, TypeOK
    <3>2. snap'[u] = snap[u] /\ at'[u] = at[u] /\ pos'[u] = pos[u]
      BY <1>10, <3>1 DEF EndPass, TypeOK
    <3> QED BY <3>2 DEF PassedOver
  <2> QED BY <2>1, <2>2
<1>11. CASE AsyncExit
  <2>1. \A t \in Threads : at'[t] = "events" => at[t] = "events"
    BY <1>11 DEF AsyncExit, TypeOK
  <2> QED BY <1>11, <2>1, ReleaseStep DEF AsyncExit
<1>12. CASE CtrlWait BY <1>0, <1>12 DEF CtrlWait
<1>13. CASE CtrlTake BY <1>13, TakeStep
<1>14. CASE CtrlDeliver BY <1>14, CtrlDeliverStep
<1>15. CASE CtrlExit BY <1>15, CtrlExitStep
<1>16. CASE AbortBegin BY <1>0, <1>16 DEF AbortBegin
<1>17. CASE AbortPush
  <2>1. None \in Entries /\ "ctrl" \in Lists BY DEF Entries, Lists
  <2>2. /\ list' = [list EXCEPT !["ctrl"] = Append(@, None)]
        /\ UNCHANGED <<ctrlEv, deleted, handled, destroyer, arrived>>
    BY <1>17 DEF AbortPush
  <2>3. Core' BY <2>1, <2>2, CoreAppends
  <2>4. \A t \in Threads : list'[t] = list[t] BY <1>17 DEF AbortPush, TypeOK, Lists, Threads
  <2>5. UNCHANGED <<pos, snap, at>> BY <1>17 DEF AbortPush
  <2>6. PassedOver' BY <2>4, <2>5 DEF PassedOver, Wants, Concerns, HasHandler
  <2> QED BY <2>3, <2>6
<1>18. CASE AbortJoin BY <1>0, <1>18 DEF AbortJoin
<1>19. CASE AbortRelease BY <1>19, ReleaseStep DEF AbortRelease
<1>20. CASE UNCHANGED vars BY <1>0, <1>20 DEF vars
<1> QED
  BY <1>1, <1>2, <1>3, <1>4, <1>5, <1>6, <1>7, <1>8, <1>9, <1>10, <1>11, <1>12,
     <1>13, <1>14, <1>15, <1>16, <1>17, <1>18, <1>19, <1>20
  DEF Next, Net, Ctrl, Async, Abort, Pass, RequestTerminate, FindAndTerminate, Threads

\* The iterators of the passes are valid and all variables have their types,
\* whatever arrives, starts and stops between two steps of a pass
\* (update, asynchronousUpdate, abort).
THEOREM TypeCorrect == Spec => []TypeOK
<1>1. TypeOK /\ Control /\ [Next]_vars => (TypeOK /\ Control)' BY TypeStep
<1> QED BY InitTypes, <1>1, PTL DEF Spec

\* The invariant behind the other theorems.
THEOREM Invariant == Spec => []IInv
<1>1. Init => IInv BY InitTypes, InitCore DEF IInv
<1>2. IInv /\ [Next]_vars => IInv' BY TypeStep, CoreStep DEF IInv
<1> QED BY <1>1, <1>2, PTL DEF Spec

\* No event is lost, deleted twice or deleted while it is handled, and none is
\* left when the last shared pointer has gone (sendEvent, ~ProtocolManager).
THEOREM AlwaysOneOwner == Spec => []OneOwner
<1>1. IInv => OneOwner BY DEF IInv, Core
<1> QED BY <1>1, Invariant, PTL

\* No protocol handles an event twice, however often it is offered (sendEvent).
THEOREM OnceEach == Spec => []HandledOnce
<1>1. IInv => HandledOnce BY DEF IInv, Core
<1> QED BY <1>1, Invariant, PTL

\* Every protocol sees the events of one list in the order of arrival (update,
\* asynchronousUpdate, the controller event thread).
THEOREM AlwaysInOrder == Spec => []InOrder
<1>1. IInv => InOrder BY DEF IInv, Core
<1> QED BY <1>1, Invariant, PTL
=============================================================================
