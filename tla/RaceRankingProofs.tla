-------------------------- MODULE RaceRankingProofs --------------------------
(***************************************************************************)
(* Proofs about RaceRanking, for every number of karts, laps and clients:  *)
(* no two karts have the same place, on the server and in the result of a  *)
(* client, and both agree.  On either side karts that have crossed the     *)
(* line hold the first places and karts that left hold the last ones; the  *)
(* server counts those in between.                                         *)
(***************************************************************************)
EXTENDS RaceRanking, SequenceTheorems, SequenceLemmas, FiniteSetTheorems, TLAPS

-----------------------------------------------------------------------------
(* The inductive invariant                                                 *)

\* The karts that have finished and not left
Home == finished \ out

\* Laps are counted up to the last one.
LapsCounted == /\ \A k \in Karts \ finished : laps[k] < Laps
               /\ ~early => \A k \in Home : laps[k] = Laps

\* Karts at home hold the first places.
HomeFirst == /\ \A k \in Home : place[k] \in 1 .. Cardinality(Home)
             /\ \A j, k \in Home : place[j] = place[k] => j = k

\* Karts that left hold the last places.
OutLast == /\ \A k \in out : place[k] > N - Cardinality(out)
           /\ \A j, k \in out : place[j] = place[k] => j = k

\* All karts that cross a line in a tick have done so by its end.
LinesDone == pc # "lines" => crossed = {}

\* Until an early end every place is that of one kart in m_position_index,
\* which is up to date when the tick begins unless a kart has left.
IndexOnce == ~early => \A p, q \in Places : index[p] = index[q] => p = q
IndexFits == ~early /\ pc = "world" /\ out = {} =>
                 \A k \in Karts : index[place[k]] = k

\* An early end lets all karts finish.
EndedAll == early => finished = Karts

Inv == /\ TypeOK /\ LapsCounted /\ HomeFirst /\ OutLast /\ LinesDone /\ Ranked
       /\ IndexOnce /\ IndexFits /\ EndedAll

\* What holds even after an early end that gave wrong places
SetsFit == /\ out \subseteq finished /\ finished \subseteq Karts /\ gone \subseteq Karts
           /\ early => phase # "race"

IInv == SetsFit /\ (PunishedWrong \/ Inv)

-----------------------------------------------------------------------------
(* Sets of karts, distances and places                                     *)

LEMMA Consts == N \in Nat \ {0} /\ Laps \in Nat \ {0} /\ Length \in Nat \ {0}
BY ConstAssumption

LEMMA SetsOfKarts ==
  ASSUME NEW S \in SUBSET Karts, NEW T \in SUBSET S
  PROVE  /\ IsFiniteSet(S) /\ IsFiniteSet(T)
         /\ Cardinality(S) \in 0 .. N
         /\ Cardinality(T) \in 0 .. Cardinality(S)
         /\ Cardinality(S) = Cardinality(T) => S = T
         /\ Cardinality(S \ T) = Cardinality(S) - Cardinality(T)
<1>1. IsFiniteSet(Karts) /\ Cardinality(Karts) = N
  BY Consts, FS_Interval, 1 \in Int, N \in Int DEF Karts
<1>2. IsFiniteSet(S) /\ Cardinality(S) \in 0 .. N
  BY <1>1, FS_Subset, FS_CardinalityType, Consts
<1>3. /\ IsFiniteSet(T) /\ Cardinality(T) \in 0 .. Cardinality(S)
      /\ Cardinality(S) = Cardinality(T) => S = T
  BY <1>2, FS_Subset, FS_CardinalityType
<1>4. Cardinality(S \ T) = Cardinality(S) - Cardinality(T)
  <2>1. IsFiniteSet(S \ T) BY <1>2, FS_Subset
  <2>2. S = (S \ T) \cup T /\ (S \ T) \cap T = {} OBVIOUS
  <2>3. Cardinality((S \ T) \cup T) = Cardinality(S \ T) + Cardinality(T) - Cardinality((S \ T) \cap T)
    BY <1>3, <2>1, FS_Union, Zenon
  <2>4. Cardinality((S \ T) \cap T) = 0 BY <2>2, FS_EmptySet
  <2>5. Cardinality(S \ T) \in Nat /\ Cardinality(T) \in Nat BY <1>3, <2>1, FS_CardinalityType
  <2> QED BY <2>2, <2>3, <2>4, <2>5
<1> QED BY <1>2, <1>3, <1>4

\* As many karts as places: if no two share one, none is free.
LEMMA NoneFree ==
  ASSUME NEW S \in SUBSET Karts, NEW p,
         \A k \in S : p[k] \in 1 .. Cardinality(S),
         \A j, k \in S : p[j] = p[k] => j = k
  PROVE  \A i \in 1 .. Cardinality(S) : \E k \in S : p[k] = i
<1> DEFINE f == [k \in S |-> p[k]]
           T == 1 .. Cardinality(S)
<1>1. IsFiniteSet(S) /\ Cardinality(S) \in Nat
  <2>1. S \in SUBSET S OBVIOUS
  <2>2. IsFiniteSet(S) /\ Cardinality(S) \in 0 .. N BY <2>1, SetsOfKarts
  <2> QED BY <2>2, Consts
<1>2. IsFiniteSet(T) /\ Cardinality(T) = Cardinality(S)
  BY <1>1, FS_Interval, 1 \in Int, Cardinality(S) \in Int
<1>3. f \in Injection(S, T) BY DEF Injection, IsInjective
<1>4. f \in Surjection(S, T)
  <2> HIDE DEF f, T
  <2> QED BY <1>2, <1>3, FS_Injection
<1> QED BY <1>4 DEF Surjection

\* Who has more laps is further, wherever on the track.
LEMMA MoreLaps ==
  ASSUME NEW l \in Nat, NEW m \in Nat, l < m, NEW a \in 0 .. Length - 1, NEW b \in Nat
  PROVE  m * Length + b > l * Length + a
<1>1. PICK d \in Nat : m = l + 1 + d
  <2>1. m - l - 1 \in Nat /\ m = l + 1 + (m - l - 1) OBVIOUS
  <2> QED BY <2>1
<1>2. m * Length = l * Length + Length + d * Length
  <2>1. Length \in Int /\ l \in Int /\ d \in Int BY Consts
  <2> QED BY <1>1, <2>1
<1>3. d * Length \in Nat /\ l * Length \in Nat /\ Length \in Nat /\ m * Length \in Nat BY Consts
<1> QED BY <1>2, <1>3

LEMMA Distances ==
  ASSUME NEW k \in Karts, NEW l \in [Karts -> Int], NEW a \in [Karts -> Int]
  PROVE  Distance(k, l, a) \in Int
<1>1. l[k] \in Int /\ a[k] \in Int /\ Length \in Int BY Consts
<1>2. l[k] * Length \in Int BY <1>1
<1> QED BY <1>1, <1>2 DEF Distance

\* A kart in the race comes behind those at home and before those that left.
LEMMA AheadBounds ==
  ASSUME out \subseteq finished, finished \subseteq Karts,
         NEW k \in Karts \ finished, NEW l, NEW a
  PROVE  /\ Home \subseteq Ahead(k, l, a)
         /\ Ahead(k, l, a) \subseteq Karts \ (out \cup {k})
         /\ Cardinality(Home) \in Nat /\ Cardinality(out) \in Nat
         /\ Cardinality(Ahead(k, l, a)) \in Cardinality(Home) .. N - Cardinality(out) - 1
<1> DEFINE A == Ahead(k, l, a)
           R == Karts \ out
           Q == R \ {k}
<1>1. Home \subseteq A BY DEF Home, Ahead
<1>2. A \subseteq Q BY DEF Ahead
<1> HIDE DEF A
<1>3. Cardinality(R) = N - Cardinality(out)
  <2>1. Cardinality(Karts) = N BY Consts, FS_Interval, 1 \in Int, N \in Int DEF Karts
  <2> QED BY <2>1, SetsOfKarts
<1>4. IsFiniteSet(R) /\ k \in R BY SetsOfKarts
<1>5. Cardinality(Q) = Cardinality(R) - 1 BY <1>4, FS_RemoveElement, Zenon
<1>6. Cardinality(A) \in 0 .. Cardinality(Q) BY <1>2, SetsOfKarts
<1>7. Cardinality(Home) \in 0 .. Cardinality(A) BY <1>1, <1>2, SetsOfKarts
<1>8. Cardinality(out) \in Nat
  <2>1. out \in SUBSET Karts /\ out \in SUBSET out OBVIOUS
  <2>2. Cardinality(out) \in 0 .. N BY ONLY <2>1, SetsOfKarts
  <2> QED BY <2>2
<1>9. A = Ahead(k, l, a) BY DEF A
<1> QED BY <1>1, <1>2, <1>3, <1>5, <1>6, <1>7, <1>8, <1>9, Consts

\* Of two karts in the race one is ahead of the other.
LEMMA AheadDiffers ==
  ASSUME out \subseteq finished, finished \subseteq Karts,
         NEW j \in Karts \ finished, NEW k \in Karts \ finished, j # k,
         NEW l \in [Karts -> Int], NEW a \in [Karts -> Int]
  PROVE  Cardinality(Ahead(j, l, a)) # Cardinality(Ahead(k, l, a))
<1> DEFINE D(x) == Distance(x, l, a)
<1>1. \A x \in Karts : D(x) \in Int BY Distances
<1>2. ASSUME NEW x \in Karts \ finished, NEW y \in Karts \ finished,
             D(x) > D(y) \/ (D(x) = D(y) /\ x < y)
      PROVE  Cardinality(Ahead(x, l, a)) # Cardinality(Ahead(y, l, a))
  <2>1. x \in Ahead(y, l, a) /\ x \notin Ahead(x, l, a)
    <3>1. x # y
      <4> HIDE DEF D
      <4>1. x \in Int /\ D(x) \in Int BY <1>1, Consts DEF Karts
      <4> QED BY <1>2, <4>1
    <3>2. x \in Karts \ (out \cup {y}) BY <3>1
    <3> QED BY <1>2, <3>2 DEF Ahead
  <2>2. Ahead(x, l, a) \subseteq Ahead(y, l, a)
    <3> SUFFICES ASSUME NEW z \in Ahead(x, l, a) PROVE z \in Ahead(y, l, a) OBVIOUS
    <3>1. z \in Karts /\ z \notin out /\ z # x BY DEF Ahead
    <3>2. z \in finished \/ D(z) > D(x) \/ (D(z) = D(x) /\ z < x) BY DEF Ahead
    <3>3. CASE z \in finished BY <3>1, <3>3 DEF Ahead
    <3>4. CASE z \notin finished
      <4> HIDE DEF D
      <4>0. z \in Int /\ x \in Int /\ y \in Int BY <3>1, Consts DEF Karts
      <4>1. (D(z) > D(y) \/ (D(z) = D(y) /\ z < y)) /\ z # y
        BY <1>1, <1>2, <3>1, <3>2, <3>4, <4>0
      <4> QED BY <3>1, <4>1 DEF Ahead, D
    <3> QED BY <3>3, <3>4
  <2>3. Ahead(y, l, a) \subseteq Karts BY DEF Ahead
  <2> QED BY <2>1, <2>2, <2>3, SetsOfKarts
<1>3. CASE D(j) > D(k) \/ (D(j) = D(k) /\ j < k) BY <1>2, <1>3
<1>4. CASE D(k) > D(j) \/ (D(j) = D(k) /\ k < j) BY <1>2, <1>4
<1>5. j \in Int /\ k \in Int BY Consts DEF Karts
<1> HIDE DEF D
<1> QED BY <1>1, <1>3, <1>4, <1>5

\* The places that updateRacePosition finds
LEMMA Placed ==
  ASSUME out \subseteq finished, finished \subseteq Karts,
         place \in [Karts -> Places], HomeFirst, OutLast,
         NEW l \in [Karts -> Int], NEW a \in [Karts -> Int]
  PROVE  LET p == RacePosition(l, a) IN
         /\ p \in [Karts -> Places]
         /\ \A k \in finished : p[k] = place[k]
         /\ \A k \in Karts \ finished : p[k] = 1 + Cardinality(Ahead(k, l, a))
         /\ \A j, k \in Karts : p[j] = p[k] => j = k
<1> DEFINE p == RacePosition(l, a)
           h == Cardinality(Home)
           e == Cardinality(out)
<1>1. \A k \in finished : p[k] = place[k] BY DEF RacePosition, Fixed
<1>2. \A k \in Karts \ finished : p[k] = 1 + Cardinality(Ahead(k, l, a))
  BY DEF RacePosition, Fixed
<1>3. p = [k \in Karts |-> p[k]] BY DEF RacePosition
<1> HIDE DEF p
<1>4. h \in Nat /\ e \in Nat /\ h + e <= N
  <2>1. Home \subseteq finished /\ finished \subseteq Karts BY DEF Home
  <2>2. finished \ out = Home BY DEF Home
  <2>3. h = Cardinality(finished) - e /\ Cardinality(finished) \in 0 .. N /\ e \in 0 .. Cardinality(finished)
    BY <2>2, SetsOfKarts
  <2> QED BY <2>3, Consts
<1>5. \A k \in Karts \ finished : p[k] \in h + 1 .. N - e
  BY <1>2, <1>4, AheadBounds, Consts
<1>6. \A k \in Home : p[k] \in 1 .. h BY <1>1 DEF HomeFirst, Home
<1>7. \A k \in out : p[k] \in N - e + 1 .. N
  BY <1>1, <1>4, Consts DEF OutLast, Places
<1>8. \A k \in Karts : k \in Home \/ k \in out \/ k \in Karts \ finished BY DEF Home
<1>9. p \in [Karts -> Places]
  <2>1. \A k \in Karts : p[k] \in 1 .. N BY <1>4, <1>5, <1>6, <1>7, <1>8, Consts
  <2> QED BY <1>3, <2>1 DEF Places
<1>10. ASSUME NEW j \in Karts, NEW k \in Karts, p[j] = p[k] PROVE j = k
  <2>0. /\ (j \in Home <=> k \in Home) /\ (j \in out <=> k \in out)
        /\ (j \in finished <=> k \in finished)
    <3>1. ASSUME NEW x \in Karts
          PROVE  /\ x \in Home <=> p[x] <= h
                 /\ x \in out <=> p[x] > N - e
      <4>1. CASE x \in Home
        <5>1. p[x] \in 1 .. h /\ x \notin out BY <1>6, <4>1 DEF Home
        <5> QED BY <1>4, <4>1, <5>1, Consts
      <4>2. CASE x \in out
        <5>1. p[x] \in N - e + 1 .. N /\ x \notin Home BY <1>7, <4>2 DEF Home
        <5> QED BY <1>4, <4>2, <5>1, Consts
      <4>3. CASE x \in Karts \ finished
        <5>1. p[x] \in h + 1 .. N - e /\ x \notin Home /\ x \notin out BY <1>5, <4>3 DEF Home
        <5> QED BY <1>4, <5>1, Consts
      <4> QED BY <1>8, <4>1, <4>2, <4>3
    <3>2. /\ j \in Home <=> k \in Home
          /\ j \in out <=> k \in out
      BY <1>10, <3>1
    <3> QED BY <3>2 DEF Home
  <2>1. CASE j \in Home BY <1>1, <1>10, <2>0, <2>1 DEF HomeFirst, Home
  <2>2. CASE j \in out BY <1>1, <1>10, <2>0, <2>2 DEF OutLast
  <2>3. CASE j \in Karts \ finished
    <3>1. k \in Karts \ finished BY <2>0, <2>3
    <3>2. Cardinality(Ahead(j, l, a)) \in Nat /\ Cardinality(Ahead(k, l, a)) \in Nat
      BY <1>4, <2>3, <3>1, AheadBounds, Consts
    <3>3. Cardinality(Ahead(j, l, a)) = Cardinality(Ahead(k, l, a))
      BY <1>2, <1>10, <2>3, <3>1, <3>2
    <3> QED BY <2>3, <3>1, <3>3, AheadDiffers
  <2> QED BY <1>8, <2>1, <2>2, <2>3
<1> QED BY <1>1, <1>2, <1>9, <1>10 DEF p

\* And every kart is found at its own.
LEMMA Indexed ==
  ASSUME NEW p \in [Karts -> Places], \A j, k \in Karts : p[j] = p[k] => j = k,
         index \in [Places -> Karts]
  PROVE  /\ IndexOf(p) \in [Places -> Karts]
         /\ \A k \in Karts : IndexOf(p)[p[k]] = k
         /\ \A q, r \in Places : IndexOf(p)[q] = IndexOf(p)[r] => q = r
<1>1. ASSUME NEW k \in Karts
      PROVE  IndexOf(p)[p[k]] = k
  <2>1. {j \in Karts : p[j] = p[k]} = {k} OBVIOUS
  <2>2. (CHOOSE j \in {k} : \A i \in {k} : i <= j) = k
    <3>1. k <= k BY Consts DEF Karts
    <3> QED BY <3>1
  <2>3. p[k] \in Places OBVIOUS
  <2> QED BY <2>1, <2>2, <2>3 DEF IndexOf
<1>2. ASSUME NEW q \in Places PROVE IndexOf(p)[q] \in Karts
  <2>1. CASE \E k \in Karts : p[k] = q BY <1>1, <2>1
  <2>2. CASE ~ \E k \in Karts : p[k] = q
    <3>1. {j \in Karts : p[j] = q} = {} BY <2>2
    <3> QED BY <3>1 DEF IndexOf
  <2> QED BY <2>1, <2>2
<1>3. IndexOf(p) = [q \in Places |-> IndexOf(p)[q]] BY DEF IndexOf
<1>4. \A q \in Places : \E k \in Karts : p[k] = q
  <2>1. Cardinality(Karts) = N BY Consts, FS_Interval, 1 \in Int, N \in Int DEF Karts
  <2>2. Karts \in SUBSET Karts /\ \A k \in Karts : p[k] \in 1 .. N BY DEF Places
  <2> QED BY <2>1, <2>2, NoneFree DEF Places
<1> DEFINE u == IndexOf(p)
<1> HIDE DEF u
<1>5. u \in [Places -> Karts] /\ \A k \in Karts : u[p[k]] = k
  BY <1>1, <1>2, <1>3 DEF u
<1>6. \A q, r \in Places : u[q] = u[r] => q = r BY <1>4, <1>5
<1> QED BY <1>5, <1>6 DEF u

\* The karts in lost hold the last of the places pl.
AtTheEnd(pl, lost) ==
  /\ pl \in [Karts -> 0 .. N] /\ lost \in SUBSET Karts
  /\ \A k \in lost : pl[k] > N - Cardinality(lost)
  /\ \A j, k \in lost : pl[j] = pl[k] => j = k

\* Karts that leave get the last places among those that still race.
LEMMA Left ==
  ASSUME NEW pl, NEW lost, AtTheEnd(pl, lost), NEW L \in SUBSET (Karts \ lost)
  PROVE  /\ AtTheEnd(Eliminated(pl, lost, L), lost \cup L)
         /\ \A k \in L : Eliminated(pl, lost, L)[k] \in Places
         /\ \A k \in Karts \ L : Eliminated(pl, lost, L)[k] = pl[k]
<1> DEFINE p == Eliminated(pl, lost, L)
           o == lost \cup L
           B(k) == {j \in L : j <= k}
           b(k) == Cardinality(B(k))
           e == Cardinality(lost)
           c == Cardinality(L)
           d == Cardinality(o)
<1>0. /\ pl \in [Karts -> 0 .. N] /\ lost \in SUBSET Karts
      /\ \A k \in lost : pl[k] > N - e
      /\ \A j, k \in lost : pl[j] = pl[k] => j = k
  BY DEF AtTheEnd
<1>1. /\ o \subseteq Karts /\ lost \subseteq o
      /\ e \in 0 .. N /\ d = e + c /\ d \in 0 .. N /\ c \in 0 .. N /\ N \in Nat
  <2>1. L = o \ lost /\ o \subseteq Karts /\ lost \subseteq o BY <1>0
  <2>2. Cardinality(L) = Cardinality(o) - e /\ e \in 0 .. Cardinality(o) /\ Cardinality(o) \in 0 .. N
    BY <2>1, SetsOfKarts
  <2> QED BY <2>1, <2>2, Consts
<1>2. \A k \in L : B(k) \subseteq L /\ k \in B(k)
  BY Consts DEF Karts
<1>3. ASSUME NEW k \in L
      PROVE  /\ b(k) \in 1 .. Cardinality(L)
             /\ Cardinality(lost \cup B(k)) = e + b(k)
             /\ p[k] = N - e - b(k) + 1
  <2>1. B(k) = (lost \cup B(k)) \ lost BY <1>2
  <2>2. lost \cup B(k) \subseteq Karts BY <1>0, <1>2
  <2>3. b(k) = Cardinality(lost \cup B(k)) - e
    BY <2>1, <2>2, SetsOfKarts
  <2>4. b(k) \in 0 .. Cardinality(L) BY <1>2, SetsOfKarts
  <2>5. b(k) # 0
    <3>1. B(k) \in SUBSET Karts /\ {} \in SUBSET B(k) BY <1>2
    <3>2. Cardinality({}) = 0 BY FS_EmptySet
    <3> QED BY <1>2, <3>1, <3>2, SetsOfKarts
  <2>6. Cardinality(lost \cup B(k)) \in 0 .. N BY <2>2, SetsOfKarts
  <2>7. p[k] = N - Cardinality(lost \cup B(k)) + 1 BY DEF Eliminated, LastPlace
  <2> HIDE DEF B, p
  <2> QED BY <1>1, <2>3, <2>4, <2>5, <2>6, <2>7, Consts
<1>4. \A k \in Karts \ L : p[k] = pl[k] BY DEF Eliminated
<1>5. p = [k \in Karts |-> p[k]] BY DEF Eliminated
<1>6. ASSUME NEW j \in L, NEW k \in L, b(j) = b(k) PROVE j = k
  <2>1. j \in Int /\ k \in Int BY Consts DEF Karts
  <2>2. ASSUME NEW x \in L, NEW y \in L, x < y, b(x) = b(y) PROVE FALSE
    <3>0. x \in Int /\ y \in Int BY Consts DEF Karts
    <3>1. B(x) \subseteq B(y) /\ y \notin B(x)
      <4>1. ~ (y <= x) BY <2>2, <3>0
      <4>2. ASSUME NEW z \in L, z <= x PROVE z <= y
        <5>1. z \in Int BY Consts DEF Karts
        <5> QED BY <2>2, <3>0, <4>2, <5>1
      <4> QED BY <4>1, <4>2
    <3>2. B(y) \in SUBSET Karts BY <1>2
    <3> QED BY <1>2, <2>2, <3>1, <3>2, SetsOfKarts
  <2> QED BY <1>6, <2>1, <2>2
<1>7. \A k \in lost : p[k] = pl[k] /\ p[k] > N - e
  BY <1>0, <1>4
<1>8. \A k \in L : b(k) \in 1 .. c /\ p[k] = N - e - b(k) + 1
  BY <1>3
<1> HIDE DEF b, B, p, c, d, e
<1>9. \A k \in L : p[k] \in N - d + 1 .. N - e
  BY <1>1, <1>8
<1>p. \A k \in L : p[k] \in Places BY <1>1, <1>9, Consts DEF Places
<1>10. p \in [Karts -> 0 .. N]
  <2>1. \A k \in Karts : p[k] \in 0 .. N BY <1>0, <1>4, <1>p, Consts DEF Places
  <2> QED BY <1>5, <2>1
<1>11. \A k \in o : p[k] > N - d
  <2>1. \A k \in lost : p[k] \in Int BY <1>0, <1>10, Consts
  <2> QED BY <1>1, <1>9, <1>7, <2>1, Consts
<1>12. ASSUME NEW j \in o, NEW k \in o, p[j] = p[k] PROVE j = k
  <2>0. \A x \in o : p[x] \in Int BY <1>1, <1>10, Consts
  <2>1. CASE j \in L /\ k \in L
    <3>1. /\ b(j) \in Int /\ b(k) \in Int /\ p[j] = N - e - b(j) + 1
          /\ p[k] = N - e - b(k) + 1 /\ N \in Int /\ e \in Int
      BY <1>1, <1>8, <2>1
    <3>2. b(j) = b(k)
      <4> DEFINE x == b(j)
                 y == b(k)
      <4> HIDE DEF x, y
      <4>1. x \in Int /\ y \in Int /\ N - e - x + 1 = N - e - y + 1
        BY <1>12, <3>1 DEF x, y
      <4> QED BY <3>1, <4>1 DEF x, y
    <3> QED BY <1>6, <2>1, <3>2
  <2>2. CASE j \in lost /\ k \in lost BY <1>0, <1>7, <1>12, <2>2
  <2>3. ASSUME NEW x \in L, NEW y \in lost PROVE p[x] # p[y]
    BY <1>1, <1>9, <1>7, <2>0, Consts
  <2> QED BY <1>12, <2>1, <2>2, <2>3
<1>13. AtTheEnd(p, o)
  <2> HIDE DEF o
  <2> QED BY <1>1, <1>10, <1>11, <1>12 DEF AtTheEnd, d
<1> QED BY <1>4, <1>p, <1>13 DEF p

-----------------------------------------------------------------------------
(* The first loop of endRaceEarly                                          *)

Passing == [index : [Places -> Karts], active : Seq(Karts)]

\* f[p] is what the loop has found after p places.
Loop(f) ==
  /\ f \in [0..N -> Passing]
  /\ f[0] = [index |-> index, active |-> <<>>]
  /\ \A p \in 1..N : f[p] = PassOver(f[p - 1], p)

LEMMA Passes ==
  ASSUME TypeOK, NEW s \in Passing, NEW p \in Places
  PROVE  /\ PassOver(s, p) \in Passing
         /\ s.index[p] \in finished =>
              /\ PassOver(s, p).active = s.active
              /\ PassOver(s, p).index =
                   [s.index EXCEPT ![place[s.index[p]]] = s.index[p]]
         /\ s.index[p] \notin finished =>
              /\ PassOver(s, p).active = Append(s.active, s.index[p])
              /\ PassOver(s, p).index = s.index
<1>1. s.index \in [Places -> Karts] /\ s.active \in Seq(Karts) /\ s.index[p] \in Karts
  BY DEF Passing
<1>2. place[s.index[p]] \in Places BY <1>1 DEF TypeOK
<1>3. s = [index |-> s.index, active |-> s.active] BY DEF Passing
<1>4. CASE s.index[p] \in finished
  <2>1. PassOver(s, p) = [index |-> [s.index EXCEPT ![place[s.index[p]]] = s.index[p]],
                          active |-> s.active]
    BY <1>3, <1>4 DEF PassOver
  <2>2. [s.index EXCEPT ![place[s.index[p]]] = s.index[p]] \in [Places -> Karts]
    BY <1>1, <1>2
  <2> QED BY <1>1, <1>4, <2>1, <2>2 DEF Passing
<1>5. CASE s.index[p] \notin finished
  <2>1. PassOver(s, p) = [index |-> s.index, active |-> Append(s.active, s.index[p])]
    BY <1>3, <1>5 DEF PassOver
  <2>2. Append(s.active, s.index[p]) \in Seq(Karts) BY <1>1
  <2> QED BY <1>1, <1>5, <2>1, <2>2 DEF Passing
<1> QED BY <1>4, <1>5

LEMMA Looping ==
  ASSUME TypeOK
  PROVE  \E f : Loop(f) /\ PassedOver = f[N]
<1> DEFINE A == Passing
           a0 == [index |-> index, active |-> <<>>]
           step == [x \in (1..N) \X A |-> PassOver(x[2], x[1])]
           Def(f) == f = [p \in 0..N |-> IF p = 0 THEN a0 ELSE PassOver(f[p - 1], p)]
<1>0. N \in Nat /\ Places = 1..N BY Consts DEF Places
<1>1. a0 \in A BY DEF TypeOK, Passing
<1>2. \A p \in 1..N, a \in A : PassOver(a, p) \in A
  <2> HIDE DEF A
  <2> QED BY <1>0, Passes DEF A
<1>3. step \in [(1..N) \X A -> A]
  <2> HIDE DEF A
  <2> QED BY <1>2
<1>4. \A p \in 1..N, a \in A : step[<<p, a>>] = PassOver(a, p)
  <2> HIDE DEF A
  <2> QED OBVIOUS
<1>5. PICK f : Recursion(N, A, a0, step, f)
  <2> HIDE DEF A, a0, step
  <2>1. HasRecursion(N, A, a0, step) BY <1>0, <1>1, <1>3, RecursionExists
  <2> QED BY <2>1 DEF HasRecursion
<1>6. \A p \in 1..N : f[p] = PassOver(f[p - 1], p)
  <2> HIDE DEF A, a0, step
  <2>1. \A p \in 1..N : p - 1 \in 0..N BY <1>0
  <2> QED BY <1>4, <1>5, <2>1 DEF Recursion
<1>7. Def(f)
  <2>1. f \in [0..N -> A] /\ f[0] = a0
    <3> HIDE DEF A, a0, step
    <3> QED BY <1>5 DEF Recursion
  <2> HIDE DEF A, a0
  <2>2. \A p \in 0..N : f[p] = IF p = 0 THEN a0 ELSE PassOver(f[p - 1], p)
    <3>1. \A p \in 0..N : p = 0 \/ p \in 1..N BY <1>0
    <3> QED BY <1>6, <2>1, <3>1
  <2>3. f = [p \in 0..N |-> f[p]] BY <2>1
  <2> QED BY <2>2, <2>3, Zenon
<1> DEFINE g == CHOOSE g : Def(g)
<1>8. Def(g)
  <2> HIDE DEF Def
  <2> QED BY <1>7
<1>9. PassedOver = g[N] BY DEF PassedOver
<1> HIDE DEF g
<1>10. g[0] = a0 /\ \A p \in 1..N : g[p] = PassOver(g[p - 1], p)
  <2> HIDE DEF A, a0
  <2>1. 0 \in 0..N /\ \A p \in 1..N : p \in 0..N /\ p # 0 BY <1>0
  <2>2. \A p \in 0..N : g[p] = IF p = 0 THEN a0 ELSE PassOver(g[p - 1], p)
    BY <1>8, Zenon
  <2> QED BY <2>1, <2>2
<1>11. \A p \in 0..N : g[p] \in A
  <2> HIDE DEF A, a0
  <2> DEFINE S == {p \in 0..N : g[p] \in A}
  <2>1. 0 \in S BY <1>0, <1>1, <1>10
  <2>2. ASSUME NEW p \in 0..(N - 1), p \in S PROVE p + 1 \in S
    <3>1. p + 1 \in 1..N /\ (p + 1) - 1 = p BY <1>0
    <3>2. g[p + 1] = PassOver(g[p], p + 1) BY <1>10, <3>1
    <3> QED BY <1>0, <1>2, <2>2, <3>1, <3>2
  <2> HIDE DEF S
  <2>3. \A p \in 0..N : p \in S BY <1>0, <2>1, <2>2, UpTo
  <2> QED BY <2>3 DEF S
<1>12. g \in [0..N -> A]
  <2> HIDE DEF A, a0
  <2>1. g = [p \in 0..N |-> g[p]] BY <1>8
  <2> QED BY <2>1, <1>11
<1> QED BY <1>9, <1>10, <1>12 DEF Loop

\* Nobody who still races is passed over twice.
ActiveOnce(s, p) ==
  /\ \A q \in Places : q > p => s.index[q] = index[q] \/ s.index[q] \in finished
  /\ Len(s.active) <= p
  /\ \A i \in 1..Len(s.active) :
       s.active[i] \notin finished /\ \E q \in Places : q <= p /\ s.active[i] = index[q]
  /\ \A i, j \in 1..Len(s.active) : s.active[i] = s.active[j] => i = j

LEMMA ActiveStep ==
  ASSUME TypeOK, IndexOnce, ~early,
         NEW p \in 0..(N - 1), NEW s \in Passing, ActiveOnce(s, p)
  PROVE  ActiveOnce(PassOver(s, p + 1), p + 1)
<1> DEFINE r == PassOver(s, p + 1)
           k == s.index[p + 1]
           n == Len(s.active)
<1>0. N \in Nat /\ Places = 1..N /\ p \in Nat /\ p + 1 \in Places
  BY Consts DEF Places
<1>1. /\ s.index \in [Places -> Karts] /\ s.active \in Seq(Karts) /\ n \in Nat
      /\ k \in Karts /\ place[k] \in Places
  <2>1. s.index \in [Places -> Karts] /\ s.active \in Seq(Karts) BY DEF Passing
  <2>2. n \in Nat /\ k \in Karts BY <1>0, <2>1
  <2> HIDE DEF k
  <2> QED BY <2>1, <2>2 DEF TypeOK
<1>2. CASE k \in finished
  <2>1. r.active = s.active /\ r.index = [s.index EXCEPT ![place[k]] = k]
    BY <1>0, <1>2, Passes
  <2> HIDE DEF r, k
  <2>2. \A q \in Places : q > p + 1 => r.index[q] = index[q] \/ r.index[q] \in finished
    <3>1. \A q \in Places : r.index[q] = IF q = place[k] THEN k ELSE s.index[q]
      BY <1>1, <2>1
    <3>2. \A q \in Places : q > p + 1 => q > p BY <1>0
    <3> QED BY <1>2, <3>1, <3>2 DEF ActiveOnce
  <2>3. \A q \in Places : q <= p => q <= p + 1 BY <1>0
  <2>4. n <= p + 1 BY <1>0, <1>1 DEF ActiveOnce
  <2> QED BY <2>1, <2>2, <2>3, <2>4 DEF ActiveOnce, r
<1>3. CASE k \notin finished
  <2>1. r.active = Append(s.active, k) /\ r.index = s.index
    BY <1>0, <1>3, Passes
  <2>2. k = index[p + 1]
    <3>1. p + 1 > p BY <1>0
    <3> QED BY <1>0, <1>3, <3>1 DEF ActiveOnce
  <2> HIDE DEF r, k
  <2>3. /\ Len(r.active) = n + 1 /\ r.active[n + 1] = k
        /\ \A i \in 1..n : r.active[i] = s.active[i]
    BY <1>1, <2>1
  <2>4. /\ \A q \in Places : q > p + 1 => q > p
        /\ \A q \in Places : q <= p => q <= p + 1 /\ q # p + 1
        /\ p + 1 <= p + 1
    BY <1>0
  <2>5. \A q \in Places : q > p + 1 => r.index[q] = index[q] \/ r.index[q] \in finished
    BY <2>1, <2>4 DEF ActiveOnce
  <2>6. n + 1 <= p + 1 /\ \A i \in 1..(n + 1) : i \in 1..n \/ i = n + 1
    BY <1>0, <1>1 DEF ActiveOnce
  <2>7. ASSUME NEW i \in 1..n PROVE r.active[i] # k
    <3>1. PICK q \in Places : q <= p /\ r.active[i] = index[q]
      BY <2>3 DEF ActiveOnce
    <3> QED BY <1>0, <2>2, <2>4, <3>1 DEF IndexOnce
  <2>8. \A i \in 1..(n + 1) :
          r.active[i] \notin finished /\ \E q \in Places : q <= p + 1 /\ r.active[i] = index[q]
    <3> SUFFICES ASSUME NEW i \in 1..(n + 1)
                 PROVE  r.active[i] \notin finished /\ \E q \in Places : q <= p + 1 /\ r.active[i] = index[q]
      OBVIOUS
    <3>1. CASE i \in 1..n
      <4>1. PICK q \in Places : q <= p /\ r.active[i] = index[q]
        BY <2>3, <3>1 DEF ActiveOnce
      <4>2. r.active[i] \notin finished BY <2>3, <3>1 DEF ActiveOnce
      <4> QED BY <2>4, <4>1, <4>2
    <3>2. CASE i = n + 1 BY <1>0, <1>3, <2>2, <2>3, <2>4, <3>2
    <3> QED BY <2>6, <3>1, <3>2
  <2>9. \A i, j \in 1..(n + 1) : r.active[i] = r.active[j] => i = j
    <3>1. \A i, j \in 1..n : r.active[i] = r.active[j] => i = j
      BY <2>3 DEF ActiveOnce
    <3> QED BY <2>3, <2>6, <2>7, <3>1
  <2> QED BY <2>3, <2>5, <2>6, <2>8, <2>9 DEF ActiveOnce, r
<1> QED BY <1>2, <1>3

LEMMA LoopActive ==
  ASSUME TypeOK, IndexOnce, ~early
  PROVE  /\ PassedOver \in Passing /\ ActiveOnce(PassedOver, N)
         /\ PassedOver.active \in Seq(Karts \ finished)
<1>0. N \in Nat BY Consts
<1>1. PICK f : Loop(f) /\ PassedOver = f[N] BY Looping
<1> DEFINE S == {p \in 0..N : ActiveOnce(f[p], p)}
<1>2. 0 \in S
  <2>1. f[0].index = index /\ f[0].active = <<>> BY <1>1 DEF Loop
  <2>2. ActiveOnce(f[0], 0) BY <2>1 DEF ActiveOnce
  <2> QED BY <1>0, <2>2
<1>3. ASSUME NEW p \in 0..(N - 1), p \in S PROVE p + 1 \in S
  <2>1. /\ p \in 0..N /\ p + 1 \in 1..N /\ p + 1 \in 0..N /\ (p + 1) - 1 = p
    BY <1>0
  <2>2. f[p] \in Passing /\ f[p + 1] = PassOver(f[p], p + 1)
    BY <1>1, <2>1 DEF Loop
  <2>3. ActiveOnce(f[p], p) BY <1>3
  <2>4. ActiveOnce(f[p + 1], p + 1) BY <2>2, <2>3, ActiveStep
  <2> QED BY <2>1, <2>4
<1> HIDE DEF S
<1>4. \A p \in 0..N : p \in S BY <1>0, <1>2, <1>3, UpTo
<1>5. N \in S BY <1>0, <1>4
<1>6. f[N] \in Passing /\ ActiveOnce(f[N], N) BY <1>0, <1>1, <1>5 DEF S, Loop
<1>7. f[N].active \in Seq(Karts \ finished)
  <2> DEFINE a == f[N].active
  <2>1. a \in Seq(Karts) BY <1>6 DEF Passing
  <2>2. \A i \in 1..Len(a) : a[i] \notin finished BY <1>6 DEF ActiveOnce
  <2> HIDE DEF a
  <2>3. \A i \in 1..Len(a) : a[i] \in Karts \ finished BY <2>1, <2>2
  <2>4. Len(a) \in Nat /\ a = [i \in 1..Len(a) |-> a[i]] BY <2>1
  <2> QED BY <2>3, <2>4 DEF a
<1> QED BY <1>1, <1>6, <1>7

\* If nobody has left, they are those who are behind the karts at home.
ActiveBehind(s, p, m) ==
  /\ s.index = index
  /\ p <= m => s.active = <<>>
  /\ p > m => /\ Len(s.active) = p - m
              /\ \A i \in 1..(p - m) : s.active[i] = index[m + i]

LEMMA LoopBehind ==
  ASSUME TypeOK, HomeFirst, IndexOnce, ~early, out = {},
         \A k \in Karts : index[place[k]] = k
  PROVE  /\ Cardinality(finished) \in 0..N
         /\ \A p \in Places : index[p] \in finished <=> p <= Cardinality(finished)
         /\ PassedOver.index = index
         /\ Len(PassedOver.active) = N - Cardinality(finished)
         /\ \A i \in 1..(N - Cardinality(finished)) :
              PassedOver.active[i] = index[Cardinality(finished) + i]
<1> DEFINE m == Cardinality(finished)
<1>0. N \in Nat /\ Places = 1..N BY Consts DEF Places
<1>1. /\ finished \subseteq Karts /\ place \in [Karts -> Places]
      /\ index \in [Places -> Karts] /\ Home = finished
  BY DEF TypeOK, Home
<1>2. m \in 0..N
  <2>1. finished \in SUBSET Karts /\ finished \in SUBSET finished BY <1>1
  <2> QED BY <2>1, SetsOfKarts
<1>3. \A i \in 1..m : \E k \in finished : place[k] = i
  BY <1>1, NoneFree DEF HomeFirst
<1> HIDE DEF m
<1>4. ASSUME NEW p \in Places PROVE index[p] \in finished <=> p <= m
  <2>1. ASSUME p <= m PROVE index[p] \in finished
    <3>1. p \in 1..m BY <1>0, <1>2, <2>1
    <3>2. PICK k \in finished : place[k] = p BY <1>3, <3>1
    <3> QED BY <1>1, <3>2
  <2>2. ASSUME index[p] \in finished PROVE p <= m
    <3>1. index[p] \in Karts /\ place[index[p]] \in Places BY <1>1
    <3>2. index[place[index[p]]] = index[p] BY <3>1
    <3>3. place[index[p]] = p BY <3>1, <3>2 DEF IndexOnce
    <3>4. place[index[p]] \in 1..m BY <1>1, <2>2 DEF HomeFirst, m
    <3> QED BY <1>2, <3>3, <3>4
  <2> QED BY <2>1, <2>2
<1>5. PICK f : Loop(f) /\ PassedOver = f[N] BY Looping
<1> DEFINE S == {p \in 0..N : ActiveBehind(f[p], p, m)}
<1>6. 0 \in S
  <2>1. f[0].index = index /\ f[0].active = <<>> BY <1>5 DEF Loop
  <2>2. ~ (0 > m) BY <1>2
  <2>3. ActiveBehind(f[0], 0, m) BY <2>1, <2>2 DEF ActiveBehind
  <2> QED BY <1>0, <2>3
<1>7. ASSUME NEW p \in 0..(N - 1), p \in S PROVE p + 1 \in S
  <2> DEFINE s == f[p]
             r == f[p + 1]
             k == index[p + 1]
  <2>1. /\ p \in 0..N /\ p + 1 \in 1..N /\ p + 1 \in 0..N /\ (p + 1) - 1 = p
        /\ p \in Nat /\ m \in Nat
    BY <1>0, <1>2
  <2>2. s \in Passing /\ r = PassOver(s, p + 1) BY <1>5, <2>1 DEF Loop
  <2>3. ActiveBehind(s, p, m) BY <1>7
  <2>4. s.index = index BY <2>3 DEF ActiveBehind
  <2>5. s.active \in Seq(Karts) /\ k \in Karts BY <1>0, <1>1, <2>1, <2>2 DEF Passing
  <2>6. k \in finished <=> p + 1 <= m BY <1>0, <1>4, <2>1
  <2>7. /\ k \in finished => r.active = s.active /\ r.index = [index EXCEPT ![place[k]] = k]
        /\ k \notin finished => r.active = Append(s.active, k) /\ r.index = index
    <3> DEFINE j == p + 1
    <3>1. j \in Places /\ s \in Passing BY <1>0, <2>1, <2>2
    <3>2. s.index[j] = k /\ r = PassOver(s, j) BY <2>2, <2>4
    <3> HIDE DEF j, s, r, k
    <3>3. /\ s.index[j] \in finished =>
               PassOver(s, j).active = s.active /\ PassOver(s, j).index = [s.index EXCEPT ![place[s.index[j]]] = s.index[j]]
          /\ s.index[j] \notin finished =>
               PassOver(s, j).active = Append(s.active, s.index[j]) /\ PassOver(s, j).index = s.index
      BY <3>1, Passes
    <3> QED BY <2>4, <3>2, <3>3
  <2>8. [index EXCEPT ![place[k]] = k] = index
    <3>1. place[k] \in Places /\ index[place[k]] = k BY <1>1, <2>5
    <3> HIDE DEF k
    <3> QED BY <1>1, <3>1
  <2> HIDE DEF s, r, k
  <2>9. CASE p + 1 <= m
    <3>1. p <= m /\ ~ (p + 1 > m) BY <2>1, <2>9
    <3>2. s.active = <<>> BY <2>3, <3>1 DEF ActiveBehind
    <3> QED BY <2>1, <2>6, <2>7, <2>8, <2>9, <3>1, <3>2 DEF ActiveBehind, r
  <2>10. CASE ~ (p + 1 <= m)
    <3> DEFINE n == p - m
    <3>1. p >= m /\ p + 1 > m /\ n \in Nat /\ (p + 1) - m = n + 1 /\ m + (n + 1) = p + 1
      BY <2>1, <2>10
    <3>2. Len(s.active) = n /\ \A i \in 1..n : s.active[i] = index[m + i]
      <4>1. CASE p > m BY <2>3, <4>1 DEF ActiveBehind
      <4>2. CASE p = m
        <5>1. s.active = <<>> /\ n = 0 BY <2>1, <2>3, <4>2 DEF ActiveBehind
        <5> QED BY <5>1
      <4> QED BY <2>1, <3>1, <4>1, <4>2
    <3>3. r.active = Append(s.active, k) /\ r.index = index BY <2>6, <2>7, <2>10
    <3> HIDE DEF n
    <3>4. Len(r.active) = n + 1 /\ \A i \in 1..(n + 1) : r.active[i] = index[m + i]
      <4>1. /\ Len(r.active) = n + 1 /\ r.active[n + 1] = k
            /\ \A i \in 1..n : r.active[i] = s.active[i]
        BY <2>5, <3>1, <3>2, <3>3
      <4>2. \A i \in 1..(n + 1) : i \in 1..n \/ i = n + 1 BY <3>1
      <4>3. r.active[n + 1] = index[m + (n + 1)] BY <3>1, <4>1 DEF k
      <4> QED BY <3>2, <4>1, <4>2, <4>3
    <3>5. ActiveBehind(r, p + 1, m)
      BY <2>1, <2>10, <3>1, <3>3, <3>4 DEF ActiveBehind
    <3> QED BY <2>1, <3>5 DEF r
  <2> QED BY <2>9, <2>10
<1> HIDE DEF S
<1>8. \A p \in 0..N : p \in S BY <1>0, <1>6, <1>7, UpTo
<1>9. N \in S BY <1>0, <1>8
<1>10. ActiveBehind(PassedOver, N, m) BY <1>5, <1>9 DEF S
<1>11. /\ PassedOver.index = index /\ Len(PassedOver.active) = N - m
       /\ \A i \in 1..(N - m) : PassedOver.active[i] = index[m + i]
  <2>1. CASE N > m BY <1>10, <2>1 DEF ActiveBehind
  <2>2. CASE N = m
    <3>1. PassedOver.active = <<>> /\ PassedOver.index = index /\ N - m = 0
      BY <1>0, <1>10, <2>2 DEF ActiveBehind
    <3> QED BY <3>1
  <2> QED BY <1>0, <1>2, <2>1, <2>2
<1> QED BY <1>2, <1>4, <1>11 DEF m

-----------------------------------------------------------------------------
(* The invariant holds at the start and through every step                 *)

LEMMA InitInv == Init => IInv
<1> SUFFICES ASSUME Init PROVE IInv OBVIOUS
<1>1. SetsFit BY DEF Init, SetsFit
<1>2. TypeOK
  <2>1. 0 \in 0 .. Laps /\ 0 \in 0 .. Length - 1 BY Consts
  <2> QED BY <2>1 DEF Init, TypeOK, Karts, Places
<1>3. Home = {} /\ Cardinality(Home) = 0 BY FS_EmptySet DEF Init, Home
<1>4. LapsCounted BY <1>3, Consts DEF Init, LapsCounted
<1>5. HomeFirst BY <1>3 DEF HomeFirst
<1>6. OutLast BY DEF Init, OutLast
<1>7. LinesDone BY DEF Init, LinesDone
<1>8. Ranked BY DEF Init, Ranked, Karts, Places
<1>9. IndexOnce /\ IndexFits /\ EndedAll
  BY DEF Init, IndexOnce, IndexFits, EndedAll, Places
<1> QED BY <1>1, <1>2, <1>4, <1>5, <1>6, <1>7, <1>8, <1>9 DEF IInv, Inv

LEMMA Same ==
  ASSUME Inv, UNCHANGED <<laps, along, place, index, finished, out>>,
         gone' \subseteq Karts, crossed' \subseteq crossed,
         phase' \in {"race", "over", "empty"},
         pc' \in {"lobby", "world", "lines", "done"}, pc' = "lobby" => pc = "lobby",
         pc' = "world" => pc = "world", pc' # "lines" => crossed' = {},
         timeout' \in BOOLEAN, early' = early
  PROVE  Inv'
<1>1. TypeOK' BY DEF Inv, TypeOK
<1>2. Home' = Home BY DEF Home
<1>3. LapsCounted' BY <1>2 DEF Inv, LapsCounted
<1>4. HomeFirst' BY <1>2 DEF Inv, HomeFirst
<1>5. OutLast' BY DEF Inv, OutLast
<1>6. LinesDone' BY DEF LinesDone
<1>7. Ranked' BY DEF Inv, Ranked
<1>8. IndexOnce' /\ IndexFits' /\ EndedAll'
  BY DEF Inv, IndexOnce, IndexFits, EndedAll
<1> QED BY <1>1, <1>3, <1>4, <1>5, <1>6, <1>7, <1>8 DEF Inv

LEMMA StepLobby == Inv /\ UpdateLobby => Inv'
<1> SUFFICES ASSUME Inv, UpdateLobby PROVE Inv' OBVIOUS
<1> DEFINE L == gone \ (finished \cup out)
           p == Eliminated(place, out, L)
<1>1. /\ out' = out \cup L /\ finished' = finished \cup L /\ place' = p
      /\ pc' \in {"world", "done"} /\ pc = "lobby"
      /\ UNCHANGED <<phase, timeout, gone, crossed, laps, along, index, early>>
  BY DEF UpdateLobby
<1>2. /\ TypeOK /\ out \subseteq finished /\ finished \subseteq Karts
      /\ place \in [Karts -> Places] /\ L \in SUBSET (Karts \ finished)
  BY DEF Inv, TypeOK
<1>3. /\ p \in [Karts -> Places]
      /\ \A k \in Karts \ L : p[k] = place[k]
      /\ \A k \in out \cup L : p[k] > N - Cardinality(out \cup L)
      /\ \A j, k \in out \cup L : p[j] = p[k] => j = k
  <2>1. AtTheEnd(place, out) /\ L \in SUBSET (Karts \ out)
    BY <1>2, Consts DEF Inv, OutLast, AtTheEnd, Places
  <2> HIDE DEF L
  <2>2. /\ AtTheEnd(p, out \cup L)
        /\ \A k \in L : p[k] \in Places
        /\ \A k \in Karts \ L : p[k] = place[k]
    BY <2>1, Left
  <2> HIDE DEF p
  <2>3. p \in [Karts -> Places]
    <3>1. \A k \in Karts : p[k] \in Places BY <1>2, <2>2
    <3> QED BY <2>2, <3>1 DEF AtTheEnd
  <2> QED BY <2>2, <2>3 DEF AtTheEnd
<1> HIDE DEF L, p
<1>4. Home' = Home BY <1>1, <1>2 DEF Home
<1>5. crossed = {} BY <1>1 DEF Inv, LinesDone
<1>6. TypeOK' BY <1>1, <1>2, <1>3, <1>5 DEF TypeOK
<1>7. LapsCounted' BY <1>1, <1>4 DEF Inv, LapsCounted
<1>8. HomeFirst'
  <2>1. \A k \in Home : k \in Karts \ L BY <1>2 DEF Home
  <2> QED BY <1>1, <1>3, <1>4, <2>1 DEF Inv, HomeFirst
<1>9. OutLast' BY <1>1, <1>3 DEF OutLast
<1>10. LinesDone' BY <1>1, <1>5 DEF LinesDone
<1>11. Ranked' BY <1>1 DEF Ranked
<1>12. IndexFits'
  <2> SUFFICES ASSUME out' = {} PROVE \A k \in Karts : index'[place'[k]] = k
    BY DEF IndexFits
  <2>1. L = {} BY <1>1
  <2>2. \A k \in Karts : p[k] = place[k] BY <1>3, <2>1
  <2> QED BY <1>1, <2>2 DEF Inv, Ranked
<1>13. IndexOnce' /\ EndedAll' BY <1>1, <1>2 DEF Inv, IndexOnce, EndedAll
<1> QED BY <1>6, <1>7, <1>8, <1>9, <1>10, <1>11, <1>12, <1>13 DEF Inv

LEMMA StepSectors == Inv /\ UpdateTrackSectors => Inv'
<1> SUFFICES ASSUME Inv, UpdateTrackSectors PROVE Inv' OBVIOUS
<1>1. /\ along' \in [Karts -> 0 .. Length - 1] /\ crossed' \in SUBSET (Karts \ out)
      /\ pc' = "lines"
      /\ UNCHANGED <<phase, timeout, gone, laps, place, index, finished, out, early>>
  BY DEF UpdateTrackSectors
<1>2. TypeOK' BY <1>1 DEF Inv, TypeOK
<1>3. Home' = Home BY <1>1 DEF Home
<1>4. LapsCounted' /\ HomeFirst' /\ OutLast'
  BY <1>1, <1>3 DEF Inv, LapsCounted, HomeFirst, OutLast
<1>5. LinesDone' /\ Ranked' BY <1>1 DEF LinesDone, Ranked
<1>6. IndexOnce' /\ IndexFits' /\ EndedAll'
  BY <1>1 DEF Inv, IndexOnce, IndexFits, EndedAll
<1> QED BY <1>2, <1>4, <1>5, <1>6 DEF Inv

\* A kart that has driven its last lap is the first of those not at home.
LEMMA FirstBehind ==
  ASSUME Inv, NEW k \in Karts \ finished, NEW l \in [Karts -> 0 .. Laps],
         l[k] = Laps, \A j \in Karts \ {k} : l[j] = laps[j]
  PROVE  Ahead(k, l, along) = Home
<1>0. /\ TypeOK /\ out \subseteq finished /\ finished \subseteq Karts
      /\ along \in [Karts -> 0 .. Length - 1]
  BY DEF Inv, TypeOK
<1>1. ASSUME NEW j \in Karts \ finished, j # k
      PROVE  Distance(k, l, along) > Distance(j, l, along)
  <2>1. l[j] < Laps BY <1>1 DEF Inv, LapsCounted
  <2>2. l[j] \in Nat /\ Laps \in Nat BY Consts
  <2>3. along[j] \in 0 .. Length - 1 /\ along[k] \in Nat BY <1>0, Consts
  <2>4. Laps * Length + along[k] > l[j] * Length + along[j]
    BY <2>1, <2>2, <2>3, MoreLaps
  <2> QED BY <2>4 DEF Distance
<1>2. \A j \in Karts : Distance(j, l, along) \in Int
  <2>1. l \in [Karts -> Int] /\ along \in [Karts -> Int] BY <1>0, Consts
  <2> QED BY <2>1, Distances
<1>3. ASSUME NEW j \in Ahead(k, l, along) PROVE j \in Home
  <2>1. j \in Karts /\ j \notin out /\ j # k BY DEF Ahead
  <2>2. CASE j \notin finished
    <3> HIDE DEF Distance
    <3>1. /\ ~ (Distance(j, l, along) > Distance(k, l, along))
          /\ Distance(j, l, along) # Distance(k, l, along)
      BY <1>1, <1>2, <2>1, <2>2
    <3> QED BY <2>2, <3>1 DEF Ahead
  <2> QED BY <2>1, <2>2 DEF Home
<1>4. Home \subseteq Ahead(k, l, along) BY <1>0 DEF Home, Ahead
<1> QED BY <1>3, <1>4

LEMMA StepLap ==
  ASSUME Inv, NEW k \in Karts, NewLap(k)
  PROVE  Inv'
<1>1. CASE k \in finished
  <2>1. /\ UNCHANGED <<pc, phase, timeout, gone, laps, along, place, index, finished, out, early>>
        /\ crossed' \subseteq crossed /\ pc = "lines"
    BY <1>1 DEF NewLap
  <2>2. TypeOK BY DEF Inv
  <2> QED BY <2>1, <2>2, Same DEF TypeOK
<1>2. CASE k \notin finished
  <2> DEFINE counted == [laps EXCEPT ![k] = @ + 1]
             done == counted[k] >= Laps
             p == RacePosition(counted, along)
  <2>0. ~early BY <1>2 DEF Inv, EndedAll
  <2>1. /\ crossed' = crossed \ {k} /\ laps' = counted /\ place' = p
        /\ index' = IndexOf(p)
        /\ finished' = IF done THEN finished \cup {k} ELSE finished
        /\ timeout' = (timeout \/ (done /\ AutoEnd))
        /\ pc' = "lines" /\ k \in crossed
        /\ UNCHANGED <<phase, gone, along, out, early>>
    BY <1>2 DEF NewLap, Updated
  <2>2. /\ TypeOK /\ out \subseteq finished /\ finished \subseteq Karts
        /\ place \in [Karts -> Places] /\ index \in [Places -> Karts]
        /\ laps \in [Karts -> 0 .. Laps] /\ along \in [Karts -> 0 .. Length - 1]
    BY DEF Inv, TypeOK
  <2>3. /\ laps[k] < Laps /\ counted[k] = laps[k] + 1 /\ counted[k] \in 0 .. Laps
        /\ counted \in [Karts -> 0 .. Laps] /\ (done <=> counted[k] = Laps)
    <3>1. laps[k] < Laps BY <1>2 DEF Inv, LapsCounted
    <3>2. counted[k] = laps[k] + 1 BY <2>2
    <3>3. counted[k] \in 0 .. Laps BY <2>2, <3>1, <3>2, Consts
    <3>4. counted \in [Karts -> 0 .. Laps] BY <2>2, <3>2, <3>3
    <3> QED BY <3>1, <3>2, <3>3, <3>4, Consts
  <2>4. \A j \in Karts \ {k} : counted[j] = laps[j] BY <2>2
  <2>5. /\ p \in [Karts -> Places]
        /\ \A j \in finished : p[j] = place[j]
        /\ \A j \in Karts \ finished : p[j] = 1 + Cardinality(Ahead(j, counted, along))
        /\ \A i, j \in Karts : p[i] = p[j] => i = j
    <3>1. counted \in [Karts -> Int] /\ along \in [Karts -> Int]
      BY <2>2, <2>3, Consts
    <3> HIDE DEF counted
    <3> QED BY <2>2, <3>1, Placed DEF Inv
  <2>6. /\ index' \in [Places -> Karts]
        /\ \A q, x \in Places : index'[q] = index'[x] => q = x
    <3> HIDE DEF p, counted
    <3> QED BY <2>1, <2>2, <2>5, Indexed
  <2> HIDE DEF p, counted
  <2>7. TypeOK'
    <3>1. finished' \subseteq Karts /\ out' \subseteq finished' BY <2>1, <2>2
    <3>2. crossed' \subseteq Karts \ out' BY <2>1, <2>2 DEF TypeOK
    <3>3. timeout' \in BOOLEAN BY <2>1, <2>2, ConstAssumption DEF TypeOK
    <3> QED BY <2>1, <2>2, <2>3, <2>5, <2>6, <3>1, <3>2, <3>3 DEF TypeOK
  <2>8. OutLast'
    <3>1. \A j \in out : p[j] = place[j] BY <2>2, <2>5
    <3> QED BY <2>1, <3>1 DEF Inv, OutLast
  <2>9. /\ LinesDone' /\ Ranked' /\ IndexFits'
        /\ IndexOnce' /\ EndedAll'
    BY <2>0, <2>1, <2>6 DEF LinesDone, Ranked, IndexFits, IndexOnce, EndedAll
  <2>10. CASE ~done
    <3>1. Home' = Home /\ finished' = finished /\ k \notin Home
      BY <1>2, <2>1, <2>10 DEF Home
    <3>2. LapsCounted'
      <4>1. \A j \in Karts \ finished : counted[j] < Laps
        BY <2>3, <2>4, <2>10, Consts DEF Inv, LapsCounted
      <4>2. \A j \in Home : counted[j] = Laps
        BY <2>0, <2>2, <2>4, <3>1 DEF Inv, LapsCounted, Home
      <4> QED BY <2>1, <3>1, <4>1, <4>2 DEF LapsCounted
    <3>3. HomeFirst'
      <4>1. \A j \in Home : p[j] = place[j] BY <2>5 DEF Home
      <4> QED BY <2>1, <3>1, <4>1 DEF Inv, HomeFirst
    <3> QED BY <2>7, <2>8, <2>9, <3>2, <3>3 DEF Inv
  <2>11. CASE done
    <3>1. finished' = finished \cup {k} /\ out' = out /\ counted[k] = Laps
      BY <2>1, <2>3, <2>11
    <3>2. Home' = Home \cup {k} /\ k \notin Home
      BY <1>2, <2>2, <3>1 DEF Home
    <3>3. Ahead(k, counted, along) = Home
      <4>1. k \in Karts \ finished /\ counted \in [Karts -> 0 .. Laps] BY <1>2, <2>3
      <4> QED BY <2>4, <3>1, <4>1, FirstBehind
    <3>4. p[k] = 1 + Cardinality(Home) BY <1>2, <2>5, <3>3
    <3>5. Cardinality(Home) \in Nat /\ Cardinality(Home') = Cardinality(Home) + 1
      <4>1. Home \subseteq Karts /\ Home \subseteq Home BY <2>2 DEF Home
      <4>2. IsFiniteSet(Home) /\ Cardinality(Home) \in 0 .. N BY <4>1, SetsOfKarts
      <4>3. Cardinality(Home \cup {k}) = Cardinality(Home) + 1
        BY <3>2, <4>2, FS_AddElement, Zenon
      <4> QED BY <3>2, <4>2, <4>3
    <3>6. LapsCounted'
      <4>1. \A j \in Karts \ finished' : counted[j] < Laps
        BY <2>4, <3>1 DEF Inv, LapsCounted
      <4>2. \A j \in Home' : counted[j] = Laps
        <5>1. \A j \in Home : j \in Karts \ {k} BY <2>2, <3>2 DEF Home
        <5> QED BY <2>0, <2>4, <3>1, <3>2, <5>1 DEF Inv, LapsCounted
      <4> QED BY <2>1, <4>1, <4>2 DEF LapsCounted
    <3>7. HomeFirst'
      <4>1. \A j \in Home : p[j] \in 1 .. Cardinality(Home)
        BY <2>5 DEF Inv, HomeFirst, Home
      <4>2. \A j \in Home' : p[j] \in 1 .. Cardinality(Home')
        BY <3>2, <3>4, <3>5, <4>1
      <4>3. Home' \subseteq Karts BY <2>2, <3>2 DEF Home
      <4> QED BY <2>1, <2>5, <4>2, <4>3 DEF HomeFirst
    <3> QED BY <2>7, <2>8, <2>9, <3>6, <3>7 DEF Inv
  <2> QED BY <2>10, <2>11
<1> QED BY <1>1, <1>2

LEMMA StepPosition == Inv /\ UpdateRacePosition => Inv'
<1> SUFFICES ASSUME Inv, UpdateRacePosition PROVE Inv' OBVIOUS
<1> DEFINE p == RacePosition(laps, along)
<1>1. /\ pc' = "lobby" /\ place' = p /\ index' = IndexOf(p) /\ crossed = {}
      /\ phase' = IF finished = Karts THEN "over" ELSE phase
      /\ UNCHANGED <<timeout, gone, crossed, laps, along, finished, out, early>>
  BY DEF UpdateRacePosition
<1>2. /\ TypeOK /\ out \subseteq finished /\ finished \subseteq Karts
      /\ place \in [Karts -> Places] /\ index \in [Places -> Karts]
      /\ laps \in [Karts -> Int] /\ along \in [Karts -> Int]
  BY Consts DEF Inv, TypeOK
<1>3. /\ p \in [Karts -> Places]
      /\ \A k \in finished : p[k] = place[k]
      /\ \A j, k \in Karts : p[j] = p[k] => j = k
  BY <1>2, Placed DEF Inv
<1> HIDE DEF p
<1>4. /\ index' \in [Places -> Karts]
      /\ \A k \in Karts : index'[p[k]] = k
      /\ \A q, r \in Places : index'[q] = index'[r] => q = r
  BY <1>1, <1>2, <1>3, Indexed
<1>5. TypeOK' BY <1>1, <1>2, <1>3, <1>4 DEF TypeOK
<1>6. Home' = Home /\ Home \subseteq finished BY <1>1 DEF Home
<1>7. LapsCounted' BY <1>1, <1>6 DEF Inv, LapsCounted
<1>8. HomeFirst' BY <1>1, <1>3, <1>6 DEF Inv, HomeFirst
<1>9. OutLast' BY <1>1, <1>2, <1>3 DEF Inv, OutLast
<1>10. LinesDone' /\ Ranked' BY <1>1, <1>4 DEF LinesDone, Ranked
<1>11. IndexOnce' /\ IndexFits' /\ EndedAll'
  BY <1>1, <1>4 DEF Inv, IndexOnce, IndexFits, EndedAll
<1> QED BY <1>5, <1>7, <1>8, <1>9, <1>10, <1>11 DEF Inv

\* An early end leaves all karts where they are, unless one has left before.
LEMMA StepEarly ==
  ASSUME Inv, SetsFit, EndRaceEarly, out = {}
  PROVE  Inv' /\ place' = place /\ finished' = Karts
<1> DEFINE m == Cardinality(finished)
           active == PassedOver.active
           first == N - Len(active) + 1
           at(k) == CHOOSE i \in DOMAIN active : active[i] = k
<1>0. N \in Nat /\ Places = 1..N /\ Karts = 1..N BY Consts DEF Places, Karts
<1>1. /\ pc = "world" /\ phase = "race" /\ phase' = "over" /\ timeout' = FALSE /\ early' = TRUE
      /\ place' = [k \in Karts |-> IF k \in ToSet(active) THEN first - 1 + at(k) ELSE place[k]]
      /\ index' = [p \in Places |-> IF p < first THEN PassedOver.index[p] ELSE active[p - first + 1]]
      /\ finished' = finished \cup ToSet(active)
      /\ UNCHANGED <<pc, gone, crossed, laps, along, out>>
  BY DEF EndRaceEarly
<1>2. /\ TypeOK /\ finished \subseteq Karts /\ place \in [Karts -> Places]
      /\ index \in [Places -> Karts] /\ crossed = {} /\ ~early
  BY <1>1 DEF Inv, TypeOK, LinesDone, SetsFit
<1>3. /\ IndexOnce /\ HomeFirst /\ \A k \in Karts : index[place[k]] = k
  BY <1>1, <1>2 DEF Inv, IndexFits
<1>4. /\ m \in 0..N /\ \A p \in Places : index[p] \in finished <=> p <= m
      /\ PassedOver.index = index /\ Len(active) = N - m
      /\ \A i \in 1..(N - m) : active[i] = index[m + i]
  BY <1>2, <1>3, LoopBehind
<1>5. PassedOver.active \in Seq(Karts \ finished) /\ ActiveOnce(PassedOver, N)
  BY <1>2, <1>3, LoopActive
<1>6. DOMAIN active = 1..(N - m) /\ first = m + 1
  <2> HIDE DEF m
  <2> QED BY <1>0, <1>4, <1>5
<1> HIDE DEF m, active, first
<1>7. ASSUME NEW k \in Karts, k \notin finished
      PROVE  k \in ToSet(active) /\ m + at(k) = place[k]
  <2> DEFINE i == place[k] - m
  <2>1. place[k] \in Places /\ index[place[k]] = k /\ ~ (place[k] <= m)
    BY <1>2, <1>3, <1>4, <1>7
  <2>2. i \in 1..(N - m) /\ m + i = place[k] BY <1>0, <1>4, <2>1
  <2> HIDE DEF i
  <2>3. active[i] = k BY <1>4, <2>1, <2>2
  <2>4. at(k) \in DOMAIN active /\ active[at(k)] = k
    BY <1>6, <2>2, <2>3
  <2> HIDE DEF at
  <2>5. at(k) = i
    <3>1. index[m + at(k)] = k /\ m + at(k) \in Places
      BY <1>0, <1>4, <1>6, <2>4
    <3>2. m + at(k) = m + i BY <1>2, <1>3, <2>1, <2>2, <3>1 DEF IndexOnce
    <3> QED BY <1>4, <1>6, <2>2, <2>4, <3>2
  <2> QED BY <1>6, <2>2, <2>3, <2>5 DEF ToSet
<1>8. ASSUME NEW k \in Karts, k \in finished
      PROVE  k \notin ToSet(active)
  <2>1. \A i \in DOMAIN active : active[i] \in Karts \ finished BY <1>5 DEF active
  <2> QED BY <1>8, <2>1 DEF ToSet
<1>9. place' = place
  <2>1. first - 1 = m BY <1>4, <1>6
  <2>2. \A k \in Karts : place'[k] = place[k] BY <1>1, <1>7, <1>8, <2>1
  <2>3. place' = [k \in Karts |-> place'[k]] /\ place = [k \in Karts |-> place[k]]
    BY <1>1, <1>2
  <2> QED BY <2>2, <2>3
<1>10. finished' = Karts
  <2>1. ToSet(active) \subseteq Karts BY <1>5 DEF active, ToSet
  <2> QED BY <1>1, <1>2, <1>7, <2>1
<1>11. index' \in [Places -> Karts]
  <2>1. ASSUME NEW p \in Places PROVE index'[p] \in Karts
    <3>1. CASE p < first BY <1>1, <1>2, <1>4, <3>1
    <3>2. CASE ~ (p < first)
      <4>1. p - first + 1 \in 1..(N - m) BY <1>0, <1>4, <1>6, <3>2
      <4>2. \A i \in DOMAIN active : active[i] \in Karts BY <1>5 DEF active
      <4> QED BY <1>1, <1>6, <3>2, <4>1, <4>2
    <3> QED BY <3>1, <3>2
  <2>2. index' = [p \in Places |-> index'[p]] BY <1>1
  <2> QED BY <2>1, <2>2
<1>12. TypeOK' BY <1>1, <1>2, <1>9, <1>10, <1>11 DEF TypeOK
<1>13. Home' = Karts BY <1>1, <1>10 DEF Home
<1>14. Cardinality(Karts) = N BY <1>0, FS_Interval, 1 \in Int, N \in Int
<1>15. HomeFirst'
  <2>1. \A k \in Karts : place[k] \in 1..N BY <1>0, <1>2
  <2>2. \A j, k \in Karts : place[j] = place[k] => j = k BY <1>3
  <2> QED BY <1>9, <1>13, <1>14, <2>1, <2>2 DEF HomeFirst
<1>16. LapsCounted' BY <1>1, <1>10 DEF LapsCounted
<1>17. OutLast' BY <1>1 DEF OutLast
<1>18. LinesDone' /\ Ranked' BY <1>1, <1>2 DEF LinesDone, Ranked
<1>19. IndexOnce' /\ IndexFits' /\ EndedAll'
  BY <1>1, <1>10 DEF IndexOnce, IndexFits, EndedAll
<1> QED BY <1>9, <1>10, <1>12, <1>15, <1>16, <1>17, <1>18, <1>19 DEF Inv

LEMMA SetsStep == IInv /\ [Next]_vars => SetsFit'
<1> SUFFICES ASSUME IInv, [Next]_vars PROVE SetsFit' OBVIOUS
<1>0. SetsFit BY DEF IInv
<1>1. CASE UpdateLobby BY <1>0, <1>1 DEF SetsFit, UpdateLobby
<1>2. CASE UpdateTrackSectors BY <1>0, <1>2 DEF SetsFit, UpdateTrackSectors
<1>3. CASE UpdateRacePosition BY <1>0, <1>3 DEF SetsFit, UpdateRacePosition
<1>4. CASE EmptyServer BY <1>0, <1>4 DEF SetsFit, EmptyServer
<1>5. ASSUME NEW k \in Karts, Disconnect(k) PROVE SetsFit'
  BY <1>0, <1>5 DEF SetsFit, Disconnect
<1>6. ASSUME NEW k \in Karts, NewLap(k) PROVE SetsFit'
  <2>1. /\ UNCHANGED <<phase, gone, out, early>>
        /\ finished' = finished \/ finished' = finished \cup {k}
    BY <1>6 DEF NewLap
  <2> QED BY <1>0, <2>1 DEF SetsFit
<1>7. ASSUME UNCHANGED serverVars PROVE SetsFit' BY <1>0, <1>7 DEF SetsFit, serverVars
<1>8. ASSUME NEW c \in Viewers, Client(c) PROVE UNCHANGED serverVars
  BY <1>8 DEF Client, Spectate, KartFinishedRace, RaceFinished, ComputeError
<1>9. CASE EndRaceEarly
  <2>1. ~early BY <1>0, <1>9 DEF SetsFit, EndRaceEarly
  <2>2. TypeOK /\ IndexOnce BY <2>1 DEF IInv, PunishedWrong, Inv
  <2>3. PassedOver.active \in Seq(Karts \ finished) BY <2>1, <2>2, LoopActive
  <2>4. ToSet(PassedOver.active) \subseteq Karts BY <2>3 DEF ToSet
  <2>5. /\ finished' = finished \cup ToSet(PassedOver.active) /\ phase' = "over"
        /\ UNCHANGED <<gone, out>>
    BY <1>9 DEF EndRaceEarly
  <2> QED BY <1>0, <2>4, <2>5 DEF SetsFit
<1> QED BY <1>1, <1>2, <1>3, <1>4, <1>5, <1>6, <1>7, <1>8, <1>9 DEF Next, Tick, vars

\* After a wrong end places may be wrong for good.
LEMMA StaysPunished == SetsFit /\ PunishedWrong /\ [Next]_vars => PunishedWrong'
<1> SUFFICES ASSUME SetsFit, PunishedWrong, [Next]_vars PROVE PunishedWrong' OBVIOUS
<1>1. ~ EndRaceEarly BY DEF SetsFit, PunishedWrong, EndRaceEarly
<1>2. CASE UpdateLobby BY <1>2 DEF PunishedWrong, UpdateLobby
<1>3. ASSUME UNCHANGED <<early, out>> PROVE PunishedWrong' BY <1>3 DEF PunishedWrong
<1>4. ASSUME NEW k \in Karts, Disconnect(k) \/ NewLap(k) PROVE UNCHANGED <<early, out>>
  BY <1>4 DEF Disconnect, NewLap
<1>5. ASSUME NEW c \in Viewers, Client(c) PROVE UNCHANGED <<early, out>>
  BY <1>5 DEF Client, Spectate, KartFinishedRace, RaceFinished, ComputeError, serverVars
<1>6. ASSUME UpdateTrackSectors \/ UpdateRacePosition \/ EmptyServer \/ UNCHANGED vars
      PROVE  UNCHANGED <<early, out>>
  BY <1>6 DEF UpdateTrackSectors, UpdateRacePosition, EmptyServer, vars, serverVars
<1> QED BY <1>1, <1>2, <1>3, <1>4, <1>5, <1>6 DEF Next, Tick

LEMMA NextInv == IInv /\ [Next]_vars => IInv'
<1> SUFFICES ASSUME IInv, [Next]_vars PROVE IInv' OBVIOUS
<1>0. SetsFit /\ SetsFit' BY SetsStep DEF IInv
<1>1. CASE PunishedWrong BY <1>0, <1>1, StaysPunished DEF IInv
<1>2. CASE ~PunishedWrong
  <2>0. Inv /\ TypeOK /\ LinesDone BY <1>2 DEF IInv, Inv
  <2>1. ASSUME UpdateLobby PROVE Inv' BY <2>0, <2>1, StepLobby
  <2>2. ASSUME UpdateTrackSectors PROVE Inv' BY <2>0, <2>2, StepSectors
  <2>3. ASSUME UpdateRacePosition PROVE Inv' BY <2>0, <2>3, StepPosition
  <2>4. ASSUME EmptyServer PROVE Inv'
    <3>1. /\ UNCHANGED <<timeout, gone, crossed, laps, along, place, index, finished, out, early>>
          /\ pc' = "done" /\ phase' = "empty" /\ pc = "lobby"
      BY <2>4 DEF EmptyServer
    <3> QED BY <2>0, <3>1, Same DEF TypeOK, LinesDone
  <2>5. ASSUME NEW k \in Karts, Disconnect(k) PROVE Inv'
    <3>1. /\ UNCHANGED <<pc, phase, timeout, crossed, laps, along, place, index, finished, out, early>>
          /\ gone' = gone \cup {k}
      BY <2>5 DEF Disconnect
    <3> QED BY <2>0, <3>1, Same DEF TypeOK, LinesDone
  <2>6. ASSUME NEW k \in Karts, NewLap(k) PROVE Inv' BY <2>0, <2>6, StepLap
  <2>7. ASSUME UNCHANGED serverVars PROVE Inv'
    BY <2>0, <2>7, Same DEF serverVars, TypeOK, LinesDone
  <2>8. ASSUME NEW c \in Viewers, Client(c) PROVE UNCHANGED serverVars
    BY <2>8 DEF Client, Spectate, KartFinishedRace, RaceFinished, ComputeError
  <2>9. ASSUME EndRaceEarly PROVE PunishedWrong' \/ Inv'
    <3>1. CASE out = {} BY <1>0, <2>0, <2>9, <3>1, StepEarly
    <3>2. CASE out # {} BY <2>9, <3>2 DEF EndRaceEarly, PunishedWrong
    <3> QED BY <3>1, <3>2
  <2>10. PunishedWrong' \/ Inv'
    BY <2>1, <2>2, <2>3, <2>4, <2>5, <2>6, <2>7, <2>8, <2>9 DEF Next, Tick, vars
  <2> QED BY <1>0, <2>10 DEF IInv
<1> QED BY <1>1, <1>2

-----------------------------------------------------------------------------
(* What a client knows                                                     *)
(*                                                                         *)
(* The operators take what a client knows (v), the messages on their way   *)
(* (box), and of the server: the karts at home (H), those that left (o),   *)
(* their places (pl) and where its thread is (at).                         *)

Seen == [in : {"race", "result"}, next : Nat, place : [Karts -> 0 .. N],
         out : SUBSET Karts]

\* The karts that it was told have finished
Heard(v) == Finished(v) \ v.out

\* It has counted them, and knows of others only that they left.
ViewFits(v, H, o) ==
  /\ v.out \subseteq o /\ v.out \subseteq Finished(v) /\ AtTheEnd(v.place, v.out)
  /\ Heard(v) \subseteq H /\ v.next = Cardinality(Heard(v)) + 1
  /\ \A k \in Heard(v) : v.place[k] \in 1 .. Cardinality(Heard(v))
  /\ \A j, k \in Heard(v) : v.place[j] = v.place[k] => j = k

\* Every kart at home is told once, the end of the race comes last.
BoxFits(v, box, H, at) ==
  /\ box \in Seq(0 .. N)
  /\ \A i \in 1 .. Len(box) :
       IF box[i] = Over THEN at = "done" /\ i = Len(box) ELSE box[i] \in H \ Heard(v)
  /\ \A i, j \in 1 .. Len(box) : box[i] = box[j] => i = j

Watches(v, box, H, o, at) ==
  v \in Seen /\ v.in = "race" /\ ViewFits(v, H, o) /\ BoxFits(v, box, H, at)

\* It is told in the order of the places.
InPlace(v, box, H, pl, at) ==
  /\ \A k \in Heard(v) : v.place[k] = pl[k]
  /\ \A i \in 1 .. Len(box) : box[i] # Over => pl[box[i]] = v.next + i - 1
  /\ at # "done" => v.next + Len(box) = Cardinality(H) + 1

\* The result is what it shows from then on.
Shows(v, box, at) ==
  /\ v \in Seen /\ v.in = "result" /\ box = <<>> /\ at = "done"
  /\ {v.place[k] : k \in Karts} = Places

Agrees(v, o, pl) == \A k \in Finished(v) \ (o \cup v.out) : v.place[k] = pl[k]

ClientFits(c) ==
  \/ view[c] = Away /\ inbox[c] = <<>>
  \/ /\ Watches(view[c], inbox[c], Home, out, pc)
     /\ ~PunishedWrong => InPlace(view[c], inbox[c], Home, place, pc)
  \/ /\ Shows(view[c], inbox[c], pc)
     /\ ~PunishedWrong => Agrees(view[c], out, place)

\* A kart is left out of a state only when it has left.
SentFits == \A s \in sent : s \subseteq Karts /\ Karts \ s \subseteq out

ClientInv ==
  /\ SentFits /\ view \in [Viewers -> {Away} \cup Seen] /\ inbox \in [Viewers -> Seq(0 .. N)]
  /\ \A c \in Viewers : ClientFits(c)

LEMMA Counted ==
  ASSUME NEW H \in SUBSET Karts, NEW k \in Karts, k \notin H
  PROVE  Cardinality(H) \in 0 .. N /\ Cardinality(H \cup {k}) = Cardinality(H) + 1
<1>1. H \in SUBSET H /\ H \in SUBSET Karts OBVIOUS
<1>2. IsFiniteSet(H) /\ Cardinality(H) \in 0 .. N BY <1>1, SetsOfKarts
<1>3. Cardinality(H \cup {k}) = Cardinality(H) + 1 BY <1>2, FS_AddElement, Zenon
<1> QED BY <1>2, <1>3

\* A client that has just come
LEMMA JoinedFits ==
  ASSUME NEW H \in SUBSET Karts, NEW o, NEW pl, NEW at
  PROVE  /\ Watches(Joined, <<>>, H, o, at)
         /\ H = {} => InPlace(Joined, <<>>, H, pl, at)
<1>0. N \in Nat /\ Cardinality({}) = 0 BY Consts, FS_EmptySet
<1>1. Joined \in Seen /\ Joined.in = "race" BY <1>0 DEF Joined, Seen
<1>2. Finished(Joined) = {} /\ Joined.out = {} /\ Joined.next = 1 BY DEF Finished, Joined
<1>3. Heard(Joined) = {} BY <1>2 DEF Heard
<1>4. AtTheEnd(Joined.place, Joined.out)
  <2>1. Joined.place \in [Karts -> 0 .. N] BY <1>0 DEF Joined
  <2> QED BY <1>2, <2>1 DEF AtTheEnd
<1>5. ViewFits(Joined, H, o) BY <1>0, <1>2, <1>3, <1>4 DEF ViewFits
<1>6. <<>> \in Seq(0 .. N) /\ Len(<<>>) = 0 OBVIOUS
<1>7. BoxFits(Joined, <<>>, H, at) BY <1>6 DEF BoxFits
<1>8. H = {} => InPlace(Joined, <<>>, H, pl, at)
  BY <1>0, <1>2, <1>3, <1>6 DEF InPlace
<1> QED BY <1>1, <1>5, <1>7, <1>8 DEF Watches

\* Karts a have come home, I are at home then; u are those that have left then.
Comes(H, I, o, u, a) ==
  /\ H \in SUBSET Karts /\ I \in SUBSET Karts /\ H \subseteq I /\ o \subseteq u
  /\ a \in Seq(I \ H) /\ \A i, j \in 1 .. Len(a) : a[i] = a[j] => i = j

\* They come to the next places.
InOrder(H, I, pl, pn, a) ==
  /\ \A k \in H : pn[k] = pl[k]
  /\ \A i \in 1 .. Len(a) : pn[a[i]] = Cardinality(H) + i
  /\ Cardinality(I) = Cardinality(H) + Len(a)

\* The server tells of them.
LEMMA ToldMore ==
  ASSUME NEW v, NEW box, NEW H, NEW o, NEW at, Watches(v, box, H, o, at), at # "done",
         NEW I, NEW u, NEW a, Comes(H, I, o, u, a), NEW an
  PROVE  /\ Watches(v, box \o a, I, u, an)
         /\ \A pl, pn :
              InPlace(v, box, H, pl, at) /\ InOrder(H, I, pl, pn, a)
              => InPlace(v, box \o a, I, pn, an)
<1> DEFINE m == Len(box)
           n == Len(a)
           b == box \o a
<1>0. N \in Nat /\ Karts = 1 .. N /\ Over = 0 BY Consts DEF Karts, Over
<1>c. /\ H \in SUBSET Karts /\ I \in SUBSET Karts /\ H \subseteq I /\ o \subseteq u
      /\ a \in Seq(I \ H) /\ \A i, j \in 1 .. n : a[i] = a[j] => i = j
  BY DEF Comes
<1>1. v \in Seen /\ v.in = "race" /\ ViewFits(v, H, o) /\ BoxFits(v, box, H, at)
  BY DEF Watches
<1>2. /\ box \in Seq(0 .. N) /\ m \in Nat
      /\ \A i \in 1 .. m : box[i] \in H \ Heard(v) /\ box[i] # Over
  BY <1>0, <1>1, <1>c DEF BoxFits
<1>3. a \in Seq(0 .. N) /\ n \in Nat /\ \A i \in 1 .. n : a[i] \in I \ H /\ a[i] # Over
  <2>0. \A k \in I : k \in 0 .. N /\ k # Over BY <1>0, <1>c
  <2>1. n \in Nat /\ \A i \in 1 .. n : a[i] \in I \ H BY <1>c
  <2>2. \A i \in 1 .. n : a[i] \in 0 .. N /\ a[i] # Over BY <2>0, <2>1
  <2>3. a = [i \in 1 .. n |-> a[i]] BY <1>c
  <2>4. a \in Seq(0 .. N)
    <3> DEFINE S == 0 .. N
    <3>1. \A i \in 1 .. Len(a) : a[i] \in S BY <2>2
    <3>2. Len(a) \in Nat /\ a = [i \in 1 .. Len(a) |-> a[i]] BY <2>1, <2>3
    <3> HIDE DEF S
    <3>3. a \in Seq(S) BY <3>1, <3>2
    <3> QED BY <3>3 DEF S
  <2> HIDE DEF n
  <2> QED BY <2>1, <2>2, <2>4
<1>4. /\ b \in Seq(0 .. N) /\ Len(b) = m + n
      /\ \A i \in 1 .. m + n : b[i] = IF i <= m THEN box[i] ELSE a[i - m]
  BY <1>2, <1>3, ConcatProperties
<1> HIDE DEF b, m, n
<1>5. \A i \in 1 .. m + n : IF i <= m THEN i \in 1 .. m ELSE i - m \in 1 .. n
  BY <1>2, <1>3
<1>6. Heard(v) \subseteq H BY <1>1 DEF ViewFits
<1>7. BoxFits(v, b, I, an)
  <2>1. ASSUME NEW i \in 1 .. m + n PROVE b[i] # Over /\ b[i] \in I \ Heard(v)
    <3>1. CASE i <= m BY <1>2, <1>4, <1>5, <1>c, <3>1
    <3>2. CASE ~ (i <= m) BY <1>3, <1>4, <1>5, <1>6, <3>2
    <3> QED BY <3>1, <3>2
  <2>2. ASSUME NEW i \in 1 .. m + n, NEW j \in 1 .. m + n, b[i] = b[j] PROVE i = j
    <3>1. \A x \in 1 .. m, y \in 1 .. n : box[x] # a[y] BY <1>2, <1>3
    <3>2. CASE i <= m /\ j <= m
      BY <1>1, <1>4, <1>5, <2>2, <3>2 DEF BoxFits, m
    <3>3. CASE ~ (i <= m) /\ ~ (j <= m)
      <4>1. i - m = j - m BY <1>4, <1>5, <1>c, <2>2, <3>3
      <4> QED BY <1>2, <1>3, <4>1
    <3>4. CASE ~ ((i <= m) <=> (j <= m)) BY <1>4, <1>5, <2>2, <3>1, <3>4
    <3> QED BY <3>2, <3>3, <3>4
  <2> QED BY <1>4, <2>1, <2>2 DEF BoxFits
<1>8. ViewFits(v, I, u) BY <1>1, <1>c DEF ViewFits
<1>9. ASSUME NEW pl, InPlace(v, box, H, pl, at), NEW pn, InOrder(H, I, pl, pn, a)
      PROVE  InPlace(v, b, I, pn, an)
  <2>0. /\ \A k \in H : pn[k] = pl[k]
        /\ \A i \in 1 .. n : pn[a[i]] = Cardinality(H) + i
        /\ Cardinality(I) = Cardinality(H) + n
    BY <1>9 DEF InOrder, n
  <2>1. Cardinality(H) \in Nat /\ v.next \in Nat /\ v.next + m = Cardinality(H) + 1
    <3>1. H \in SUBSET H /\ H \in SUBSET Karts BY <1>c
    <3>2. Cardinality(H) \in 0 .. N BY <3>1, SetsOfKarts
    <3>3. v.next \in Nat BY <1>1 DEF Seen
    <3> QED BY <1>9, <3>2, <3>3 DEF InPlace, m
  <2>2. \A k \in Heard(v) : v.place[k] = pn[k] BY <1>6, <1>9, <2>0 DEF InPlace
  <2>3. ASSUME NEW i \in 1 .. m + n PROVE pn[b[i]] = v.next + i - 1
    <3>1. CASE i <= m
      <4>1. i \in 1 .. m BY <1>5, <3>1
      <4>2. pl[box[i]] = v.next + i - 1 BY <1>2, <1>9, <4>1 DEF InPlace, m
      <4> QED BY <1>2, <1>4, <2>0, <3>1, <4>1, <4>2
    <3>2. CASE ~ (i <= m)
      <4>1. i - m \in 1 .. n /\ b[i] = a[i - m] BY <1>4, <1>5, <3>2
      <4>2. pn[b[i]] = Cardinality(H) + (i - m) BY <2>0, <4>1
      <4> DEFINE h == Cardinality(H)
                 x == v.next
      <4>3. h \in Nat /\ x \in Nat /\ x + m = h + 1 /\ pn[b[i]] = h + (i - m)
        BY <2>1, <4>2
      <4> HIDE DEF h, x
      <4>4. pn[b[i]] = x + i - 1 BY <1>2, <1>3, <4>3
      <4> QED BY <4>4 DEF x
    <3> QED BY <3>1, <3>2
  <2>4. v.next + (m + n) = Cardinality(I) + 1
    <3> DEFINE h == Cardinality(H)
               x == v.next
    <3>1. h \in Nat /\ x \in Nat /\ x + m = h + 1 /\ Cardinality(I) = h + n
      BY <2>0, <2>1
    <3> HIDE DEF h, x
    <3>2. m \in Nat /\ n \in Nat BY <1>2, <1>3
    <3>3. x + (m + n) = Cardinality(I) + 1 BY ONLY <3>1, <3>2
    <3> QED BY <3>3 DEF x
  <2> QED BY <1>4, <2>2, <2>3, <2>4 DEF InPlace
<1> QED BY <1>1, <1>7, <1>8, <1>9 DEF Watches, b, n

\* It tells that the race is over.
LEMMA ToldOver ==
  ASSUME NEW v, NEW box, NEW H \in SUBSET Karts, NEW o, NEW at,
         Watches(v, box, H, o, at), at # "done", NEW u, o \subseteq u
  PROVE  /\ Watches(v, box \o <<Over>>, H, u, "done")
         /\ \A pl, pn : InPlace(v, box, H, pl, at) /\ (\A k \in H : pn[k] = pl[k])
                          => InPlace(v, box \o <<Over>>, H, pn, "done")
<1> DEFINE m == Len(box)
           b == box \o <<Over>>
<1>0. N \in Nat /\ Karts = 1 .. N /\ Over = 0 BY Consts DEF Karts, Over
<1>1. v \in Seen /\ v.in = "race" /\ ViewFits(v, H, o) /\ BoxFits(v, box, H, at)
  BY DEF Watches
<1>2. /\ box \in Seq(0 .. N) /\ m \in Nat
      /\ \A i \in 1 .. m : box[i] \in H \ Heard(v) /\ box[i] # Over
  BY <1>0, <1>1 DEF BoxFits
<1>3. <<Over>> \in Seq(0 .. N) /\ Len(<<Over>>) = 1 /\ <<Over>>[1] = Over BY <1>0
<1>4. /\ b \in Seq(0 .. N) /\ Len(b) = m + 1
      /\ \A i \in 1 .. m + 1 : b[i] = IF i <= m THEN box[i] ELSE <<Over>>[i - m]
  BY <1>2, <1>3, ConcatProperties
<1> HIDE DEF b, m
<1>5. /\ \A i \in 1 .. m : b[i] = box[i] /\ i # m + 1
      /\ b[m + 1] = Over /\ \A i \in 1 .. m + 1 : i \in 1 .. m \/ i = m + 1
  <2>1. \A i \in 1 .. m : i \in 1 .. m + 1 /\ i <= m /\ i # m + 1 BY <1>2
  <2>2. m + 1 \in 1 .. m + 1 /\ ~ (m + 1 <= m) /\ (m + 1) - m = 1 BY <1>2
  <2>3. \A i \in 1 .. m + 1 : i \in 1 .. m \/ i = m + 1 BY <1>2
  <2> QED BY <1>3, <1>4, <2>1, <2>2, <2>3
<1>6. BoxFits(v, b, H, "done")
  <2>1. \A i \in 1 .. m + 1 :
          IF b[i] = Over THEN i = m + 1 ELSE b[i] \in H \ Heard(v)
    BY <1>2, <1>5
  <2>2. \A i, j \in 1 .. m : box[i] = box[j] => i = j BY <1>1 DEF BoxFits, m
  <2>3. \A i, j \in 1 .. m + 1 : b[i] = b[j] => i = j BY <1>2, <1>5, <2>2
  <2> QED BY <1>4, <2>1, <2>3 DEF BoxFits
<1>7. ViewFits(v, H, u) BY <1>1 DEF ViewFits
<1>8. ASSUME NEW pl, InPlace(v, box, H, pl, at), NEW pn, \A k \in H : pn[k] = pl[k]
      PROVE  InPlace(v, b, H, pn, "done")
  <2>1. \A k \in Heard(v) : v.place[k] = pn[k] BY <1>1, <1>8 DEF InPlace, ViewFits
  <2>2. \A i \in 1 .. m : pn[b[i]] = v.next + i - 1
    BY <1>2, <1>5, <1>8 DEF InPlace, m
  <2> QED BY <1>4, <1>5, <2>1, <2>2 DEF InPlace
<1> QED BY <1>1, <1>6, <1>7, <1>8 DEF Watches, b

\* It is told of the next kart.
LEMMA Hears ==
  ASSUME NEW v, NEW box, NEW H \in SUBSET Karts, NEW o, NEW at,
         Watches(v, box, H, o, at), H \cap o = {}, box # <<>>, Head(box) # Over,
         NEW w \in Seen, w.in = v.in, w.out = v.out, w.next = v.next + 1,
         w.place = [v.place EXCEPT ![Head(box)] = v.next]
  PROVE  /\ Watches(w, Tail(box), H, o, at)
         /\ \A pl : InPlace(v, box, H, pl, at) => InPlace(w, Tail(box), H, pl, at)
<1> DEFINE m == Len(box)
           h == Head(box)
           b == Tail(box)
           G == Heard(v)
           n == Cardinality(G)
<1>0. N \in Nat /\ Karts = 1 .. N /\ Over = 0 BY Consts DEF Karts, Over
<1>1. v \in Seen /\ v.in = "race" /\ ViewFits(v, H, o) /\ BoxFits(v, box, H, at)
  BY DEF Watches
<1>2. /\ box \in Seq(0 .. N) /\ m \in Nat /\ m # 0 /\ h = box[1]
      /\ b \in Seq(0 .. N) /\ Len(b) = m - 1 /\ \A i \in 1 .. m - 1 : b[i] = box[i + 1]
  <2>1. box \in Seq(0 .. N) BY <1>1 DEF BoxFits
  <2>2. m \in Nat /\ m # 0 /\ h = box[1] BY <2>1
  <2>3. b \in Seq(0 .. N) /\ Len(b) = m - 1 /\ \A i \in 1 .. Len(b) : b[i] = box[i + 1]
    BY <2>1, HeadTailProperties
  <2> QED BY <2>1, <2>2, <2>3
<1> HIDE DEF b, h, m
<1>3. /\ 1 \in 1 .. m /\ \A i \in 1 .. m - 1 : i + 1 \in 1 .. m /\ i + 1 # 1
      /\ \A i, j \in 1 .. m - 1 : i + 1 = j + 1 => i = j
  BY <1>2
<1>4. h # Over /\ h \in H \ G
  <2>1. box[1] # Over BY <1>2 DEF h
  <2>2. box[1] \in H \ G BY <1>1, <1>3, <2>1 DEF BoxFits, m
  <2> QED BY <1>2, <2>1, <2>2
<1>5. /\ G \subseteq H /\ v.out \subseteq o /\ v.out \subseteq Finished(v)
      /\ AtTheEnd(v.place, v.out) /\ v.next = n + 1
      /\ \A k \in G : v.place[k] \in 1 .. n
      /\ \A j, k \in G : v.place[j] = v.place[k] => j = k
  BY <1>1 DEF ViewFits
<1>6. v.place \in [Karts -> 0 .. N] BY <1>1 DEF Seen
<1>7. h \in Karts /\ h \notin v.out /\ G \in SUBSET Karts BY <1>4, <1>5
<1>8. n \in 0 .. N /\ Cardinality(G \cup {h}) = n + 1 BY <1>4, <1>7, Counted
<1> HIDE DEF n
<1>9. w.place[h] = n + 1 /\ \A k \in Karts \ {h} : w.place[k] = v.place[k]
  <2>1. w.place = [v.place EXCEPT ![h] = v.next] BY DEF h
  <2> QED BY <1>5, <1>6, <1>7, <2>1
<1>10. Finished(w) = Finished(v) \cup {h} /\ Heard(w) = G \cup {h}
  <2>1. n + 1 # 0 BY <1>8
  <2>2. Finished(w) = Finished(v) \cup {h} BY <1>7, <1>9, <2>1 DEF Finished
  <2> QED BY <1>7, <2>2 DEF Heard
<1>11. ViewFits(w, H, o)
  <2>1. AtTheEnd(w.place, w.out)
    <3>1. w.place \in [Karts -> 0 .. N] BY DEF Seen
    <3>2. \A k \in v.out : k \in Karts \ {h} BY <1>5, <1>7 DEF Finished
    <3>3. \A k \in v.out : w.place[k] = v.place[k] BY <1>9, <3>2
    <3> QED BY <1>5, <3>1, <3>3 DEF AtTheEnd
  <2>2. \A k \in G : k \in Karts \ {h} BY <1>4, <1>7
  <2>3. \A k \in G \cup {h} : w.place[k] \in 1 .. n + 1
    <3>1. \A k \in G : w.place[k] \in 1 .. n BY <1>5, <1>9, <2>2
    <3> QED BY <1>8, <1>9, <3>1
  <2>4. \A j, k \in G \cup {h} : w.place[j] = w.place[k] => j = k
    <3>1. \A k \in G : w.place[k] # n + 1
      <4>1. \A k \in G : w.place[k] \in 1 .. n BY <1>5, <1>9, <2>2
      <4> QED BY <1>8, <4>1
    <3>2. \A j, k \in G : w.place[j] = w.place[k] => j = k BY <1>5, <1>9, <2>2
    <3> QED BY <1>9, <3>1, <3>2
  <2>5. w.next = Cardinality(G \cup {h}) + 1 BY <1>5, <1>8
  <2>6. w.out \subseteq o /\ w.out \subseteq Finished(w) BY <1>5, <1>10
  <2>7. G \cup {h} \subseteq H BY <1>4, <1>5
  <2> HIDE DEF G
  <2> QED BY <1>8, <1>10, <2>1, <2>3, <2>4, <2>5, <2>6, <2>7 DEF ViewFits
<1>12. ASSUME NEW i \in 1 .. m - 1 PROVE b[i] # h /\ b[i] = box[i + 1]
  BY <1>1, <1>2, <1>3 DEF BoxFits, m
<1>13. BoxFits(w, b, H, at)
  <2>1. ASSUME NEW i \in 1 .. m - 1
        PROVE  IF b[i] = Over THEN at = "done" /\ i = m - 1 ELSE b[i] \in H \ Heard(w)
    <3>1. b[i] # h /\ b[i] = box[i + 1] /\ i + 1 \in 1 .. m BY <1>3, <1>12
    <3>2. IF b[i] = Over THEN at = "done" /\ i + 1 = m ELSE b[i] \in H \ G
      BY <1>1, <3>1 DEF BoxFits, m
    <3>3. i + 1 = m => i = m - 1 BY <1>2
    <3> QED BY <1>10, <3>1, <3>2, <3>3
  <2>2. ASSUME NEW i \in 1 .. m - 1, NEW j \in 1 .. m - 1, b[i] = b[j] PROVE i = j
    <3>1. box[i + 1] = box[j + 1] BY <1>12, <2>2
    <3>2. i + 1 = j + 1 BY <1>1, <1>3, <3>1 DEF BoxFits, m
    <3> QED BY <1>3, <3>2
  <2> QED BY <1>2, <2>1, <2>2 DEF BoxFits
<1>14. ASSUME NEW pl, InPlace(v, box, H, pl, at) PROVE InPlace(w, b, H, pl, at)
  <2>1. \A k \in G : v.place[k] = pl[k] /\ k \in Karts \ {h}
    BY <1>4, <1>7, <1>14 DEF InPlace
  <2>2. \A i \in 1 .. m : box[i] # Over => pl[box[i]] = n + 1 + i - 1
    BY <1>5, <1>14 DEF InPlace, m
  <2>3. at # "done" => n + 1 + m = Cardinality(H) + 1
    BY <1>5, <1>14 DEF InPlace, m
  <2>4. pl[h] = n + 1
    <3>1. pl[box[1]] = n + 1 + 1 - 1 BY <1>2, <1>3, <1>4, <2>2
    <3> QED BY <1>2, <1>8, <3>1
  <2>5. \A k \in Heard(w) : w.place[k] = pl[k] BY <1>9, <1>10, <2>1, <2>4
  <2>6. ASSUME NEW i \in 1 .. m - 1, b[i] # Over PROVE pl[b[i]] = w.next + i - 1
    <3>1. pl[b[i]] = n + 1 + (i + 1) - 1 BY <1>3, <1>12, <2>2, <2>6
    <3>2. w.next = n + 1 + 1 BY <1>5
    <3> QED BY <1>2, <1>8, <3>1, <3>2
  <2>7. w.next + (m - 1) = n + 1 + m
    <3>1. w.next = n + 1 + 1 BY <1>5
    <3> QED BY <1>2, <1>8, <3>1
  <2> QED BY <1>2, <2>3, <2>5, <2>6, <2>7 DEF InPlace
<1> QED BY <1>1, <1>11, <1>13, <1>14 DEF Watches, b

\* It finds that karts have left.
Lost(v, L) == [v EXCEPT !.place = Eliminated(v.place, v.out, L), !.out = v.out \cup L]

LEMMA Loses ==
  ASSUME NEW v, NEW box, NEW H \in SUBSET Karts, NEW o \in SUBSET Karts, NEW at,
         Watches(v, box, H, o, at), H \cap o = {}, NEW L \in SUBSET (o \ v.out)
  PROVE  /\ Watches(Lost(v, L), box, H, o, at)
         /\ \A pl : InPlace(v, box, H, pl, at) => InPlace(Lost(v, L), box, H, pl, at)
<1> DEFINE p == Eliminated(v.place, v.out, L)
           w == Lost(v, L)
<1>1. v \in Seen /\ v.in = "race" /\ ViewFits(v, H, o) /\ BoxFits(v, box, H, at)
  BY DEF Watches
<1>2. /\ AtTheEnd(p, v.out \cup L) /\ \A k \in L : p[k] \in Places
      /\ \A k \in Karts \ L : p[k] = v.place[k]
  <2>1. AtTheEnd(v.place, v.out) /\ L \in SUBSET (Karts \ v.out) BY <1>1 DEF ViewFits
  <2> DEFINE q == v.place
             u == v.out
  <2>2. AtTheEnd(q, u) /\ L \in SUBSET (Karts \ u) /\ p = Eliminated(q, u, L) BY <2>1
  <2> HIDE DEF p, q, u
  <2>3. /\ AtTheEnd(Eliminated(q, u, L), u \cup L)
        /\ \A k \in L : Eliminated(q, u, L)[k] \in Places
        /\ \A k \in Karts \ L : Eliminated(q, u, L)[k] = q[k]
    BY <2>2, Left
  <2> QED BY <2>2, <2>3 DEF q, u
<1> HIDE DEF p
<1>3. /\ w.in = "race" /\ w.next = v.next /\ w.place = p /\ w.out = v.out \cup L
      /\ w \in Seen
  <2>1. p \in [Karts -> 0 .. N] /\ v.out \cup L \in SUBSET Karts BY <1>2 DEF AtTheEnd
  <2>2. w = [v EXCEPT !.place = p, !.out = v.out \cup L] BY DEF p, Lost
  <2> HIDE DEF w
  <2> QED BY <1>1, <2>1, <2>2 DEF Seen
<1> HIDE DEF w
<1>4. Finished(w) = Finished(v) \cup L
  <2>1. \A k \in L : k \in Karts /\ p[k] # 0 BY <1>2, Consts DEF Places
  <2> QED BY <1>2, <1>3, <2>1 DEF Finished
<1>5. Heard(w) = Heard(v) /\ \A k \in Heard(v) : w.place[k] = v.place[k]
  <2>1. Heard(v) \subseteq H BY <1>1 DEF ViewFits
  <2>2. \A k \in Heard(v) : k \notin L BY <2>1
  <2>3. Heard(w) = Heard(v) BY <1>3, <1>4, <2>2 DEF Heard
  <2>4. \A k \in Heard(v) : k \in Karts \ L BY <2>1, <2>2
  <2> QED BY <1>2, <1>3, <2>3, <2>4
<1>6. ViewFits(w, H, o)
  <2>1. w.out \subseteq o /\ w.out \subseteq Finished(w) BY <1>1, <1>3, <1>4 DEF ViewFits
  <2> QED BY <1>1, <1>2, <1>3, <1>5, <2>1 DEF ViewFits
<1>7. BoxFits(w, box, H, at) BY <1>1, <1>5 DEF BoxFits
<1>8. \A pl : InPlace(v, box, H, pl, at) => InPlace(w, box, H, pl, at)
  BY <1>3, <1>5 DEF InPlace
<1> QED BY <1>3, <1>6, <1>7, <1>8 DEF Watches, w

\* The race is over for it: those that it was told of hold the first places,
\* those that it found to have left the last ones.
Final(v, order) ==
  [v EXCEPT !.place = [k \in Karts |->
                         IF k \notin Karts \ Finished(v) THEN v.place[k]
                         ELSE Cardinality(Heard(v)) + (CHOOSE i \in DOMAIN order : order[i] = k)],
            !.out = v.out \cup (Karts \ Finished(v)), !.in = "result"]

LEMMA Ends ==
  ASSUME NEW v, NEW box, NEW H \in SUBSET Karts, NEW o \in SUBSET Karts, NEW at,
         Watches(v, box, H, o, at), H \cap o = {}, box # <<>>, Head(box) = Over,
         NEW order \in SetToSeqs(Karts \ Finished(v))
  PROVE  /\ Shows(Final(v, order), Tail(box), at)
         /\ \A pl : InPlace(v, box, H, pl, at) => Agrees(Final(v, order), o, pl)
<1> DEFINE R == Karts \ Finished(v)
           G == Heard(v)
           d == Cardinality(G)
           r == Cardinality(R)
           e == Cardinality(v.out)
           x(k) == CHOOSE i \in DOMAIN order : order[i] = k
           w == Final(v, order)
           p == [k \in Karts |-> IF k \notin R THEN v.place[k] ELSE d + x(k)]
<1>0. N \in Nat /\ Karts = 1 .. N /\ Over = 0 BY Consts DEF Karts, Over
<1>1. v \in Seen /\ v.in = "race" /\ ViewFits(v, H, o) /\ BoxFits(v, box, H, at)
  BY DEF Watches
<1>2. Tail(box) = <<>> /\ at = "done"
  <2>1. box \in Seq(0 .. N) BY <1>1 DEF BoxFits
  <2>2. 1 \in 1 .. Len(box) /\ box[1] = Over BY <2>1
  <2>3. at = "done" /\ Len(box) = 1 BY <1>1, <2>2 DEF BoxFits
  <2>4. Tail(box) \in Seq(0 .. N) /\ Len(Tail(box)) = 0 BY <2>1, <2>3
  <2> QED BY <2>3, <2>4, EmptySeq
<1>3. /\ v.out \subseteq Finished(v) /\ AtTheEnd(v.place, v.out) /\ v.out \subseteq Karts
      /\ \A k \in G : v.place[k] \in 1 .. d
      /\ \A j, k \in G : v.place[j] = v.place[k] => j = k
  BY <1>1 DEF ViewFits, AtTheEnd
<1>4. Finished(v) \subseteq Karts BY DEF Finished
<1>5. d \in Nat /\ r \in Nat /\ e \in Nat /\ d + r + e = N /\ IsFiniteSet(R)
  <2>1. Karts \in SUBSET Karts /\ Finished(v) \in SUBSET Karts
        /\ Finished(v) \in SUBSET Finished(v) /\ v.out \in SUBSET Finished(v)
    BY <1>3, <1>4
  <2>2. Cardinality(Karts) = N BY <1>0, FS_Interval, 1 \in Int, N \in Int
  <2>3. IsFiniteSet(Karts \ Finished(v)) /\ r = N - Cardinality(Finished(v))
    <3>1. R \in SUBSET R /\ R \in SUBSET Karts BY <1>4
    <3>2. IsFiniteSet(R) BY <3>1, SetsOfKarts
    <3>3. Cardinality(Karts \ Finished(v)) = Cardinality(Karts) - Cardinality(Finished(v))
      BY <2>1, SetsOfKarts
    <3> QED BY <2>2, <3>2, <3>3
  <2>4. Cardinality(Finished(v)) \in 0 .. N BY <2>1, SetsOfKarts
  <2>5. e \in 0 .. Cardinality(Finished(v)) BY <2>1, SetsOfKarts
  <2>6. Cardinality(Finished(v) \ v.out) = Cardinality(Finished(v)) - e
    BY <2>1, SetsOfKarts
  <2>7. d = Cardinality(Finished(v)) - e BY <2>6 DEF Heard
  <2> DEFINE f == Cardinality(Finished(v))
  <2>8. /\ d = f - e /\ r = N - f /\ f \in 0 .. N /\ e \in 0 .. f
        /\ IsFiniteSet(R)
    BY <2>3, <2>4, <2>5, <2>7
  <2> HIDE DEF d, r, e, f, R
  <2> QED BY <1>0, <2>8
<1>6. ASSUME NEW k \in R
      PROVE  x(k) \in 1 .. r /\ order[x(k)] = k
  <2>1. /\ order \in [1 .. r -> R]
        /\ \A i, j \in 1 .. r : i # j => order[i] # order[j]
    BY DEF SetToSeqs
  <2>2. \E i \in 1 .. r : order[i] = k
    <3> DEFINE T == 1 .. r
    <3>1. order \in Injection(T, R) BY <2>1 DEF Injection, IsInjective
    <3>2. IsFiniteSet(T) /\ Cardinality(T) = r
      <4>1. 1 \in Int /\ r \in Int BY <1>5
      <4> HIDE DEF r
      <4> QED BY <1>5, <4>1, FS_Interval
    <3> HIDE DEF T
    <3>3. Cardinality(T) = Cardinality(R) BY <3>2
    <3> HIDE DEF R, r
    <3>4. order \in Surjection(T, R) BY <1>5, <3>1, <3>2, <3>3, FS_Injection
    <3> QED BY <3>4 DEF Surjection, T
  <2>3. DOMAIN order = 1 .. r BY <2>1
  <2> HIDE DEF R, r
  <2> QED BY <2>2, <2>3
<1>w. w = [v EXCEPT !.place = p, !.out = v.out \cup R, !.in = "result"] BY DEF Final
<1>p. \A k \in Karts : p[k] = IF k \notin R THEN v.place[k] ELSE d + x(k) OBVIOUS
<1>q. p = [k \in Karts |-> p[k]] OBVIOUS
<1> HIDE DEF d, r, e, x, w, p
<1>7. /\ w.place = p /\ w.in = "result" /\ w.out = v.out \cup R
      /\ \A k \in Karts : w.place[k] = IF k \notin R THEN v.place[k] ELSE d + x(k)
  <2> HIDE DEF R
  <2>1. w.place = p /\ w.in = "result" /\ w.out = v.out \cup R
    BY <1>1, <1>w DEF Seen
  <2> QED BY <1>p, <2>1
<1>8. \A k \in Karts : k \in R \/ k \in G \/ k \in v.out BY DEF Heard
<1>9. \A k \in G : k \in Karts /\ k \notin R BY <1>4 DEF Heard
<1>10. \A k \in v.out : k \in Karts /\ k \notin R BY <1>3
<1>11. \A k \in G : w.place[k] = v.place[k] /\ w.place[k] \in 1 .. d
  BY <1>3, <1>7, <1>9
<1>12. \A k \in R : w.place[k] = d + x(k) /\ w.place[k] \in d + 1 .. d + r
  <2>1. \A k \in R : w.place[k] = d + x(k) /\ x(k) \in 1 .. r BY <1>6, <1>7
  <2> HIDE DEF R
  <2> QED BY <1>5, <2>1
<1>13. \A k \in v.out : w.place[k] = v.place[k] /\ w.place[k] \in d + r + 1 .. N
  <2>1. \A k \in v.out : v.place[k] \in 0 .. N /\ v.place[k] > N - e
    BY <1>3 DEF AtTheEnd, e
  <2>2. \A k \in v.out : w.place[k] = v.place[k] BY <1>7, <1>10
  <2> QED BY <1>0, <1>5, <2>1, <2>2
<1>14. \A k \in Karts : w.place[k] \in 1 .. N
  <2>1. \A k \in R : w.place[k] \in 1 .. N
    <3> HIDE DEF R
    <3> QED BY <1>0, <1>5, <1>12
  <2>2. \A k \in G : w.place[k] \in 1 .. N BY <1>0, <1>5, <1>11
  <2>3. \A k \in v.out : w.place[k] \in 1 .. N BY <1>0, <1>5, <1>13
  <2> HIDE DEF R, G
  <2> QED BY <1>8, <2>1, <2>2, <2>3
<1>15. ASSUME NEW j \in Karts, NEW k \in Karts, w.place[j] = w.place[k] PROVE j = k
  <2> HIDE DEF R, G
  <2>1. CASE j \in G /\ k \in G BY <1>3, <1>11, <1>15, <2>1 DEF G
  <2>2. CASE j \in v.out /\ k \in v.out BY <1>3, <1>13, <1>15, <2>2 DEF AtTheEnd
  <2>3. CASE j \in R /\ k \in R
    <3>1. x(j) = x(k)
      <4>1. /\ x(j) \in 1 .. r /\ x(k) \in 1 .. r
            /\ w.place[j] = d + x(j) /\ w.place[k] = d + x(k)
        BY <1>6, <1>12, <2>3
      <4>2. d + x(j) = d + x(k) BY <1>15, <4>1
      <4> DEFINE y == x(j)
                 z == x(k)
      <4>3. y \in 1 .. r /\ z \in 1 .. r /\ d + y = d + z BY <4>1, <4>2
      <4> HIDE DEF y, z
      <4>4. y = z BY <1>5, <4>3
      <4> QED BY <4>4 DEF y, z
    <3> QED BY <1>6, <2>3, <3>1
  <2>4. \A a \in G, b \in R : w.place[a] # w.place[b]
    <3>1. ASSUME NEW a \in G, NEW b \in R PROVE w.place[a] # w.place[b]
      <4>1. w.place[a] \in 1 .. d /\ w.place[b] \in d + 1 .. d + r BY <1>11, <1>12
      <4> QED BY <1>5, <4>1
    <3> QED BY <3>1
  <2>5. \A a \in G, b \in v.out : w.place[a] # w.place[b]
    <3>1. ASSUME NEW a \in G, NEW b \in v.out PROVE w.place[a] # w.place[b]
      <4>1. w.place[a] \in 1 .. d /\ w.place[b] \in d + r + 1 .. N BY <1>11, <1>13
      <4> QED BY <1>0, <1>5, <4>1
    <3> QED BY <3>1
  <2>6. \A a \in R, b \in v.out : w.place[a] # w.place[b]
    <3>1. ASSUME NEW a \in R, NEW b \in v.out PROVE w.place[a] # w.place[b]
      <4>1. w.place[a] \in d + 1 .. d + r /\ w.place[b] \in d + r + 1 .. N BY <1>12, <1>13
      <4> QED BY <1>0, <1>5, <4>1
    <3> QED BY <3>1
  <2> QED BY <1>8, <1>15, <2>1, <2>2, <2>3, <2>4, <2>5, <2>6
<1>16. {w.place[k] : k \in Karts} = Places
  <2>1. Cardinality(Karts) = N BY <1>0, FS_Interval, 1 \in Int, N \in Int
  <2> DEFINE q == w.place
  <2>2. \A k \in Karts : q[k] \in 1 .. Cardinality(Karts) BY <1>14, <2>1
  <2>3. \A j, k \in Karts : q[j] = q[k] => j = k BY <1>15
  <2> HIDE DEF q
  <2>4. \A i \in 1 .. Cardinality(Karts) : \E k \in Karts : q[k] = i
    <3>1. Karts \in SUBSET Karts OBVIOUS
    <3> QED BY <2>2, <2>3, <3>1, NoneFree
  <2> QED BY <2>1, <2>2, <2>4 DEF Places, q
<1>17. Shows(w, Tail(box), at)
  <2>1. p \in [Karts -> 0 .. N]
    <3>1. \A k \in Karts : p[k] \in 0 .. N BY <1>7, <1>14
    <3> QED BY <1>q, <3>1
  <2>2. v.out \cup R \in SUBSET Karts BY <1>3
  <2> HIDE DEF R
  <2>3. w \in Seen BY <1>1, <1>w, <2>1, <2>2 DEF Seen
  <2> QED BY <1>2, <1>7, <1>16, <2>3 DEF Shows
<1>18. ASSUME NEW pl, InPlace(v, box, H, pl, at) PROVE Agrees(w, o, pl)
  <2> SUFFICES ASSUME NEW k \in Finished(w) \ (o \cup w.out) PROVE w.place[k] = pl[k]
    BY DEF Agrees
  <2>1. k \in Karts /\ k \notin R /\ k \notin v.out BY <1>7 DEF Finished
  <2>2. k \in G BY <1>8, <2>1
  <2> QED BY <1>11, <1>18, <2>2 DEF InPlace
<1> QED BY <1>17, <1>18 DEF w

-----------------------------------------------------------------------------
(* The clients through every step                                          *)

LEMMA Apart ==
  ASSUME SetsFit
  PROVE  Home \in SUBSET Karts /\ out \in SUBSET Karts /\ Home \cap out = {}
BY DEF SetsFit, Home

LEMMA InitClients == Init => ClientInv
<1> SUFFICES ASSUME Init PROVE ClientInv OBVIOUS
<1>1. Home = {} /\ out = {} BY DEF Init, Home
<1>2. SentFits BY DEF Init, SentFits
<1>3. {} \in SUBSET Karts OBVIOUS
<1>4. /\ Watches(Joined, <<>>, {}, {}, pc) /\ InPlace(Joined, <<>>, {}, place, pc)
  BY <1>3, JoinedFits
<1>5. \A c \in Viewers : ClientFits(c)
  BY <1>1, <1>4 DEF Init, ClientFits
<1>6. Joined \in Seen BY <1>4 DEF Watches
<1>7. view \in [Viewers -> {Away} \cup Seen] /\ inbox \in [Viewers -> Seq(0 .. N)]
  BY <1>6 DEF Init
<1> QED BY <1>2, <1>5, <1>7 DEF ClientInv

\* What the server sends when karts come home, in the order of their places
LEMMA ServerTells ==
  ASSUME IInv, ClientInv, SetsFit', SentFits', pc # "done", UNCHANGED view,
         Home \subseteq Home', out \subseteq out',
         NEW a \in Seq(Home' \ Home), \A i, j \in 1 .. Len(a) : a[i] = a[j] => i = j,
         inbox' = [c \in Viewers |->
                     IF view[c] = Away THEN inbox[c] ELSE inbox[c] \o a],
         ~PunishedWrong' => ~PunishedWrong /\ InOrder(Home, Home', place, place', a)
  PROVE  ClientInv'
<1>1. Home \in SUBSET Karts /\ Home' \in SUBSET Karts
  BY DEF SetsFit, Home, IInv
<1>2. ASSUME NEW c \in Viewers, view[c] # Away
      PROVE  /\ Watches(view[c], inbox[c] \o a, Home', out', pc')
             /\ ~PunishedWrong' => InPlace(view[c], inbox[c] \o a, Home', place', pc')
  <2>1. /\ Watches(view[c], inbox[c], Home, out, pc)
        /\ ~PunishedWrong => InPlace(view[c], inbox[c], Home, place, pc)
    <3>1. ClientFits(c) BY DEF ClientInv
    <3>2. ~ Shows(view[c], inbox[c], pc) BY DEF Shows
    <3> QED BY <1>2, <3>1, <3>2, Zenon DEF ClientFits
  <2> DEFINE v == view[c]
             box == inbox[c]
             H == Home
             o == out
             I == Home'
             u == out'
             pl == place
             pn == place'
             at == pc
             an == pc'
  <2>2. Comes(H, I, o, u, a) /\ at # "done" /\ Watches(v, box, H, o, at)
    BY <1>1, <2>1 DEF Comes
  <2> HIDE DEF v, box, H, o, I, u, pl, pn, at, an
  <2>3. /\ Watches(v, box \o a, I, u, an)
        /\ InPlace(v, box, H, pl, at) /\ InOrder(H, I, pl, pn, a)
           => InPlace(v, box \o a, I, pn, an)
    BY <2>2, ToldMore
  <2> QED BY <2>1, <2>3 DEF v, box, H, o, I, u, pl, pn, at, an
<1>3. ASSUME NEW c \in Viewers PROVE ClientFits(c)'
  <2>1. CASE view[c] = Away
    <3>1. inbox[c] = <<>> BY <2>1 DEF ClientInv, ClientFits, Watches, Shows, Seen, Away
    <3> QED BY <2>1, <3>1 DEF ClientFits
  <2>2. CASE view[c] # Away BY <1>2, <2>2 DEF ClientFits
  <2> QED BY <2>1, <2>2
<1>4. inbox' \in [Viewers -> Seq(0 .. N)]
  <2>1. ASSUME NEW c \in Viewers PROVE inbox'[c] \in Seq(0 .. N)
    <3>1. CASE view[c] = Away BY <3>1 DEF ClientInv
    <3>2. CASE view[c] # Away BY <1>2, <3>2 DEF Watches, BoxFits
    <3> QED BY <3>1, <3>2
  <2> QED BY <2>1
<1>5. view' \in [Viewers -> {Away} \cup Seen] BY DEF ClientInv
<1> QED BY <1>3, <1>4, <1>5 DEF ClientInv

LEMMA ServerSilent ==
  ASSUME IInv, ClientInv, SetsFit', SentFits', pc # "done", UNCHANGED <<view, inbox>>,
         Home' = Home, out \subseteq out',
         ~PunishedWrong' => ~PunishedWrong /\ \A k \in Home : place'[k] = place[k]
  PROVE  ClientInv'
<1>1. <<>> \in Seq(Home' \ Home) /\ Len(<<>>) = 0 OBVIOUS
<1>2. \A i, j \in 1 .. Len(<<>>) : <<>>[i] = <<>>[j] => i = j BY <1>1
<1>3. inbox' = [c \in Viewers |-> IF view[c] = Away THEN inbox[c] ELSE inbox[c] \o <<>>]
  <2>1. \A c \in Viewers : inbox[c] \o <<>> = inbox[c] BY ConcatEmptySeq DEF ClientInv
  <2>2. inbox = [c \in Viewers |-> inbox[c]] BY DEF ClientInv
  <2> QED BY <2>1, <2>2
<1>4. \A i \in 1 .. Len(<<>>) : place'[<<>>[i]] = Cardinality(Home) + i BY <1>1
<1>5. Cardinality(Home') = Cardinality(Home) + Len(<<>>)
  <2>1. Home \in SUBSET Karts /\ Home \in SUBSET Home BY Apart DEF IInv
  <2>2. Cardinality(Home) \in 0 .. N BY <2>1, SetsOfKarts
  <2> QED BY <1>1, <2>2
<1>6. ~PunishedWrong' => InOrder(Home, Home', place, place', <<>>)
  BY <1>4, <1>5 DEF InOrder
<1> QED BY <1>1, <1>2, <1>3, <1>6, ServerTells

LEMMA ServerEnds ==
  ASSUME IInv, ClientInv, SetsFit', SentFits', pc # "done", pc' = "done",
         UNCHANGED view, Send(<<Over>>), Home' = Home, out \subseteq out',
         ~PunishedWrong' => ~PunishedWrong /\ \A k \in Home : place'[k] = place[k]
  PROVE  ClientInv'
<1>1. Home \in SUBSET Karts BY Apart DEF IInv
<1>2. ASSUME NEW c \in Viewers, view[c] # Away
      PROVE  /\ Watches(view[c], inbox[c] \o <<Over>>, Home', out', pc')
             /\ ~PunishedWrong' => InPlace(view[c], inbox[c] \o <<Over>>, Home', place', pc')
  <2>1. /\ Watches(view[c], inbox[c], Home, out, pc)
        /\ ~PunishedWrong => InPlace(view[c], inbox[c], Home, place, pc)
    <3>1. ClientFits(c) BY DEF ClientInv
    <3>2. ~ Shows(view[c], inbox[c], pc) BY DEF Shows
    <3> QED BY <1>2, <3>1, <3>2, Zenon DEF ClientFits
  <2> DEFINE v == view[c]
             box == inbox[c]
             H == Home
             o == out
             u == out'
             pl == place
             pn == place'
             at == pc
  <2>2. /\ H \in SUBSET Karts /\ o \subseteq u /\ at # "done" /\ Watches(v, box, H, o, at)
    BY <1>1, <2>1
  <2> HIDE DEF v, box, H, o, u, pl, pn, at
  <2>3. Watches(v, box \o <<Over>>, H, u, "done") BY <2>2, ToldOver
  <2>4. InPlace(v, box, H, pl, at) /\ (\A k \in H : pn[k] = pl[k])
          => InPlace(v, box \o <<Over>>, H, pn, "done")
    BY <2>2, ToldOver
  <2> QED BY <2>1, <2>3, <2>4 DEF v, box, H, o, u, pl, pn, at
<1>3. ASSUME NEW c \in Viewers PROVE ClientFits(c)'
  <2>1. CASE view[c] = Away
    <3>1. inbox[c] = <<>> BY <2>1 DEF ClientInv, ClientFits, Watches, Shows, Seen, Away
    <3> QED BY <2>1, <3>1 DEF ClientFits, Send
  <2>2. CASE view[c] # Away BY <1>2, <2>2 DEF ClientFits, Send
  <2> QED BY <2>1, <2>2
<1>4. inbox' \in [Viewers -> Seq(0 .. N)]
  <2>1. ASSUME NEW c \in Viewers PROVE inbox'[c] \in Seq(0 .. N)
    <3>1. CASE view[c] = Away BY <3>1 DEF ClientInv, Send
    <3>2. CASE view[c] # Away BY <1>2, <3>2 DEF Watches, BoxFits, Send
    <3> QED BY <3>1, <3>2
  <2> QED BY <2>1 DEF Send
<1>5. view' \in [Viewers -> {Away} \cup Seen] BY DEF ClientInv
<1> QED BY <1>3, <1>4, <1>5 DEF ClientInv

LEMMA LobbyTells ==
  ASSUME IInv, ClientInv, SetsFit', ~PunishedWrong' => ~PunishedWrong, UpdateLobby
  PROVE  ClientInv'
<1>1. SetsFit /\ SentFits BY DEF IInv, ClientInv
<1>2. Home' = Home /\ out \subseteq out' BY <1>1 DEF UpdateLobby, SetsFit, Home
<1>3. \A k \in Home : place'[k] = place[k]
  BY <1>1 DEF UpdateLobby, Eliminated, Home, SetsFit
<1>4. SentFits' BY <1>1, <1>2 DEF UpdateLobby, SentFits
<1>5. pc = "lobby" /\ UNCHANGED view BY DEF UpdateLobby
<1>6. CASE phase = "over"
  <2>1. pc' = "done" /\ Send(<<Over>>) BY <1>6 DEF UpdateLobby
  <2> QED BY <1>2, <1>3, <1>4, <1>5, <2>1, ServerEnds
<1>7. CASE phase # "over"
  <2>1. UNCHANGED inbox BY <1>7 DEF UpdateLobby
  <2> QED BY <1>2, <1>3, <1>4, <1>5, <2>1, ServerSilent
<1> QED BY <1>6, <1>7

LEMMA EarlyTells ==
  ASSUME IInv, ClientInv, SetsFit', EndRaceEarly
  PROVE  ClientInv'
<1> DEFINE a == PassedOver.active
           m == Cardinality(finished)
<1>0. N \in Nat /\ Places = 1..N /\ Karts = 1..N BY Consts DEF Places, Karts
<1>1. /\ pc = "world" /\ phase = "race" /\ finished' = finished \cup ToSet(a)
      /\ Send(a) /\ UNCHANGED <<out, sent, view>> /\ early'
  BY DEF EndRaceEarly
<1>2. ~early /\ ~PunishedWrong BY <1>1 DEF IInv, SetsFit, PunishedWrong
<1>3. Inv /\ TypeOK /\ IndexOnce /\ SetsFit /\ SentFits
  BY <1>2 DEF IInv, Inv, ClientInv
<1>4. PassedOver \in Passing /\ ActiveOnce(PassedOver, N) /\ a \in Seq(Karts \ finished)
  BY <1>2, <1>3, LoopActive
<1>5. SentFits' BY <1>1, <1>3 DEF SentFits
<1>6. Home \subseteq Home' BY <1>1 DEF Home
<1>7. \A i, j \in 1 .. Len(a) : a[i] = a[j] => i = j BY <1>4 DEF ActiveOnce
<1>8. ~PunishedWrong' => InOrder(Home, Home', place, place', a)
  <2> SUFFICES ASSUME ~PunishedWrong' PROVE InOrder(Home, Home', place, place', a)
    OBVIOUS
  <2>1. out = {} BY <1>1 DEF PunishedWrong
  <2>2. place' = place /\ finished' = Karts BY <1>3, <2>1, StepEarly
  <2>3. Home = finished /\ Home' = Karts BY <1>1, <2>1, <2>2 DEF Home
  <2>4. HomeFirst /\ \A k \in Karts : index[place[k]] = k
    BY <1>1, <1>2, <1>3, <2>1 DEF Inv, IndexFits
  <2>5. m \in 0..N /\ Len(a) = N - m /\ \A i \in 1..(N - m) : a[i] = index[m + i]
    BY <1>2, <1>3, <2>1, <2>4, LoopBehind
  <2>6. Cardinality(Karts) = N BY <1>0, FS_Interval, 1 \in Int, N \in Int
  <2> HIDE DEF a
  <2>7. ASSUME NEW i \in 1 .. Len(a) PROVE place[a[i]] = m + i
    <3> HIDE DEF m
    <3>1. m + i \in Places /\ a[i] = index[m + i] BY <1>0, <2>5
    <3>2. place \in [Karts -> Places] /\ index \in [Places -> Karts] BY <1>3 DEF TypeOK
    <3>3. index[m + i] \in Karts BY <3>1, <3>2
    <3>4. index[place[a[i]]] = a[i] /\ place[a[i]] \in Places BY <2>4, <3>1, <3>2, <3>3
    <3> DEFINE p == m + i
               q == place[a[i]]
    <3>5. p \in Places /\ q \in Places /\ index[q] = index[p] BY <3>1, <3>4
    <3> HIDE DEF p, q
    <3>6. q = p BY <1>2, <1>3, <3>5 DEF IndexOnce
    <3> QED BY <3>6 DEF p, q
  <2>8. Cardinality(Home') = m + Len(a) BY <1>0, <2>3, <2>5, <2>6
  <2> QED BY <2>2, <2>3, <2>7, <2>8 DEF InOrder
<1> HIDE DEF a
<1>9. a \in Seq(Home' \ Home)
  <2>1. \A i \in 1 .. Len(a) : a[i] \in Karts \ finished /\ a[i] \in ToSet(a)
    BY <1>4 DEF ToSet
  <2>2. \A i \in 1 .. Len(a) : a[i] \in Home' \ Home
    BY <1>1, <1>3, <2>1 DEF Home, SetsFit
  <2> QED BY <1>4, <2>2, SeqWithin
<1>10. inbox' = [c \in Viewers |-> IF view[c] = Away THEN inbox[c] ELSE inbox[c] \o a]
  BY <1>1 DEF Send
<1> QED BY <1>1, <1>2, <1>5, <1>6, <1>7, <1>8, <1>9, <1>10, ServerTells

LEMMA LapTells ==
  ASSUME IInv, ClientInv, SetsFit', ~PunishedWrong' => ~PunishedWrong,
         NEW k \in Karts, NewLap(k)
  PROVE  ClientInv'
<1> DEFINE counted == [laps EXCEPT ![k] = @ + 1]
           done == counted[k] >= Laps
<1>1. /\ pc = "lines" /\ UNCHANGED <<out, early, sent, view>>
      /\ k \in finished => UNCHANGED <<place, finished, inbox>>
      /\ k \notin finished =>
           /\ place' = RacePosition(counted, along)
           /\ finished' = IF done THEN finished \cup {k} ELSE finished
           /\ IF done THEN Send(<<k>>) ELSE UNCHANGED inbox
  BY DEF NewLap, Updated
<1> HIDE DEF counted
<1>2. SetsFit /\ SentFits /\ SentFits' BY <1>1 DEF IInv, ClientInv, SentFits
<1>3. \A j \in Home : place'[j] = place[j]
  BY <1>1, <1>2 DEF RacePosition, Fixed, Home, SetsFit
<1>4. CASE k \in finished \/ ~done
  <2>1. UNCHANGED inbox /\ Home' = Home BY <1>1, <1>4 DEF Home
  <2> QED BY <1>1, <1>2, <1>3, <2>1, ServerSilent
<1>5. CASE k \notin finished /\ done
  <2>1. Home' = Home \cup {k} /\ k \notin Home BY <1>1, <1>2, <1>5 DEF Home, SetsFit
  <2>2. <<k>> \in Seq(Home' \ Home) /\ Len(<<k>>) = 1 /\ <<k>>[1] = k BY <2>1
  <2>3. \A i, j \in 1 .. Len(<<k>>) : <<k>>[i] = <<k>>[j] => i = j BY <2>2
  <2>4. Home \subseteq Home' /\ Home \in SUBSET Karts BY <1>2, <2>1, Apart
  <2>5. inbox' = [c \in Viewers |-> IF view[c] = Away THEN inbox[c] ELSE inbox[c] \o <<k>>]
    BY <1>1, <1>5 DEF Send
  <2>6. ~PunishedWrong => InOrder(Home, Home', place, place', <<k>>)
    <3> SUFFICES ASSUME ~PunishedWrong PROVE InOrder(Home, Home', place, place', <<k>>)
      OBVIOUS
    <3>1. Inv /\ laps \in [Karts -> 0 .. Laps] BY DEF IInv, Inv, TypeOK
    <3>2. /\ laps[k] < Laps /\ counted[k] = laps[k] + 1
          /\ \A j \in Karts \ {k} : counted[j] = laps[j]
      BY <1>5, <3>1 DEF Inv, LapsCounted, counted
    <3>3. counted[k] = Laps /\ counted \in [Karts -> 0 .. Laps]
      <4>1. laps[k] \in 0 .. Laps /\ Laps \in Nat BY <3>1, Consts
      <4>2. counted[k] = Laps BY <1>5, <3>2, <4>1
      <4>3. counted \in [Karts -> 0 .. Laps]
        <5>1. Laps \in 0 .. Laps BY <4>1
        <5>2. counted = [laps EXCEPT ![k] = Laps] BY <3>1, <4>2 DEF counted
        <5> QED BY <3>1, <5>1, <5>2
      <4> QED BY <4>2, <4>3
    <3>4. Ahead(k, counted, along) = Home BY <1>5, <3>1, <3>2, <3>3, FirstBehind
    <3>5. place'[k] = 1 + Cardinality(Home)
      BY <1>1, <1>2, <1>5, <3>4 DEF RacePosition, Fixed, SetsFit
    <3>6. Cardinality(Home) \in 0 .. N /\ Cardinality(Home') = Cardinality(Home) + 1
      BY <2>1, <2>4, Counted
    <3>7. \A i \in 1 .. Len(<<k>>) : place'[<<k>>[i]] = Cardinality(Home) + i
      BY <2>2, <3>5, <3>6
    <3> QED BY <1>3, <2>2, <3>6, <3>7 DEF InOrder
  <2> QED BY <1>1, <1>2, <2>2, <2>3, <2>4, <2>5, <2>6, ServerTells
<1> QED BY <1>4, <1>5

\* A step of a client changes what this client knows.
LEMMA ClientOnly ==
  ASSUME ClientInv, UNCHANGED <<serverVars, sent>>, NEW c \in Viewers, NEW w, NEW b,
         view' = [view EXCEPT ![c] = w], inbox' = [inbox EXCEPT ![c] = b],
         \/ /\ Watches(w, b, Home, out, pc)
            /\ ~PunishedWrong => InPlace(w, b, Home, place, pc)
         \/ Shows(w, b, pc) /\ (~PunishedWrong => Agrees(w, out, place))
  PROVE  ClientInv'
<1>1. /\ SentFits /\ view \in [Viewers -> {Away} \cup Seen]
      /\ inbox \in [Viewers -> Seq(0 .. N)] /\ \A d \in Viewers : ClientFits(d)
  BY DEF ClientInv
<1>2. /\ UNCHANGED <<out, finished, pc, place, early, sent>> /\ Home' = Home
      /\ PunishedWrong' = PunishedWrong
  BY DEF serverVars, Home, PunishedWrong
<1>3. w \in Seen /\ b \in Seq(0 .. N)
  <2>1. CASE Watches(w, b, Home, out, pc) BY <2>1 DEF Watches, BoxFits
  <2>2. CASE Shows(w, b, pc) BY <2>2 DEF Shows
  <2> QED BY <2>1, <2>2
<1>4. SentFits' BY <1>1, <1>2 DEF SentFits
<1>5. /\ view' \in [Viewers -> {Away} \cup Seen] /\ inbox' \in [Viewers -> Seq(0 .. N)]
      /\ view'[c] = w /\ inbox'[c] = b
      /\ \A d \in Viewers \ {c} : view'[d] = view[d] /\ inbox'[d] = inbox[d]
  BY <1>1, <1>3
<1>6. ClientFits(c)' BY <1>2, <1>5 DEF ClientFits
<1>7. ASSUME NEW d \in Viewers \ {c} PROVE ClientFits(d)'
  BY <1>1, <1>2, <1>5 DEF ClientFits
<1> QED BY <1>4, <1>5, <1>6, <1>7 DEF ClientInv

\* Who comes comes before anybody is at home.
LEMMA NobodyHome ==
  ASSUME IInv, pc = "lobby", CanLiveJoinNow
  PROVE  Home = {}
<1>0. N \in Nat \ {0} /\ Places = 1..N /\ Laps \in Nat \ {0} /\ Length \in Nat \ {0}
  BY Consts DEF Places
<1>1. ~early BY DEF CanLiveJoinNow, IInv, SetsFit
<1>2. Inv /\ SetsFit /\ TypeOK BY <1>1 DEF IInv, Inv, PunishedWrong
<1>3. /\ HomeFirst /\ \A k \in Karts : index[place[k]] = k
      /\ index \in [Places -> Karts] /\ laps \in [Karts -> 0 .. Laps]
      /\ along \in [Karts -> 0 .. Length - 1] /\ Home \in SUBSET Karts
      /\ \A k \in Home : laps[k] = Laps
  <2>1. Ranked /\ LapsCounted /\ HomeFirst BY <1>2 DEF Inv
  <2>2. Home \in SUBSET Karts BY <1>2, Apart
  <2> QED BY <1>1, <1>2, <2>1, <2>2 DEF Ranked, TypeOK, LapsCounted
<1> SUFFICES ASSUME Home # {} PROVE FALSE OBVIOUS
<1>4. PICK k \in Home : place[k] = 1
  <2>1. Home \in SUBSET Home /\ {} \in SUBSET Home /\ Cardinality({}) = 0
    BY FS_EmptySet
  <2>2. Cardinality(Home) \in 0 .. N /\ Cardinality(Home) # 0
    BY <1>3, <2>1, SetsOfKarts
  <2>3. 1 \in 1 .. Cardinality(Home)
    <3> DEFINE n == Cardinality(Home)
    <3>1. n \in 0 .. N /\ n # 0 BY <2>2
    <3> HIDE DEF n
    <3>2. 1 \in 1 .. n BY <1>0, <3>1
    <3> QED BY <3>2 DEF n
  <2> QED BY <1>3, <2>3, NoneFree DEF HomeFirst
<1>5. k \in Karts /\ k \notin out /\ index[1] = k BY <1>3, <1>4 DEF Home
<1> DEFINE racing == {p \in Places : index[p] \notin out}
           first == CHOOSE p \in racing : \A q \in racing : p <= q
<1>6. first = 1
  <2>1. 1 \in racing /\ \A q \in racing : 1 <= q BY <1>0, <1>5
  <2>2. racing \subseteq Int BY <1>0
  <2> HIDE DEF racing
  <2>3. first \in racing /\ \A q \in racing : first <= q BY <2>1
  <2> HIDE DEF first
  <2>4. first \in Int /\ 1 <= first /\ first <= 1 BY <2>1, <2>2, <2>3
  <2> QED BY <2>4
<1>7. 10 * Distance(index[first], laps, along) <= 9 * Laps * Length
  BY DEF CanLiveJoinNow
<1> HIDE DEF first
<1>8. 10 * Distance(k, laps, along) <= 9 * Laps * Length BY <1>5, <1>6, <1>7
<1> DEFINE x == Laps * Length
           d == along[k]
<1>9. Distance(k, laps, along) = x + d BY <1>3, <1>4 DEF Distance
<1>10. 9 * Laps * Length = 9 * x BY <1>0
<1>11. x \in Nat /\ x > 0 BY <1>0
<1>12. d \in Nat BY <1>0, <1>3, <1>5
<1> HIDE DEF x, d
<1>13. 10 * (x + d) <= 9 * x BY <1>8, <1>9, <1>10
<1> QED BY <1>11, <1>12, <1>13

LEMMA ClientSpectate ==
  ASSUME IInv, ClientInv, NEW c \in Viewers, Spectate(c)
  PROVE  ClientInv'
<1>1. /\ view[c] = Away /\ pc = "lobby" /\ CanLiveJoinNow
      /\ view' = [view EXCEPT ![c] = Joined] /\ UNCHANGED <<serverVars, sent, inbox>>
  BY DEF Spectate
<1>2. Home = {} BY <1>1, NobodyHome
<1>3. Watches(Joined, <<>>, Home, out, pc) /\ InPlace(Joined, <<>>, Home, place, pc)
  BY <1>2, JoinedFits
<1>4. inbox' = [inbox EXCEPT ![c] = <<>>]
  <2>1. inbox[c] = <<>> BY <1>1 DEF ClientInv, ClientFits, Watches, Shows, Seen, Away
  <2>2. inbox = [inbox EXCEPT ![c] = inbox[c]] BY DEF ClientInv
  <2> QED BY <1>1, <2>1, <2>2
<1> QED BY <1>1, <1>3, <1>4, ClientOnly

\* A client to which messages come is in the race.
LEMMA InRace ==
  ASSUME ClientInv, NEW c \in Viewers, view[c] # Away,
         view[c].in = "race" \/ inbox[c] # <<>>
  PROVE  /\ Watches(view[c], inbox[c], Home, out, pc)
         /\ ~PunishedWrong => InPlace(view[c], inbox[c], Home, place, pc)
<1>1. ClientFits(c) BY DEF ClientInv
<1>2. ~ Shows(view[c], inbox[c], pc) BY DEF Shows
<1> QED BY <1>1, <1>2, Zenon DEF ClientFits

LEMMA ClientHears ==
  ASSUME IInv, ClientInv, NEW c \in Viewers, KartFinishedRace(c)
  PROVE  ClientInv'
<1> DEFINE v == view[c]
           box == inbox[c]
           b == Tail(box)
           h == Head(box)
           n == v.next + 1
           p == [v.place EXCEPT ![h] = v.next]
           w == [v EXCEPT !.place = p, !.next = n]
<1>1. box # <<>> /\ h # Over /\ UNCHANGED <<serverVars, sent>>
  BY DEF KartFinishedRace
<1>2. v # Away
  <2>1. v = Away => box = <<>> BY DEF ClientInv, ClientFits, Watches, Shows, Seen, Away
  <2> QED BY <1>1, <2>1
<1>3. /\ Watches(v, box, Home, out, pc)
      /\ ~PunishedWrong => InPlace(v, box, Home, place, pc)
  BY <1>1, <1>2, InRace
<1>4. /\ Home \in SUBSET Karts /\ Home \cap out = {} /\ h \in Home \ Heard(v)
      /\ box \in Seq(0 .. N) /\ b \in Seq(0 .. N)
  <2>1. Home \in SUBSET Karts /\ Home \cap out = {} BY Apart DEF IInv
  <2>2. box \in Seq(0 .. N) BY <1>3 DEF Watches, BoxFits
  <2>3. 1 \in 1 .. Len(box) /\ h = box[1] BY <1>1, <2>2
  <2>4. h \in Home \ Heard(v)
    <3> HIDE DEF v, box, h
    <3>1. BoxFits(v, box, Home, pc) BY <1>3 DEF Watches
    <3>2. \A i \in 1 .. Len(box) :
            IF box[i] = Over THEN pc = "done" /\ i = Len(box) ELSE box[i] \in Home \ Heard(v)
      BY <3>1 DEF BoxFits
    <3>3. box[1] # Over BY <1>1, <2>3
    <3>4. box[1] \in Home \ Heard(v) BY <2>3, <3>2, <3>3
    <3> QED BY <2>3, <3>4
  <2>5. b \in Seq(0 .. N)
    <3> DEFINE S == 0 .. N
    <3>1. box \in Seq(S) /\ box # <<>> BY <1>1, <2>2
    <3> HIDE DEF S, box
    <3>2. Tail(box) \in Seq(S) BY <3>1
    <3> QED BY <3>2 DEF S
  <2> QED BY <2>1, <2>2, <2>4, <2>5
<1>5. v \in Seen /\ v.next \in 0 .. N
  <2> DEFINE G == Heard(v)
  <2>1. /\ v \in Seen /\ G \subseteq Home /\ v.next = Cardinality(G) + 1
    BY <1>3 DEF Watches, ViewFits
  <2>2. G \in SUBSET Karts /\ h \in Karts /\ h \notin G BY <1>4, <2>1
  <2>3. G \cup {h} \in SUBSET (G \cup {h}) /\ G \cup {h} \in SUBSET Karts BY <2>2
  <2> HIDE DEF G, h
  <2>4. Cardinality(G) \in 0 .. N /\ Cardinality(G \cup {h}) = Cardinality(G) + 1
    BY <2>2, Counted
  <2>5. Cardinality(G \cup {h}) \in 0 .. N BY <2>3, SetsOfKarts
  <2> QED BY <2>1, <2>4, <2>5, Consts
<1>6. w \in Seen /\ w.in = v.in /\ w.out = v.out /\ w.next = n /\ w.place = p
  <2>1. p \in [Karts -> 0 .. N] BY <1>4, <1>5 DEF Seen
  <2>2. n \in Nat BY <1>5, Consts
  <2> HIDE DEF p, n
  <2> QED BY <1>5, <2>1, <2>2 DEF Seen
<1>7. view' = [view EXCEPT ![c] = w] /\ inbox' = [inbox EXCEPT ![c] = b]
  <2>1. view' = [view EXCEPT ![c].place[h] = v.next, ![c].next = @ + 1]
    BY DEF KartFinishedRace
  <2>2. view' = [view EXCEPT ![c] = w] BY <2>1
  <2> QED BY <2>2 DEF KartFinishedRace
<1>8. /\ Watches(w, b, Home, out, pc)
      /\ \A pl : InPlace(v, box, Home, pl, pc) => InPlace(w, b, Home, pl, pc)
  <2>1. w.next = v.next + 1 /\ w.place = [v.place EXCEPT ![Head(box)] = v.next]
    BY <1>6
  <2> HIDE DEF w, v, box, n, p, b
  <2>2. b = Tail(box) BY DEF b
  <2> QED BY <1>1, <1>3, <1>4, <1>6, <2>1, <2>2, Hears
<1>9. ~PunishedWrong => InPlace(w, b, Home, place, pc)
  <2> HIDE DEF w, v, box, b
  <2> QED BY <1>3, <1>8
<1> HIDE DEF w, v, box, b
<1> QED BY <1>1, <1>7, <1>8, <1>9, ClientOnly

LEMMA ClientLoses ==
  ASSUME IInv, ClientInv, NEW c \in Viewers, NEW present \in sent, ComputeError(c, present)
  PROVE  ClientInv'
<1> DEFINE v == view[c]
           box == inbox[c]
           L == Karts \ (present \cup v.out)
           w == Lost(v, L)
<1>1. /\ v # Away /\ v.in = "race" /\ UNCHANGED <<serverVars, sent, inbox>>
      /\ view' = [view EXCEPT ![c].place = Eliminated(@, v.out, L), ![c].out = @ \cup L]
  BY DEF ComputeError
<1>2. /\ Watches(v, box, Home, out, pc)
      /\ ~PunishedWrong => InPlace(v, box, Home, place, pc)
  BY <1>1, InRace
<1>3. Home \in SUBSET Karts /\ out \in SUBSET Karts /\ Home \cap out = {}
  BY Apart DEF IInv
<1>4. L \in SUBSET (out \ v.out) BY DEF ClientInv, SentFits
<1>5. /\ Watches(w, box, Home, out, pc)
      /\ \A pl : InPlace(v, box, Home, pl, pc) => InPlace(w, box, Home, pl, pc)
  <2> HIDE DEF v, box, L
  <2> QED BY <1>2, <1>3, <1>4, Loses
<1>6. view' = [view EXCEPT ![c] = w]
  <2> HIDE DEF L
  <2> QED BY <1>1 DEF Lost
<1>7. inbox' = [inbox EXCEPT ![c] = box] BY <1>1 DEF ClientInv
<1> HIDE DEF w, v, box, L
<1>8. ~PunishedWrong => InPlace(w, box, Home, place, pc) BY <1>2, <1>5
<1> QED BY <1>1, <1>5, <1>6, <1>7, <1>8, ClientOnly

LEMMA ClientEnds ==
  ASSUME IInv, ClientInv, NEW c \in Viewers, RaceFinished(c)
  PROVE  ClientInv'
<1> DEFINE v == view[c]
           box == inbox[c]
           b == Tail(box)
           rest == Karts \ Finished(v)
           done == Cardinality(Heard(v))
           After(order) == [k \in Karts |-> IF k \notin rest THEN v.place[k] ELSE
                               done + (CHOOSE i \in DOMAIN order : order[i] = k)]
<1>1. box # <<>> /\ Head(box) = Over /\ UNCHANGED <<serverVars, sent>>
      /\ inbox' = [inbox EXCEPT ![c] = b]
  BY DEF RaceFinished
<1>2. PICK order \in SetToSeqs(rest) :
         view' = [view EXCEPT ![c].place = After(order), ![c].out = @ \cup rest,
                              ![c].in = "result"]
  BY DEF RaceFinished, Heard
<1>3. v # Away
  <2>1. v = Away => box = <<>> BY DEF ClientInv, ClientFits, Watches, Shows, Seen, Away
  <2> QED BY <1>1, <2>1
<1>4. /\ Watches(v, box, Home, out, pc)
      /\ ~PunishedWrong => InPlace(v, box, Home, place, pc)
  BY <1>1, <1>3, InRace
<1>5. Home \in SUBSET Karts /\ out \in SUBSET Karts /\ Home \cap out = {}
  BY Apart DEF IInv
<1>6. v \in Seen BY <1>4 DEF Watches
<1> DEFINE w == Final(v, order)
<1>7. /\ Shows(w, b, pc) /\ \A pl : InPlace(v, box, Home, pl, pc) => Agrees(w, out, pl)
  <2>1. order \in SetToSeqs(Karts \ Finished(v)) OBVIOUS
  <2> HIDE DEF v, box
  <2> QED BY <1>1, <1>4, <1>5, <2>1, Ends
<1>8. view' = [view EXCEPT ![c] = w]
  <2> DEFINE p == After(order)
  <2>1. w = [v EXCEPT !.place = p, !.out = v.out \cup rest, !.in = "result"] BY DEF Final
  <2>2. view' = [view EXCEPT ![c].place = p, ![c].out = @ \cup rest, ![c].in = "result"]
    BY <1>2
  <2> HIDE DEF p, rest, w
  <2> QED BY <2>1, <2>2
<1> HIDE DEF w, v, box, b
<1>9. ~PunishedWrong => Agrees(w, out, place) BY <1>4, <1>7
<1> QED BY <1>1, <1>7, <1>8, <1>9, ClientOnly

LEMMA ClientStep ==
  ASSUME IInv, ClientInv, NEW c \in Viewers, Client(c)
  PROVE  ClientInv'
<1>1. CASE Spectate(c) BY <1>1, ClientSpectate
<1>2. CASE KartFinishedRace(c) BY <1>2, ClientHears
<1>3. CASE RaceFinished(c) BY <1>3, ClientEnds
<1>4. ASSUME NEW present \in sent, ComputeError(c, present) PROVE ClientInv'
  BY <1>4, ClientLoses
<1> QED BY <1>1, <1>2, <1>3, <1>4 DEF Client

LEMMA NextClients == IInv /\ ClientInv /\ [Next]_vars => ClientInv'
<1> SUFFICES ASSUME IInv, ClientInv, [Next]_vars PROVE ClientInv' OBVIOUS
<1>1. SetsFit /\ SetsFit' /\ SentFits BY SetsStep DEF IInv, ClientInv
<1>2. ~PunishedWrong' => ~PunishedWrong BY <1>1, StaysPunished
<1>3. ASSUME UpdateLobby PROVE ClientInv' BY <1>1, <1>2, <1>3, LobbyTells
<1>4. ASSUME EndRaceEarly PROVE ClientInv' BY <1>1, <1>4, EarlyTells
<1>5. ASSUME UpdateTrackSectors PROVE ClientInv'
  <2>1. /\ pc # "done" /\ sent' = sent \cup {Karts \ out}
        /\ UNCHANGED <<place, finished, out, view, inbox>>
    BY <1>5 DEF UpdateTrackSectors
  <2>2. SentFits' BY <1>1, <2>1 DEF SentFits
  <2>3. Home' = Home BY <2>1 DEF Home
  <2> QED BY <1>1, <1>2, <2>1, <2>2, <2>3, ServerSilent
<1>6. ASSUME UpdateRacePosition PROVE ClientInv'
  <2>1. /\ pc # "done" /\ place' = RacePosition(laps, along)
        /\ UNCHANGED <<finished, out, sent, view, inbox>>
    BY <1>6 DEF UpdateRacePosition
  <2>2. SentFits' BY <1>1, <2>1 DEF SentFits
  <2>3. Home' = Home BY <2>1 DEF Home
  <2>4. \A k \in Home : place'[k] = place[k]
    BY <1>1, <2>1 DEF RacePosition, Fixed, Home, SetsFit
  <2> QED BY <1>1, <1>2, <2>1, <2>2, <2>3, <2>4, ServerSilent
<1>7. ASSUME pc # "done", UNCHANGED <<place, finished, out, sent, view, inbox>>
      PROVE  ClientInv'
  <2>1. SentFits' BY <1>1, <1>7 DEF SentFits
  <2>2. Home' = Home BY <1>7 DEF Home
  <2> QED BY <1>1, <1>2, <1>7, <2>1, <2>2, ServerSilent
<1>8. ASSUME EmptyServer PROVE ClientInv' BY <1>7, <1>8 DEF EmptyServer
<1>9. ASSUME NEW k \in Karts, Disconnect(k) PROVE ClientInv'
  BY <1>7, <1>9 DEF Disconnect
<1>10. ASSUME NEW k \in Karts, NewLap(k) PROVE ClientInv'
  BY <1>1, <1>2, <1>10, LapTells
<1>11. ASSUME NEW c \in Viewers, Client(c) PROVE ClientInv' BY <1>11, ClientStep
<1>12. ASSUME UNCHANGED vars PROVE ClientInv'
  <2>1. /\ UNCHANGED <<pc, place, finished, out, early, sent, view, inbox>>
        /\ Home' = Home /\ PunishedWrong' = PunishedWrong
    BY <1>12 DEF vars, serverVars, Home, PunishedWrong
  <2> QED BY <2>1 DEF ClientInv, SentFits, ClientFits
<1> QED
  BY <1>3, <1>4, <1>5, <1>6, <1>8, <1>9, <1>10, <1>11, <1>12 DEF Next, Tick

-----------------------------------------------------------------------------
(* Theorems                                                                *)

\* The places are well-formed and in order in every state of every race,
\* unless it was ended early after a kart had left (linear_world.cpp,
\* world_with_rank.cpp, standard_race.cpp).
THEOREM Invariant == Spec => []IInv
<1>1. Init => IInv BY InitInv
<1>2. IInv /\ [Next]_vars => IInv' BY NextInv
<1> QED BY <1>1, <1>2, PTL DEF Spec

\* But for such an end every kart is found at its place, so no two karts have
\* the same (the assertions of updateRacePosition).
THEOREM RankedAlways == Spec => []RankedUnlessPunished
<1>1. IInv => RankedUnlessPunished BY DEF IInv, Inv, RankedUnlessPunished
<1> QED BY <1>1, Invariant, PTL

\* What clients know, and what is still on its way to them, fits the race on
\* the server at every time (GameEventsProtocol, KartRewinder, ClientLobby).
THEOREM ClientInvariant == Spec => [](IInv /\ ClientInv)
<1>1. Init => IInv /\ ClientInv BY InitInv, InitClients
<1>2. IInv /\ ClientInv /\ [Next]_vars => (IInv /\ ClientInv)' BY NextInv, NextClients
<1> QED BY <1>1, <1>2, PTL DEF Spec

\* The result that a client shows has one kart at each place, whatever the
\* server gave (ClientLobby::raceFinished, RaceResultGUI).
THEOREM OneInEachPlace == Spec => []OneResult
<1>1. ClientInv => OneResult
  <2> SUFFICES ASSUME ClientInv, NEW c \in Viewers, view[c] # Away, view[c].in = "result"
               PROVE  {view[c].place[k] : k \in Karts} = Places
    BY DEF OneResult
  <2>1. ~ Watches(view[c], inbox[c], Home, out, pc) BY DEF Watches
  <2> QED BY <2>1 DEF ClientInv, ClientFits, Shows
<1> QED BY <1>1, ClientInvariant, PTL

\* A client counts the messages of karts that have finished and comes to the
\* places that the server computed (GameEventsProtocol::kartFinishedRace).
THEOREM CountsAsServer == Spec => []ClientsAgree
<1>1. ClientInv => ClientsAgree
  <2> SUFFICES ASSUME ClientInv, NEW c \in Viewers, view[c] # Away, ~PunishedWrong,
                      NEW k \in Finished(view[c]) \ (out \cup view[c].out)
               PROVE  view[c].place[k] = place[k]
    BY DEF ClientsAgree
  <2>1. ClientFits(c) /\ k \in Heard(view[c]) BY DEF ClientInv, Heard
  <2>2. CASE InPlace(view[c], inbox[c], Home, place, pc) BY <2>1, <2>2 DEF InPlace
  <2>3. CASE Agrees(view[c], out, place) BY <2>3 DEF Agrees
  <2> QED BY <2>1, <2>2, <2>3, Zenon DEF ClientFits
<1> QED BY <1>1, ClientInvariant, PTL
=============================================================================
