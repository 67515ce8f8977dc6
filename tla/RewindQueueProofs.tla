------------------------- MODULE RewindQueueProofs -------------------------
(***************************************************************************)
(* Proofs about RewindQueue, for every value of its constants: the queue   *)
(* stays sorted, a rewind always finds the state it needs, it goes to the  *)
(* newest one, and a server leaves nothing in its queue.                   *)
(***************************************************************************)
EXTENDS RewindQueue, SequenceTheorems, SequenceLemmas

-----------------------------------------------------------------------------
(* Largest and smallest positions                                          *)

\* A bounded set of naturals has a largest element.
LEMMA GreatestOfBounded ==
  ASSUME NEW n \in Nat, NEW S, S \subseteq 0..n, S # {}
  PROVE  \E m \in S : \A x \in S : m >= x
<1> DEFINE D == {n - x : x \in S}
<1>1. PICK x0 \in S : TRUE OBVIOUS
<1>2. D # {} BY <1>1
<1>3. D \subseteq Nat
  <2> SUFFICES ASSUME NEW x \in S PROVE n - x \in Nat OBVIOUS
  <2>1. x \in 0..n OBVIOUS
  <2> QED BY <2>1
<1>4. PICK d \in D : \A y \in D : d <= y
  <2> HIDE DEF D
  <2> QED BY <1>2, <1>3, LeastOfNats
<1>5. PICK m \in S : d = n - m OBVIOUS
<1>6. ASSUME NEW x \in S PROVE m >= x
  <2>1. n - x \in D /\ n - x >= d BY <1>4
  <2>2. x \in 0..n /\ m \in 0..n OBVIOUS
  <2> QED BY <1>5, <2>1, <2>2
<1> QED BY <1>6

\* What LastOf returns: the largest position of a set, 0 for the empty one.
LEMMA LastOfProps ==
  ASSUME NEW n \in Nat, NEW I, I \subseteq 1..n
  PROVE  /\ LastOf(I) \in 0..n
         /\ LastOf(I) # 0 => LastOf(I) \in I
         /\ \A i \in I : i <= LastOf(I)
<1> DEFINE S == {0} \cup I
<1>1. S \subseteq 0..n /\ S # {} OBVIOUS
<1>2. \E m \in S : \A x \in S : m >= x
  <2> HIDE DEF S
  <2> QED BY <1>1, GreatestOfBounded
<1>3. Max(S) \in S /\ \A x \in S : Max(S) >= x BY <1>2 DEF Max
<1>4. LastOf(I) = Max(S) BY DEF LastOf
<1>5. LastOf(I) \in S /\ \A x \in S : LastOf(I) >= x BY <1>3, <1>4
<1>6. LastOf(I) \in 0..n BY <1>5, <1>1
<1> QED BY <1>5, <1>6

\* What FirstOf returns: the smallest position of a set, n if it is empty.
LEMMA FirstOfProps ==
  ASSUME NEW n \in Nat \ {0}, NEW I, I \subseteq 1..n
  PROVE  /\ FirstOf(I, n) \in 1..n
         /\ FirstOf(I, n) # n => FirstOf(I, n) \in I
         /\ \A i \in I : FirstOf(I, n) <= i
<1> DEFINE S == {n} \cup I
<1>1. S \subseteq Nat /\ S # {} /\ S \subseteq 1..n OBVIOUS
<1>2. \E m \in S : \A x \in S : m <= x
  <2> HIDE DEF S
  <2> QED BY <1>1, LeastOfNats
<1>3. Min(S) \in S /\ \A x \in S : Min(S) <= x BY <1>2 DEF Min
<1>4. FirstOf(I, n) = Min(S) BY DEF FirstOf
<1>5. FirstOf(I, n) \in S /\ \A x \in S : FirstOf(I, n) <= x BY <1>3, <1>4
<1> QED BY <1>5, <1>1
-----------------------------------------------------------------------------
(* The operators of the queue                                              *)

\* The ticks of a list of infos.
LEMMA InfoTicks ==
  ASSUME NEW s \in Seq(Infos)
  PROVE  /\ Len(s) \in Nat
         /\ \A i \in 1..Len(s) : s[i] \in Infos /\ s[i].tick \in Nat
<1>1. \A i \in 1..Len(s) : s[i] \in Infos OBVIOUS
<1>2. \A r \in Infos : r.tick \in Nat BY DEF Infos
<1> QED BY <1>1, <1>2

\* insertRewindInfo puts the new element behind the last one that stops its
\* search, and moves the rest of the list back by one.
LEMMA InsertProps ==
  ASSUME NEW s \in Seq(Infos), NEW r \in Infos
  PROVE  LET p == InsertPos(s, r)
             t == Insert(s, r)
         IN /\ p \in 1..(Len(s) + 1)
            /\ p > 1 => StopsSearch(s[p - 1], r)
            /\ \A i \in p..Len(s) : ~StopsSearch(s[i], r)
            /\ t \in Seq(Infos) /\ Len(t) = Len(s) + 1
            /\ \A i \in 1..(p - 1) : t[i] = s[i]
            /\ t[p] = r
            /\ \A i \in (p + 1)..Len(t) : t[i] = s[i - 1]
<1> DEFINE I == {i \in 1..Len(s) : StopsSearch(s[i], r)}
           p == InsertPos(s, r)
           a == SubSeq(s, 1, p - 1)
           b == SubSeq(s, p, Len(s))
           t == Insert(s, r)
<1>0. Len(s) \in Nat OBVIOUS
<1>1. p = LastOf(I) + 1 BY DEF InsertPos
<1>2. /\ LastOf(I) \in 0..Len(s)
      /\ LastOf(I) # 0 => LastOf(I) \in I
      /\ \A i \in I : i <= LastOf(I)
  <2>1. I \subseteq 1..Len(s) OBVIOUS
  <2> HIDE DEF I
  <2> QED BY <1>0, <2>1, LastOfProps
<1>3. p \in 1..(Len(s) + 1)
  <2> HIDE DEF I, p
  <2> QED BY <1>0, <1>1, <1>2
<1>4. p > 1 => StopsSearch(s[p - 1], r)
  <2>1. p > 1 => p - 1 \in I
    <3> HIDE DEF I, p
    <3> QED BY <1>0, <1>1, <1>2
  <2> QED BY <2>1
<1>5. \A i \in p..Len(s) : ~StopsSearch(s[i], r)
  <2> SUFFICES ASSUME NEW i \in p..Len(s), StopsSearch(s[i], r) PROVE FALSE
    OBVIOUS
  <2>1. i \in I
    <3> HIDE DEF p
    <3> QED BY <1>0, <1>3
  <2> HIDE DEF I, p
  <2> QED BY <2>1, <1>0, <1>1, <1>2, <1>3
<1>6. a \in Seq(Infos) /\ b \in Seq(Infos)
  <2> HIDE DEF p
  <2> QED BY <1>0, <1>3
<1>7. Len(a) = p - 1 /\ Len(b) = Len(s) - p + 1
  <2> HIDE DEF p
  <2> QED BY <1>0, <1>3
<1>8. /\ \A i \in 1..(p - 1) : a[i] = s[i]
      /\ \A i \in 1..(Len(s) - p + 1) : b[i] = s[p + i - 1]
  <2> HIDE DEF p
  <2> QED BY <1>0, <1>3
<1>9. t = a \o <<r>> \o b BY DEF Insert, InsertAt
<1> HIDE DEF p, a, b, t
<1>10. t \in Seq(Infos) /\ Len(t) = Len(s) + 1
  BY <1>0, <1>3, <1>6, <1>7, <1>9
<1>11. \A i \in 1..(p - 1) : t[i] = s[i]
  BY <1>0, <1>3, <1>6, <1>7, <1>8, <1>9
<1>12. t[p] = r
  BY <1>0, <1>3, <1>6, <1>7, <1>9
<1>13. \A i \in (p + 1)..Len(t) : t[i] = s[i - 1]
  BY <1>0, <1>3, <1>6, <1>7, <1>8, <1>9, <1>10
<1> QED BY <1>3, <1>4, <1>5, <1>10, <1>11, <1>12, <1>13 DEF p, t

\* After an insertion the list has its old elements, the new one, no other.
LEMMA InsertElements ==
  ASSUME NEW s \in Seq(Infos), NEW r \in Infos
  PROVE  LET t == Insert(s, r)
         IN /\ \A i \in 1..Len(t) : t[i] = r \/ \E j \in 1..Len(s) : t[i] = s[j]
            /\ \A j \in 1..Len(s) : \E i \in 1..Len(t) : t[i] = s[j]
            /\ \E i \in 1..Len(t) : t[i] = r
<1> DEFINE p == InsertPos(s, r)
           t == Insert(s, r)
<1>0. Len(s) \in Nat OBVIOUS
<1>1. /\ p \in 1..(Len(s) + 1) /\ Len(t) = Len(s) + 1 /\ t[p] = r
      /\ \A i \in 1..(p - 1) : t[i] = s[i]
      /\ \A i \in (p + 1)..Len(t) : t[i] = s[i - 1]
  BY InsertProps
<1> HIDE DEF p, t
<1>2. ASSUME NEW i \in 1..Len(t)
      PROVE  t[i] = r \/ \E j \in 1..Len(s) : t[i] = s[j]
  <2>1. CASE i < p BY <1>0, <1>1, <2>1
  <2>2. CASE i = p BY <1>1, <2>2
  <2>3. CASE i > p
    <3>1. i - 1 \in 1..Len(s) /\ t[i] = s[i - 1] BY <1>0, <1>1, <2>3
    <3> QED BY <3>1
  <2> QED BY <1>0, <1>1, <2>1, <2>2, <2>3
<1>3. ASSUME NEW j \in 1..Len(s) PROVE \E i \in 1..Len(t) : t[i] = s[j]
  <2>1. CASE j < p
    <3>1. j \in 1..Len(t) /\ t[j] = s[j] BY <1>0, <1>1, <2>1
    <3> QED BY <3>1
  <2>2. CASE j >= p
    <3>1. j + 1 \in 1..Len(t) /\ t[j + 1] = s[j] BY <1>0, <1>1, <2>2
    <3> QED BY <3>1
  <2> QED BY <1>0, <1>1, <2>1, <2>2
<1>4. \E i \in 1..Len(t) : t[i] = r BY <1>0, <1>1
<1> QED BY <1>2, <1>3, <1>4 DEF t

\* insertRewindInfo keeps the order of the list.
LEMMA InsertSorted ==
  ASSUME NEW s \in Seq(Infos), NEW r \in Infos, SortedSeq(s)
  PROVE  SortedSeq(Insert(s, r))
<1> DEFINE p == InsertPos(s, r)
           t == Insert(s, r)
<1>0. /\ Len(s) \in Nat /\ r.tick \in Nat
      /\ \A i \in 1..Len(s) : s[i].tick \in Nat
  BY InfoTicks DEF Infos
<1>1. /\ p \in 1..(Len(s) + 1) /\ Len(t) = Len(s) + 1 /\ t[p] = r
      /\ p > 1 => StopsSearch(s[p - 1], r)
      /\ \A i \in p..Len(s) : ~StopsSearch(s[i], r)
      /\ \A i \in 1..(p - 1) : t[i] = s[i]
      /\ \A i \in (p + 1)..Len(t) : t[i] = s[i - 1]
  BY InsertProps
<1> HIDE DEF p, t
<1> SUFFICES ASSUME NEW i \in 1..Len(t), NEW j \in 1..Len(t), i < j
             PROVE  /\ t[i].tick <= t[j].tick
                    /\ t[i].tick = t[j].tick /\ IsState(t[j]) => IsState(t[i])
  BY DEF SortedSeq, t
<1>2. CASE i # p /\ j # p
  <2> DEFINE a == IF i < p THEN i ELSE i - 1
             b == IF j < p THEN j ELSE j - 1
  <2>1. a \in 1..Len(s) /\ b \in 1..Len(s) /\ a < b BY <1>0, <1>1, <1>2
  <2>2. t[i] = s[a]
    <3>1. CASE i < p BY <1>0, <1>1, <3>1
    <3>2. CASE i > p BY <1>0, <1>1, <3>2
    <3> QED BY <1>0, <1>1, <1>2, <3>1, <3>2
  <2>3. t[j] = s[b]
    <3>1. CASE j < p
      <4>1. j \in 1..(p - 1) BY <1>1, <3>1
      <4> QED BY <1>1, <3>1, <4>1
    <3>2. CASE j > p BY <1>0, <1>1, <3>2
    <3> QED BY <1>0, <1>1, <1>2, <3>1, <3>2
  <2> HIDE DEF a, b
  <2> QED BY <2>1, <2>2, <2>3 DEF SortedSeq
<1>3. CASE j = p
  <2>1. i \in 1..Len(s) /\ p - 1 \in 1..Len(s) /\ i <= p - 1 /\ t[i] = s[i]
    BY <1>0, <1>1, <1>3
  <2>2. s[i].tick <= s[p - 1].tick
    BY <1>0, <2>1 DEF SortedSeq
  <2>3. s[p - 1].tick < r.tick \/ (s[p - 1].tick = r.tick /\ ~IsState(r))
    BY <1>0, <1>1, <2>1 DEF StopsSearch
  <2> QED BY <1>0, <1>1, <1>3, <2>1, <2>2, <2>3
<1>4. CASE i = p
  <2>1. j - 1 \in p..Len(s) /\ j - 1 \in 1..Len(s) /\ t[j] = s[j - 1]
    BY <1>0, <1>1, <1>4
  <2>2. ~StopsSearch(s[j - 1], r) BY <1>1, <2>1
  <2> QED BY <1>0, <1>1, <1>4, <2>1, <2>2 DEF StopsSearch
<1> QED BY <1>2, <1>3, <1>4

\* m_current stays inside the list, the end included.
LEMMA CurAfterInsertType ==
  ASSUME NEW s \in Seq(Infos), NEW r \in Infos, NEW c \in 1..(Len(s) + 1)
  PROVE  CurAfterInsert(s, c, r) \in 1..(Len(Insert(s, r)) + 1)
<1>1. InsertPos(s, r) \in 1..(Len(s) + 1) /\ Len(Insert(s, r)) = Len(s) + 1
  BY InsertProps
<1>2. Len(s) \in Nat OBVIOUS
<1> QED BY <1>1, <1>2 DEF CurAfterInsert

\* What a clean-up keeps of a list: the suffix from FirstKept on, in order,
\* which holds everything that is not older than t.
LEMMA CleanupProps ==
  ASSUME NEW s \in Seq(Infos), NEW t \in Nat
  PROVE  LET k == FirstKept(s, t)
             u == SubSeq(s, k, Len(s))
         IN /\ k \in 1..(Len(s) + 1)
            /\ u \in Seq(Infos) /\ Len(u) = Len(s) - k + 1
            /\ \A i \in 1..Len(u) : u[i] = s[i + k - 1]
            /\ k <= Len(s) => s[k].tick >= t
            /\ \A i \in 1..Len(s) : s[i].tick >= t => k <= i
<1> DEFINE I == {i \in 1..Len(s) : s[i].tick >= t}
           k == FirstKept(s, t)
           u == SubSeq(s, k, Len(s))
<1>0. Len(s) \in Nat OBVIOUS
<1>1. k = FirstOf(I, Len(s) + 1) BY DEF FirstKept
<1>2. /\ FirstOf(I, Len(s) + 1) \in 1..(Len(s) + 1)
      /\ FirstOf(I, Len(s) + 1) # Len(s) + 1 => FirstOf(I, Len(s) + 1) \in I
      /\ \A i \in I : FirstOf(I, Len(s) + 1) <= i
  <2>1. I \subseteq 1..(Len(s) + 1) /\ Len(s) + 1 \in Nat \ {0} BY <1>0
  <2> HIDE DEF I
  <2> QED BY <2>1, FirstOfProps
<1>3. k \in 1..(Len(s) + 1) /\ (k <= Len(s) => k \in I) /\ \A i \in I : k <= i
  <2> HIDE DEF k, I
  <2> QED BY <1>0, <1>1, <1>2
<1>4. /\ u \in Seq(Infos) /\ Len(u) = Len(s) - k + 1
      /\ \A i \in 1..Len(u) : u[i] = s[i + k - 1]
  <2> HIDE DEF k
  <2> QED BY <1>0, <1>3
<1> HIDE DEF k, u
<1> QED BY <1>3, <1>4 DEF k, u

\* Position i behind a prefix of k - 1 elements.
LEMMA Shift ==
  ASSUME NEW n \in Nat, NEW k \in 1..(n + 1), NEW i \in 1..(n - k + 1)
  PROVE  /\ i + k - 1 \in 1..n /\ k \in 1..n /\ k <= n
         /\ i > 1 => k < i + k - 1
         /\ i = 1 => i + k - 1 = k
         /\ \A j \in 1..(n - k + 1) : i < j => i + k - 1 < j + k - 1
OBVIOUS

LEMMA CleanupSorted ==
  ASSUME NEW s \in Seq(Infos), NEW t \in Nat, SortedSeq(s)
  PROVE  LET u == SubSeq(s, FirstKept(s, t), Len(s))
         IN SortedSeq(u) /\ \A i \in 1..Len(u) : u[i].tick >= t
<1> DEFINE k == FirstKept(s, t)
           u == SubSeq(s, k, Len(s))
<1>0. Len(s) \in Nat /\ \A i \in 1..Len(s) : s[i].tick \in Nat BY InfoTicks
<1>1. /\ k \in 1..(Len(s) + 1) /\ Len(u) = Len(s) - k + 1
      /\ \A i \in 1..Len(u) : u[i] = s[i + k - 1]
      /\ k <= Len(s) => s[k].tick >= t
  BY CleanupProps
<1> HIDE DEF k, u
<1>2. SortedSeq(u)
  <2> SUFFICES ASSUME NEW i \in 1..Len(u), NEW j \in 1..Len(u), i < j
               PROVE  /\ u[i].tick <= u[j].tick
                      /\ u[i].tick = u[j].tick /\ IsState(u[j]) => IsState(u[i])
    BY DEF SortedSeq
  <2>1. /\ i + k - 1 \in 1..Len(s) /\ j + k - 1 \in 1..Len(s)
        /\ i + k - 1 < j + k - 1
    <3>1. Len(s) \in Nat /\ k \in 1..(Len(s) + 1)
          /\ Len(u) = Len(s) - k + 1
      BY <1>0, <1>1
    <3> QED BY <3>1, Shift
  <2>2. u[i] = s[i + k - 1] /\ u[j] = s[j + k - 1] BY <1>1
  <2> QED BY <2>1, <2>2 DEF SortedSeq
<1>3. ASSUME NEW i \in 1..Len(u) PROVE u[i].tick >= t
  <2>1. /\ k \in 1..Len(s) /\ i + k - 1 \in 1..Len(s) /\ k <= Len(s)
        /\ i > 1 => k < i + k - 1
        /\ i = 1 => i + k - 1 = k
    <3>1. Len(s) \in Nat /\ k \in 1..(Len(s) + 1)
          /\ Len(u) = Len(s) - k + 1
      BY <1>0, <1>1
    <3> QED BY <3>1, Shift
  <2>2. s[k].tick <= s[i + k - 1].tick
    <3>0. i = 1 \/ i > 1 BY <1>0, <1>1
    <3>1. CASE i = 1 BY <1>0, <2>1, <3>1
    <3>2. CASE i > 1 BY <2>1, <3>2 DEF SortedSeq
    <3> QED BY <3>0, <3>1, <3>2
  <2>3. u[i] = s[i + k - 1] /\ s[k].tick >= t BY <1>1, <2>1
  <2>4. s[k].tick \in Nat /\ s[i + k - 1].tick \in Nat BY <1>0, <2>1
  <2> QED BY <2>2, <2>3, <2>4
<1> QED BY <1>2, <1>3 DEF k, u

\* replayAllEvents leaves m_current inside the list, and at its end if all
\* that is left belongs to the replayed tick.
LEMMA RunEndProps ==
  ASSUME NEW s \in Seq(Infos), NEW c \in 1..(Len(s) + 1), NEW t \in Nat
  PROVE  /\ RunEnd(s, c, t) \in 1..(Len(s) + 1)
         /\ RunEnd(s, c, t) >= c
         /\ (\A i \in c..Len(s) : s[i].tick = t) => RunEnd(s, c, t) = Len(s) + 1
<1> DEFINE I == {i \in c..Len(s) : s[i].tick # t}
<1>0. Len(s) \in Nat OBVIOUS
<1>1. RunEnd(s, c, t) = FirstOf(I, Len(s) + 1) BY DEF RunEnd
<1>2. /\ FirstOf(I, Len(s) + 1) \in 1..(Len(s) + 1)
      /\ FirstOf(I, Len(s) + 1) # Len(s) + 1 => FirstOf(I, Len(s) + 1) \in I
  <2>1. I \subseteq 1..(Len(s) + 1) /\ Len(s) + 1 \in Nat \ {0} BY <1>0
  <2> HIDE DEF I
  <2> QED BY <2>1, FirstOfProps
<1>3. (\A i \in c..Len(s) : s[i].tick = t) => I = {} OBVIOUS
<1>4. \A i \in I : i >= c BY <1>0
<1> HIDE DEF I
<1> QED BY <1>0, <1>1, <1>2, <1>3, <1>4

\* undoUntil ends at a position of the list, and does find a state if there
\* is one that is not after t.
LEMMA UndoPosProps ==
  ASSUME NEW s \in Seq(Infos), NEW t \in Int
  PROVE  /\ UndoPos(s, t) \in 0..Len(s)
         /\ (\E i \in 1..Len(s) : IsState(s[i]) /\ s[i].tick <= t)
                => UndoPos(s, t) # 0
<1> DEFINE I == {i \in 1..Len(s) : IsState(s[i]) /\ s[i].tick <= t}
<1>0. Len(s) \in Nat OBVIOUS
<1>1. UndoPos(s, t) = LastOf(I) BY DEF UndoPos
<1>2. LastOf(I) \in 0..Len(s) /\ \A i \in I : i <= LastOf(I)
  <2>1. I \subseteq 1..Len(s) OBVIOUS
  <2> HIDE DEF I
  <2> QED BY <1>0, <2>1, LastOfProps
<1>3. ASSUME NEW i \in 1..Len(s), IsState(s[i]) /\ s[i].tick <= t
      PROVE  UndoPos(s, t) # 0
  <2>1. i \in I BY <1>3
  <2> HIDE DEF I
  <2> QED BY <1>0, <1>1, <1>2, <2>1
<1> HIDE DEF I
<1> QED BY <1>1, <1>2, <1>3

LEMMA RestoreEndType ==
  ASSUME NEW s \in Seq(Infos), NEW u \in 1..Len(s)
  PROVE  RestoreEnd(s, u) \in 1..(Len(s) + 1)
<1> DEFINE I == {i \in u..Len(s) : ~(IsState(s[i]) /\ s[i].tick = s[u].tick)}
<1>0. Len(s) \in Nat OBVIOUS
<1>1. RestoreEnd(s, u) = FirstOf(I, Len(s) + 1) BY DEF RestoreEnd
<1>2. I \subseteq 1..(Len(s) + 1) /\ Len(s) + 1 \in Nat \ {0} BY <1>0
<1>3. FirstOf(I, Len(s) + 1) \in 1..(Len(s) + 1)
  <2> HIDE DEF I
  <2> QED BY <1>2, FirstOfProps
<1> QED BY <1>1, <1>3

\* Erasing an element of the network list leaves the other ones.
LEMMA RemoveAtProps ==
  ASSUME NEW s \in Seq(Infos), NEW k \in 1..Len(s)
  PROVE  LET t == RemoveAt(s, k)
         IN /\ t \in Seq(Infos)
            /\ \A i \in 1..Len(t) : \E j \in 1..Len(s) : t[i] = s[j]
<1> DEFINE a == SubSeq(s, 1, k - 1)
           b == SubSeq(s, k + 1, Len(s))
           t == RemoveAt(s, k)
<1>0. Len(s) \in Nat OBVIOUS
<1>1. a \in Seq(Infos) /\ Len(a) = k - 1 /\ \A i \in 1..(k - 1) : a[i] = s[i]
  BY <1>0
<1>2. /\ b \in Seq(Infos) /\ Len(b) = Len(s) - k
      /\ \A i \in 1..(Len(s) - k) : b[i] = s[i + k]
  BY <1>0
<1>3. t = a \o b BY DEF RemoveAt
<1> HIDE DEF a, b, t
<1>4. t \in Seq(Infos) /\ Len(t) = Len(s) - 1 BY <1>0, <1>1, <1>2, <1>3
<1>5. ASSUME NEW i \in 1..Len(t) PROVE \E j \in 1..Len(s) : t[i] = s[j]
  <2>1. CASE i < k
    <3>1. t[i] = s[i] /\ i \in 1..Len(s) BY <1>0, <1>1, <1>2, <1>3, <1>4, <2>1
    <3> QED BY <3>1
  <2>2. CASE i >= k
    <3>1. t[i] = b[i - k + 1] /\ i - k + 1 \in 1..(Len(s) - k)
      BY <1>0, <1>1, <1>2, <1>3, <1>4, <2>2
    <3>2. t[i] = s[i + 1] /\ i + 1 \in 1..Len(s) BY <1>0, <1>2, <1>4, <3>1, <2>2
    <3> QED BY <3>2
  <2> QED BY <1>0, <1>4, <2>1, <2>2
<1> QED BY <1>4, <1>5 DEF t

-----------------------------------------------------------------------------
(* Type correctness                                                        *)

\* Merging a pending function keeps the types of the queue.
LEMMA MergePendingType ==
  ASSUME TypeOK, MergePending
  PROVE  q' \in Seq(Infos) /\ cur' \in 1..(Len(q') + 1) /\ pend' \in Seq(Infos)
<1>1. CASE pend = <<>> BY <1>1 DEF TypeOK, MergePending, queueVars
<1>2. CASE pend # <<>>
  <2>1. pend[1] \in Infos /\ q \in Seq(Infos) /\ cur \in 1..(Len(q) + 1)
    BY <1>2 DEF TypeOK
  <2>2. Insert(q, pend[1]) \in Seq(Infos) BY <2>1, InsertProps
  <2>3. CurAfterInsert(q, cur, pend[1]) \in 1..(Len(Insert(q, pend[1])) + 1)
    BY <2>1, CurAfterInsertType
  <2> QED BY <1>2, <2>2, <2>3 DEF MergePending
<1> QED BY <1>1, <1>2

\* Every step of the two threads keeps the types of the variables.
LEMMA TypeNext ==
  ASSUME ConstAssumption, TypeOK, [Next]_vars
  PROVE  TypeOK'
<1> USE DEF mergeVars, clockVars, kartVars, histVars, queueVars
<1>0. q \in Seq(Infos) /\ cur \in 1..(Len(q) + 1) BY DEF TypeOK
<1>1. ASSUME NEW r \in Infos, Receive(r), events' \in Nat, states' \in Nat
      PROVE  TypeOK'
  BY <1>1 DEF TypeOK, Receive
<1>2. CASE NetEvent
  <2>1. PICK t \in 0..MaxTick : Receive(EventInfo(t, events + 1))
    BY <1>2 DEF NetEvent
  <2>2. EventInfo(t, events + 1) \in Infos
    BY DEF EventInfo, Infos, TypeOK, ConstAssumption
  <2>3. events' \in Nat /\ states' \in Nat BY <1>2 DEF NetEvent, TypeOK
  <2> QED BY <1>1, <2>1, <2>2, <2>3
<1>3. CASE NetState
  <2>1. PICK t \in 0..now : Receive(StateInfo(t)) BY <1>3 DEF NetState
  <2>2. StateInfo(t) \in Infos BY DEF StateInfo, Infos, TypeOK
  <2>3. events' \in Nat /\ states' \in Nat BY <1>3 DEF NetState, TypeOK
  <2> QED BY <1>1, <2>1, <2>2, <2>3
<1>4. CASE LocalEvent
  <2>1. EventInfo(now, events + 1) \in Infos BY DEF EventInfo, Infos, TypeOK
  <2>2. q' \in Seq(Infos) BY <1>0, <1>4, <2>1, InsertProps DEF LocalEvent
  <2>3. cur' \in 1..(Len(q') + 1)
    BY <1>0, <1>4, <2>1, CurAfterInsertType DEF LocalEvent
  <2> QED BY <1>4, <2>2, <2>3 DEF LocalEvent, TypeOK
<1>5. CASE BeginStep
  <2>1. /\ q' \in Seq(Infos) /\ cur' \in 1..(Len(q') + 1)
        /\ pend' \in Seq(Infos)
    BY <1>5, MergePendingType DEF BeginStep
  <2>2. /\ lcs' \in {lcs, -1} /\ rewTo' \in {rewTo, -9999} /\ mi' \in {mi, 1}
        /\ pc' \in {"play", "merge"}
    BY <1>5 DEF BeginStep
  <2>4. needs' \in BOOLEAN
    <3>1. needs' = FALSE BY <1>5 DEF BeginStep
    <3> QED BY <3>1
  <2>3. lcs' \in Nat \cup {-1} /\ rewTo' \in Int /\ mi' \in Nat \ {0}
    BY <2>2 DEF TypeOK
  <2>5. UNCHANGED <<latest, net, now, wt, localSt, kartVars, base, saved,
                    events, states>>
        /\ ff' \in BOOLEAN
    BY <1>5 DEF BeginStep
  <2> QED BY <2>1, <2>2, <2>3, <2>4, <2>5 DEF TypeOK
<1>6. CASE MergeSkip BY <1>6 DEF MergeSkip, TypeOK
<1>7. ASSUME pc = "merge", mi <= Len(net) PROVE mi \in 1..Len(net)
  BY <1>7 DEF TypeOK
<1>8. CASE MergeDrop
  <2>1. net' \in Seq(Infos)
    BY <1>7, <1>8, RemoveAtProps DEF MergeDrop, TypeOK
  <2> QED BY <1>8, <2>1 DEF MergeDrop, TypeOK
<1>9. CASE MergeInsert
  <2> DEFINE r == Adjusted(net[mi])
  <2>1. net[mi] \in Infos BY <1>7, <1>9 DEF MergeInsert, TypeOK
  <2>2. r \in Infos
    <3>1. CASE IsServer
      <4>1. r = [net[mi] EXCEPT !.tick = now] BY <3>1 DEF Adjusted
      <4> QED BY <2>1, <4>1 DEF Infos, TypeOK
    <3>2. CASE ~IsServer BY <2>1, <3>2 DEF Adjusted
    <3> QED BY <3>1, <3>2
  <2>3. /\ q' = Insert(q, r)
        /\ cur' = CurAfterInsert(q, cur, r)
        /\ needs' \in BOOLEAN
        /\ rewTo' \in {r.tick, rewTo}
        /\ lcs' \in {r.tick, lcs}
        /\ net' = RemoveAt(net, mi)
    BY <1>9 DEF MergeInsert, TypeOK, TriggersRewind, IsState
  <2> HIDE DEF r
  <2>4. r.tick \in Nat BY <2>2 DEF Infos
  <2>5. rewTo' \in Int /\ lcs' \in Nat \cup {-1}
    BY <2>3, <2>4 DEF TypeOK
  <2>6. q' \in Seq(Infos) BY <1>0, <2>2, <2>3, InsertProps
  <2>7. cur' \in 1..(Len(q') + 1)
    BY <1>0, <2>2, <2>3, CurAfterInsertType
  <2>8. net' \in Seq(Infos) BY <1>7, <1>9, <2>3, RemoveAtProps DEF MergeInsert, TypeOK
  <2> QED BY <1>9, <2>3, <2>5, <2>6, <2>7, <2>8 DEF MergeInsert, TypeOK
<1>10. CleanupTick \in Nat
  <2> DEFINE a == IF lcs > latest THEN lcs ELSE 0
             b == IF IsServer THEN now ELSE 0
  <2>1. a \in Nat /\ b \in Nat BY DEF TypeOK
  <2>2. Max({a, b}) \in {a, b}
    <3> HIDE DEF a, b
    <3>1. \E x \in {a, b} : \A y \in {a, b} : x >= y BY <2>1
    <3> QED BY <3>1 DEF Max
  <2>3. CleanupTick = Max({a, b}) BY DEF CleanupTick
  <2> QED BY <2>1, <2>2, <2>3
<1>11. CASE MergeEnd
  <2> DEFINE k == FirstKept(q, CleanupTick)
  <2>1. /\ k \in 1..(Len(q) + 1) /\ SubSeq(q, k, Len(q)) \in Seq(Infos)
        /\ Len(SubSeq(q, k, Len(q))) = Len(q) - k + 1
    BY <1>0, <1>10, CleanupProps
  <2>2. q' = SubSeq(q, k, Len(q)) /\ cur' = IF cur < k THEN 1 ELSE cur - k + 1
    BY <1>11 DEF MergeEnd
  <2> HIDE DEF k
  <2>3. q' \in Seq(Infos) /\ cur' \in 1..(Len(q') + 1) BY <1>0, <2>1, <2>2
  <2>4. latest' \in Nat \cup {-1} BY <1>11 DEF MergeEnd, TypeOK
  <2>5. rewTo' \in Int
    BY <1>11, <2>4 DEF MergeEnd, TypeOK
  <2>6. needs' \in BOOLEAN /\ pc' \in {"undo", "play"}
    BY <1>11 DEF MergeEnd, TypeOK
  <2> QED BY <1>11, <2>3, <2>4, <2>5, <2>6 DEF MergeEnd, TypeOK
<1>12. CASE Undo
  <2> DEFINE u == UndoPos(q, rewTo)
  <2>0. rewTo \in Int BY DEF TypeOK
  <2>1. u \in 1..Len(q)
    BY <1>0, <1>12, <2>0, UndoPosProps DEF Undo
  <2>2. q[u].tick \in Nat BY <1>0, <2>1, InfoTicks
  <2>3. cur' \in 1..(Len(q') + 1) /\ base' \in Nat /\ wt' \in Nat
    BY <1>0, <1>12, <2>1, <2>2, RestoreEndType DEF Undo
  <2>4. localSt' \in SUBSET Nat
    <3>1. localSt \subseteq Nat BY DEF TypeOK
    <3>2. localSt' \subseteq localSt BY <1>12 DEF Undo, KeptLocal
    <3> QED BY <3>1, <3>2
  <2>5. endCtrl' \in BOOLEAN BY <1>12 DEF Undo, TypeOK
  <2> QED BY <1>12, <2>3, <2>4, <2>5 DEF Undo, TypeOK
<1>13. ASSUME NEW t \in Nat, Replay(t) PROVE cur' \in 1..(Len(q) + 1)
  BY <1>0, <1>13, RunEndProps DEF Replay
<1>a. ASSUME NEW t \in Nat, NEW isEnd \in BOOLEAN, NEW isSaved \in BOOLEAN,
             UpdateKart(t, isEnd, isSaved)
      PROVE  endCtrl' \in BOOLEAN /\ hasSaved' \in BOOLEAN /\ check' \in Nat \cup {-1}
  BY <1>a DEF UpdateKart, TypeOK
<1>14. CASE ReplayTick
  <2>1. cur' \in 1..(Len(q) + 1) BY <1>13, <1>14 DEF ReplayTick, TypeOK
  <2>2. endCtrl' \in BOOLEAN /\ hasSaved' \in BOOLEAN /\ check' \in Nat \cup {-1}
    <3>1. wt \in Nat BY DEF TypeOK
    <3>2. UpdateKart(wt, endCtrl \/ Resumed(wt) # {}, hasSaved \/ Resumed(wt) # {})
      BY <1>14 DEF ReplayTick
    <3> QED BY <1>a, <3>1, <3>2
  <2>3. stale' \in BOOLEAN BY <1>14 DEF ReplayTick
  <2> QED BY <1>14, <2>1, <2>2, <2>3 DEF ReplayTick, TypeOK
<1>15. CASE EndRewind
  <2>1. /\ q' \in Seq(Infos) /\ cur' \in 1..(Len(q') + 1)
        /\ pend' \in Seq(Infos)
    BY <1>15, MergePendingType DEF EndRewind
  <2> QED BY <1>15, <2>1 DEF EndRewind, TypeOK
<1>16. CASE Play
  <2>1. cur' \in 1..(Len(q) + 1) BY <1>0, <1>13, <1>16 DEF Play, TypeOK
  <2>2. endCtrl' \in BOOLEAN /\ hasSaved' \in BOOLEAN /\ stale' \in BOOLEAN
    BY <1>16 DEF Play, TypeOK
  <2> QED BY <1>16, <2>1, <2>2 DEF Play, TypeOK
<1>17. ASSUME Simulate PROVE TypeOK'
  <2> DEFINE r == FuncInfo(now, crossed + 1)
  <2>1. r \in Infos BY DEF FuncInfo, Infos, TypeOK
  <2> HIDE DEF r
  <2>2. pend' \in Seq(Infos)
    <3>1. pend \in Seq(Infos) BY DEF TypeOK
    <3>2. Append(pend, r) \in Seq(Infos) BY <2>1, <3>1
    <3>3. pend' = pend \/ pend' = Append(pend, r)
      BY <1>17 DEF Simulate, Drive, CrossFinish, r
    <3> QED BY <3>1, <3>2, <3>3
  <2>3. localSt' \in SUBSET Nat /\ saved' \in SUBSET Nat
    BY <1>17 DEF Simulate, SaveLocalState, TypeOK
  <2>4. /\ endCtrl' \in BOOLEAN /\ hasSaved' \in BOOLEAN /\ check' \in Nat \cup {-1}
        /\ crossed' \in Nat
    <3>1. CASE Drive
      <4>1. now \in Nat /\ endCtrl \in BOOLEAN /\ hasSaved \in BOOLEAN /\ crossed' \in Nat
        BY <3>1 DEF TypeOK, Drive
      <4> QED BY <1>a, <3>1, <4>1 DEF Drive
    <3>2. CASE CrossFinish
      <4>1. endCtrl' = TRUE /\ hasSaved' = TRUE BY <3>2 DEF CrossFinish
      <4>2. check' \in Nat /\ crossed' \in Nat
        BY <3>2, ConstAssumption DEF CrossFinish, TypeOK
      <4> QED BY <4>1, <4>2
    <3> QED BY <1>17, <3>1, <3>2 DEF Simulate
  <2>5. ff' \in BOOLEAN
    <3>1. ff' = FALSE BY <1>17 DEF Simulate
    <3> QED BY <3>1
  <2> QED BY <1>17, <2>2, <2>3, <2>4, <2>5 DEF Simulate, TypeOK
<1>19. CASE ServerFinish
  <2>1. endCtrl' \in BOOLEAN /\ hasSaved' \in BOOLEAN /\ finished' \in BOOLEAN
    <3>1. finished' = TRUE /\ hasSaved' = TRUE BY <1>19 DEF ServerFinish
    <3>2. endCtrl' \in BOOLEAN BY <1>19 DEF ServerFinish
    <3> QED BY <3>1, <3>2
  <2> QED BY <1>19, <2>1 DEF ServerFinish, TypeOK
<1>18. CASE UNCHANGED vars BY <1>18 DEF vars, TypeOK
<1> QED
  BY <1>2, <1>3, <1>4, <1>5, <1>6, <1>8, <1>9, <1>11, <1>12, <1>14, <1>15,
     <1>16, <1>17, <1>18, <1>19 DEF Next, MainThread

LEMMA TypeInit == ASSUME Init PROVE TypeOK
<1>1. <<>> \in Seq(Infos) /\ {} \in SUBSET Nat OBVIOUS
<1>2. Len(<<>>) = 0 OBVIOUS
<1>3. -1 \in Nat \cup {-1} /\ -9999 \in Int OBVIOUS
<1>4. q \in Seq(Infos) /\ cur \in 1..(Len(q) + 1) /\ net \in Seq(Infos)
      /\ pend \in Seq(Infos) BY <1>1, <1>2 DEF Init
<1>5. latest \in Nat \cup {-1} /\ lcs \in Nat \cup {-1} /\ rewTo \in Int
      /\ base \in Nat \cup {-1}
  BY <1>3 DEF Init
<1>6. localSt \in SUBSET Nat /\ saved \in SUBSET Nat BY <1>1 DEF Init
<1>7. /\ now \in Nat /\ wt \in Nat /\ mi \in Nat \ {0}
      /\ pc \in {"idle", "merge", "undo", "replay", "play", "sim"}
      /\ events \in Nat /\ states \in Nat
  BY DEF Init
<1>8. /\ needs \in BOOLEAN /\ ff \in BOOLEAN /\ endCtrl \in BOOLEAN /\ hasSaved \in BOOLEAN
      /\ finished \in BOOLEAN /\ stale \in BOOLEAN
      /\ check \in Nat \cup {-1} /\ crossed \in Nat
  <2>1. /\ needs = FALSE /\ ff = FALSE /\ endCtrl = FALSE /\ hasSaved = FALSE
        /\ finished = FALSE /\ stale = FALSE /\ check = 0 /\ crossed = 0
    BY DEF Init
  <2> QED BY <2>1
<1> QED BY <1>4, <1>5, <1>6, <1>7, <1>8 DEF TypeOK

\* Every variable keeps its type, for all bounds, on clients and servers.
THEOREM TypeCorrect == Spec => []TypeOK
<1>1. Init => TypeOK BY TypeInit
<1>2. TypeOK /\ [Next]_vars => TypeOK' BY TypeNext, ConstAssumption
<1> QED BY <1>1, <1>2, PTL DEF Spec

-----------------------------------------------------------------------------
(* The inductive invariant                                                 *)

\* A step leaves the queue alone, inserts one info that is not older than the
\* confirmed state, or is the end of a merge and cuts off a prefix.
LEMMA QueueStep ==
  ASSUME ConstAssumption, IInv, Next, ~MergeEnd
  PROVE  /\ latest' = latest
         /\ \/ q' = q
            \/ \E r \in Infos : q' = Insert(q, r) /\ r.tick >= latest
<1> USE DEF mergeVars, clockVars, kartVars, histVars, queueVars
<1>1. TypeOK /\ ConfirmedHeld BY DEF IInv
<1>2. latest <= now /\ latest \in Int /\ now \in Nat BY <1>1 DEF ConfirmedHeld, TypeOK
<1>3. ASSUME MergePending
      PROVE  q' = q \/ \E r \in Infos : q' = Insert(q, r) /\ r.tick >= latest
  <2>1. CASE pend = <<>> BY <1>3, <2>1 DEF MergePending
  <2>2. CASE pend # <<>>
    <3>1. pend[1] \in Infos /\ pend[1].tick >= latest
      BY <1>1, <2>2 DEF TypeOK, ConfirmedHeld
    <3> QED BY <1>3, <2>2, <3>1 DEF MergePending
  <2> QED BY <2>1, <2>2
<1>4. CASE NetEvent BY <1>4 DEF NetEvent, Receive
<1>5. CASE NetState BY <1>5 DEF NetState, Receive
<1>6. CASE LocalEvent
  <2>1. EventInfo(now, events + 1) \in Infos /\ EventInfo(now, events + 1).tick = now
    BY <1>1 DEF EventInfo, Infos, TypeOK
  <2> QED BY <1>2, <1>6, <2>1 DEF LocalEvent
<1>7. CASE BeginStep BY <1>3, <1>7 DEF BeginStep
<1>8. CASE MergeSkip BY <1>8 DEF MergeSkip
<1>9. CASE MergeDrop BY <1>9 DEF MergeDrop
<1>10. CASE MergeInsert
  <2>1. net[mi] \in Infos BY <1>1, <1>10 DEF MergeInsert, TypeOK
  <2>2. net[mi].tick >= latest BY <1>2, <1>10, <2>1 DEF MergeInsert, TooOld, Infos
  <2>3. Adjusted(net[mi]) \in Infos /\ Adjusted(net[mi]).tick >= latest
    <3>1. CASE IsServer
      <4>1. Adjusted(net[mi]) = [net[mi] EXCEPT !.tick = now]
        BY <3>1 DEF Adjusted
      <4> QED BY <1>2, <2>1, <4>1 DEF Infos
    <3>2. CASE ~IsServer BY <2>1, <2>2, <3>2 DEF Adjusted
    <3> QED BY <3>1, <3>2
  <2> QED BY <1>10, <2>3 DEF MergeInsert
<1>11. CASE Undo BY <1>11 DEF Undo
<1>12. CASE ReplayTick BY <1>12 DEF ReplayTick
<1>13. CASE EndRewind BY <1>3, <1>13 DEF EndRewind
<1>14. CASE Play BY <1>14 DEF Play
<1>15. CASE Simulate BY <1>15 DEF Simulate
<1>16. CASE ServerFinish BY <1>16 DEF ServerFinish
<1> QED
  BY <1>4, <1>5, <1>6, <1>7, <1>8, <1>9, <1>10, <1>11, <1>12, <1>13, <1>14,
     <1>15, <1>16 DEF Next, MainThread

\* What the clean-up at the end of a merge is based on.
LEMMA CleanupTickProps ==
  ASSUME ConstAssumption, TypeOK
  PROVE  /\ CleanupTick \in Nat
         /\ lcs > latest /\ ~IsServer => CleanupTick = lcs
         /\ ~(lcs > latest) /\ ~IsServer => CleanupTick = 0
<1> DEFINE a == IF lcs > latest THEN lcs ELSE 0
           b == IF IsServer THEN now ELSE 0
<1>1. a \in Nat /\ b \in Nat BY DEF TypeOK
<1>2. Max({a, b}) \in {a, b} /\ Max({a, b}) >= a /\ Max({a, b}) >= b
  <2> HIDE DEF a, b
  <2>1. \E x \in {a, b} : \A y \in {a, b} : x >= y BY <1>1
  <2> QED BY <2>1 DEF Max
<1>3. CleanupTick = Max({a, b}) BY DEF CleanupTick
<1>4. ~IsServer => CleanupTick = a
  <2>1. ~IsServer => b = 0 OBVIOUS
  <2> HIDE DEF a, b
  <2> QED BY <1>1, <1>2, <1>3, <2>1
<1>5. CleanupTick \in Nat
  <2> HIDE DEF a, b
  <2> QED BY <1>1, <1>2, <1>3
<1> QED BY <1>4, <1>5

\* The state a merge has found survives the clean-up that follows.
LEMMA CleanupKeepsState ==
  ASSUME NEW s \in Seq(Infos), NEW t \in Nat, NEW x \in Nat, t <= x, HasState(s, x)
  PROVE  HasState(SubSeq(s, FirstKept(s, t), Len(s)), x)
<1> DEFINE k == FirstKept(s, t)
           u == SubSeq(s, k, Len(s))
<1>1. PICK i \in 1..Len(s) : IsState(s[i]) /\ s[i].tick = x BY DEF HasState
<1>2. /\ k \in 1..(Len(s) + 1) /\ Len(u) = Len(s) - k + 1
      /\ \A j \in 1..Len(u) : u[j] = s[j + k - 1]
      /\ \A j \in 1..Len(s) : s[j].tick >= t => k <= j
  BY CleanupProps
<1> HIDE DEF k, u
<1>3. k <= i BY <1>1, <1>2
<1>4. i - k + 1 \in 1..Len(u) BY <1>2, <1>3
<1>5. u[i - k + 1] = s[i] BY <1>2, <1>4
<1> QED BY <1>1, <1>4, <1>5 DEF HasState, k, u

LEMMA InsertKeepsState ==
  ASSUME NEW s \in Seq(Infos), NEW r \in Infos, NEW x
  PROVE  /\ HasState(s, x) => HasState(Insert(s, r), x)
         /\ IsState(r) => HasState(Insert(s, r), r.tick)
<1> DEFINE t == Insert(s, r)
<1>1. /\ \A j \in 1..Len(s) : \E i \in 1..Len(t) : t[i] = s[j]
      /\ \E i \in 1..Len(t) : t[i] = r
  BY InsertElements
<1> HIDE DEF t
<1>2. ASSUME HasState(s, x) PROVE HasState(t, x)
  <2>1. PICK j \in 1..Len(s) : IsState(s[j]) /\ s[j].tick = x
    BY <1>2 DEF HasState
  <2>2. PICK i \in 1..Len(t) : t[i] = s[j] BY <1>1
  <2> QED BY <2>1, <2>2 DEF HasState
<1>3. ASSUME IsState(r) PROVE HasState(t, r.tick)
  BY <1>1, <1>3 DEF HasState
<1> QED BY <1>2, <1>3 DEF t

\* The end of a merge in terms of what it found.
LEMMA MergeEndProps ==
  ASSUME ConstAssumption, IInv, MergeEnd
  PROVE  /\ latest' <= now /\ latest' >= latest /\ latest' \in Int
         /\ Sorted' /\ \A i \in 1..Len(q') : q'[i].tick >= latest'
         /\ latest' >= 0 => HasState(q', latest')
         /\ pc' = "undo" => ~IsServer /\ latest' >= 0 /\ rewTo' = latest'
<1>0. /\ TypeOK /\ Sorted /\ ConfirmedHeld /\ MergeFound /\ ServerQueue
      /\ pc = "merge"
  BY DEF IInv, MergeEnd
<1>1. /\ q \in Seq(Infos) /\ latest \in Nat \cup {-1} /\ lcs \in Nat \cup {-1}
      /\ now \in Nat
  BY <1>0 DEF TypeOK
<1>2. latest' = IF lcs > latest THEN lcs ELSE latest BY DEF MergeEnd
<1>3. lcs > latest => needs
  <2>1. lcs > latest => lcs # -1 BY <1>1
  <2> QED BY <1>0, <2>1 DEF MergeFound
<1>4. /\ needs => latest <= lcs /\ lcs <= now /\ lcs # -1 /\ rewTo = lcs
      /\ needs => HasState(q, lcs)
  BY <1>0 DEF MergeFound
<1>5. latest' <= now /\ latest' >= latest /\ latest' \in Nat \cup {-1}
  BY <1>0, <1>1, <1>2, <1>3, <1>4 DEF ConfirmedHeld
<1>6. /\ CleanupTick \in Nat
      /\ lcs > latest /\ ~IsServer => CleanupTick = lcs
      /\ ~(lcs > latest) /\ ~IsServer => CleanupTick = 0
  BY <1>0, CleanupTickProps
<1>7. q' = SubSeq(q, FirstKept(q, CleanupTick), Len(q)) BY DEF MergeEnd
<1>8. SortedSeq(q') /\ \A i \in 1..Len(q') : q'[i].tick >= CleanupTick
  BY <1>0, <1>1, <1>6, <1>7, CleanupSorted DEF Sorted
<1>9. /\ q' \in Seq(Infos)
      /\ \A i \in 1..Len(q') : \E j \in 1..Len(q) : q'[i] = q[j]
  <2> DEFINE k == FirstKept(q, CleanupTick)
  <2>1. /\ k \in 1..(Len(q) + 1) /\ q' \in Seq(Infos) /\ Len(q') = Len(q) - k + 1
        /\ \A i \in 1..Len(q') : q'[i] = q[i + k - 1]
    <3>1. q \in Seq(Infos) /\ CleanupTick \in Nat /\ q' = SubSeq(q, k, Len(q))
      BY <1>1, <1>6, <1>7
    <3>2. /\ k \in 1..(Len(q) + 1) /\ SubSeq(q, k, Len(q)) \in Seq(Infos)
          /\ Len(SubSeq(q, k, Len(q))) = Len(q) - k + 1
          /\ \A i \in 1..Len(SubSeq(q, k, Len(q))) :
                SubSeq(q, k, Len(q))[i] = q[i + k - 1]
      BY <3>1, CleanupProps
    <3> HIDE DEF k
    <3> QED BY <3>1, <3>2
  <2> HIDE DEF k
  <2>2. ASSUME NEW i \in 1..Len(q') PROVE \E j \in 1..Len(q) : q'[i] = q[j]
    <3>1. i + k - 1 \in 1..Len(q) BY <1>1, <2>1
    <3> QED BY <2>1, <3>1
  <2> QED BY <2>1, <2>2
<1>10. ASSUME NEW i \in 1..Len(q') PROVE q'[i].tick >= latest'
  <2>1. q'[i].tick >= latest BY <1>0, <1>9 DEF ConfirmedHeld
  <2>2. q'[i].tick \in Nat BY <1>9, InfoTicks
  <2>3. CASE lcs > latest
    <3>1. ~IsServer BY <1>0, <1>1, <2>3 DEF ServerQueue
    <3> QED BY <1>2, <1>6, <1>8, <2>3, <3>1
  <2>4. CASE ~(lcs > latest) BY <1>2, <2>1, <2>4
  <2> QED BY <2>3, <2>4
<1>11. ASSUME latest' >= 0 PROVE HasState(q', latest')
  <2>1. ~IsServer
    <3>1. IsServer => latest = -1 /\ lcs = -1 BY <1>0 DEF ServerQueue
    <3> QED BY <1>2, <1>11, <3>1
  <2>2. HasState(q, latest') /\ CleanupTick <= latest' /\ latest' \in Nat
    <3>1. CASE lcs > latest BY <1>1, <1>2, <1>3, <1>4, <1>6, <2>1, <3>1
    <3>2. CASE ~(lcs > latest)
      BY <1>0, <1>1, <1>2, <1>6, <1>11, <2>1, <3>2 DEF ConfirmedHeld
    <3> QED BY <3>1, <3>2
  <2> QED BY <1>1, <1>6, <1>7, <2>2, CleanupKeepsState
<1>12. ASSUME pc' = "undo" PROVE ~IsServer /\ latest' >= 0 /\ rewTo' = latest'
  <2>1. needs
    BY <1>12 DEF MergeEnd
  <2>2. ~IsServer BY <1>0, <1>4, <2>1 DEF ServerQueue
  <2>3. latest' = lcs /\ rewTo = lcs BY <1>1, <1>2, <1>4, <2>1
  <2>4. lcs >= 0 BY <1>1, <1>4, <2>1
  <2>5. ~(rewTo < latest') BY <1>1, <2>3
  <2>6. rewTo' = rewTo BY <2>5 DEF MergeEnd
  <2> QED BY <2>2, <2>3, <2>4, <2>6
<1>13. latest' \in Int BY <1>5
<1> QED BY <1>5, <1>8, <1>10, <1>11, <1>12, <1>13 DEF Sorted

\* The parts of the invariant that concern the queue and the confirmed state.
LEMMA ConfirmedNext ==
  ASSUME ConstAssumption, IInv, [Next]_vars
  PROVE  Sorted' /\ ConfirmedHeld'
<1> USE DEF mergeVars, clockVars, kartVars, histVars, queueVars
<1>0. TypeOK /\ Sorted /\ ConfirmedHeld BY DEF IInv
<1>1. CASE UNCHANGED vars
  BY <1>0, <1>1 DEF vars, Sorted, ConfirmedHeld
<1>2. CASE MergeEnd
  <2>1. pend = <<>> BY <1>0, <1>2 DEF ConfirmedHeld, MergeEnd
  <2>2. pend' = pend /\ now' = now BY <1>2 DEF MergeEnd
  <2> QED BY <1>2, <2>1, <2>2, MergeEndProps DEF ConfirmedHeld
<1>3. CASE Next /\ ~MergeEnd
  <2>1. /\ latest' = latest
        /\ q' = q \/ \E r \in Infos : q' = Insert(q, r) /\ r.tick >= latest
    BY <1>3, QueueStep
  <2>2. q \in Seq(Infos) /\ latest \in Int /\ now \in Nat BY <1>0 DEF TypeOK
  <2>3. Sorted' BY <1>0, <2>1, <2>2, InsertSorted DEF Sorted
  <2>4. \A i \in 1..Len(q') : q'[i].tick >= latest'
    <3>1. CASE q' = q BY <1>0, <2>1, <3>1 DEF ConfirmedHeld
    <3>2. ASSUME NEW r \in Infos, q' = Insert(q, r), r.tick >= latest
          PROVE  \A i \in 1..Len(q') : q'[i].tick >= latest'
      <4>1. \A i \in 1..Len(q') : q'[i] = r \/ \E j \in 1..Len(q) : q'[i] = q[j]
        BY <2>2, <3>2, InsertElements
      <4>2. \A j \in 1..Len(q) : q[j].tick >= latest BY <1>0 DEF ConfirmedHeld
      <4> QED BY <2>1, <3>2, <4>1, <4>2
    <3> QED BY <2>1, <3>1, <3>2
  <2>5. latest' >= 0 => HasState(q', latest')
    <3>1. CASE q' = q BY <1>0, <2>1, <3>1 DEF ConfirmedHeld
    <3>2. ASSUME NEW r \in Infos, q' = Insert(q, r)
          PROVE  latest' >= 0 => HasState(q', latest')
      BY <1>0, <2>1, <2>2, <3>2, InsertKeepsState DEF ConfirmedHeld
    <3> QED BY <2>1, <3>1, <3>2
  <2>6. CASE Simulate
    <3>1. now' = now + 1 /\ pc' = "idle" BY <2>6 DEF Simulate, SaveLocalState, Drive, CrossFinish
    <3>2. pend = <<>> BY <1>0, <2>6 DEF ConfirmedHeld, Simulate, SaveLocalState, Drive, CrossFinish
    <3>3. pend' # <<>> => pend'[1].tick = now
      BY <2>6, <3>2 DEF Simulate, SaveLocalState, Drive, CrossFinish, FuncInfo
    <3> QED
      BY <1>0, <2>1, <2>2, <2>3, <2>4, <2>5, <3>1, <3>3 DEF ConfirmedHeld
  <2>7. CASE ~Simulate
    <3>1. now' = now
      BY <1>3, <2>7 DEF Next, MainThread, NetEvent, NetState, LocalEvent,
         ServerFinish, Receive, BeginStep, MergeSkip, MergeDrop, MergeInsert, Undo,
         ReplayTick, EndRewind, Play
    <3>2. pend' # <<>> => pend' = pend /\ pc' = pc
      BY <1>0, <1>3, <2>7 DEF Next, MainThread, NetEvent, NetState, LocalEvent,
         ServerFinish, Receive, BeginStep, MergeSkip, MergeDrop, MergeInsert, Undo,
         ReplayTick, EndRewind, Play, MergePending, ConfirmedHeld
    <3> QED
      BY <1>0, <2>1, <2>2, <2>3, <2>4, <2>5, <3>1, <3>2 DEF ConfirmedHeld
  <2> QED BY <2>6, <2>7
<1> QED BY <1>1, <1>2, <1>3

\* What the loop of a merge finds is in the queue.
LEMMA MergeNext ==
  ASSUME ConstAssumption, IInv, [Next]_vars
  PROVE  MergeFound' /\ RewindTarget'
<1> USE DEF mergeVars, clockVars, kartVars, histVars, queueVars
<1>0. /\ TypeOK /\ ConfirmedHeld /\ MergeFound /\ RewindTarget /\ ServerQueue
      /\ q \in Seq(Infos)
  BY DEF IInv, TypeOK
<1>1. CASE UNCHANGED vars
  BY <1>0, <1>1 DEF vars, MergeFound, RewindTarget
<1>2. CASE MergeEnd
  <2>1. pc' # "merge" BY <1>2 DEF MergeEnd
  <2> QED BY <1>2, <2>1, MergeEndProps DEF MergeFound, RewindTarget
<1>3. CASE BeginStep
  <2>1. pc' # "undo" BY <1>3 DEF BeginStep
  <2>2. pc' = "merge" => ~needs' /\ lcs' = -1 /\ rewTo' = -9999
    BY <1>3 DEF BeginStep
  <2> QED BY <2>1, <2>2 DEF MergeFound, RewindTarget
<1>4. CASE MergeInsert
  <2> DEFINE r == Adjusted(net[mi])
  <2>0. /\ mi \in 1..Len(net) /\ net[mi] \in Infos /\ net[mi].tick \in Nat
        /\ net[mi].tick <= now /\ net[mi].tick >= latest /\ pc = "merge"
        /\ latest \in Int /\ lcs \in Int /\ now \in Nat
    <3>1. mi \in 1..Len(net) /\ net \in Seq(Infos) /\ pc = "merge"
      BY <1>0, <1>4 DEF MergeInsert, TypeOK
    <3>2. net[mi] \in Infos /\ net[mi].tick \in Nat BY <3>1, InfoTicks
    <3>3. latest \in Int /\ lcs \in Int /\ now \in Nat BY <1>0 DEF TypeOK
    <3>4. net[mi].tick <= now /\ ~(net[mi].tick < latest)
      BY <1>4 DEF MergeInsert, TooOld
    <3> QED BY <3>1, <3>2, <3>3, <3>4
  <2>1. /\ q' = Insert(q, r)
        /\ needs' <=> needs \/ TriggersRewind(r)
        /\ rewTo' = IF TriggersRewind(r) /\ r.tick > rewTo THEN r.tick ELSE rewTo
        /\ lcs' = IF IsState(r) /\ r.tick > lcs THEN r.tick ELSE lcs
        /\ latest' = latest /\ now' = now /\ pc' = "merge"
    BY <1>4, <2>0 DEF MergeInsert
  <2>2. r \in Infos
    <3>1. CASE IsServer
      <4>1. r = [net[mi] EXCEPT !.tick = now] BY <3>1 DEF Adjusted
      <4> QED BY <2>0, <4>1 DEF Infos
    <3>2. CASE ~IsServer BY <2>0, <3>2 DEF Adjusted
    <3> QED BY <3>1, <3>2
  <2>3. IsState(r) => ~IsServer /\ r = net[mi]
    <3>1. ASSUME IsServer PROVE ~IsState(r)
      <4>1. r = [net[mi] EXCEPT !.tick = now] BY <3>1 DEF Adjusted
      <4>2. ~IsState(net[mi]) BY <1>0, <2>0, <3>1 DEF ServerQueue
      <4> QED BY <2>0, <4>1, <4>2 DEF IsState, Infos
    <3> QED BY <3>1 DEF Adjusted
  <2> HIDE DEF r
  <2>4. /\ needs <=> lcs # -1
        /\ rewTo = IF needs THEN lcs ELSE -9999
        /\ needs => latest <= lcs /\ lcs <= now
        /\ needs => HasState(q, lcs)
    BY <1>0, <2>0 DEF MergeFound
  <2>5. \A x : HasState(q, x) => HasState(q', x)
    BY <1>0, <2>1, <2>2, InsertKeepsState
  <2>6. CASE IsState(r)
    <3>1. TriggersRewind(r) /\ r.tick \in Nat /\ r.tick >= latest /\ r.tick <= now
      BY <2>0, <2>3, <2>6 DEF TriggersRewind
    <3>2. HasState(q', r.tick) BY <1>0, <2>1, <2>2, <2>6, InsertKeepsState
    <3>3. lcs >= -1 BY <1>0 DEF TypeOK
    <3>4. CASE r.tick > lcs
      <4>1. needs' /\ lcs' = r.tick BY <2>1, <2>6, <3>1, <3>4
      <4>2. rewTo' = r.tick BY <2>1, <2>4, <3>1, <3>4
      <4> QED BY <2>1, <3>1, <3>2, <4>1, <4>2 DEF MergeFound, RewindTarget
    <3>5. CASE ~(r.tick > lcs)
      <4>1. lcs # -1 BY <3>1, <3>3, <3>5
      <4>2. needs BY <2>4, <4>1
      <4>3. needs' /\ lcs' = lcs /\ rewTo' = lcs /\ rewTo = lcs
        BY <2>0, <2>1, <2>4, <3>1, <3>5, <4>2
      <4> QED BY <2>1, <2>4, <2>5, <4>1, <4>2, <4>3 DEF MergeFound, RewindTarget
    <3> QED BY <3>4, <3>5
  <2>7. CASE ~IsState(r)
    <3>1. (needs' <=> needs) /\ rewTo' = rewTo /\ lcs' = lcs
      BY <2>1, <2>7 DEF TriggersRewind
    <3> QED BY <2>1, <2>4, <2>5, <3>1 DEF MergeFound, RewindTarget
  <2> QED BY <2>6, <2>7
<1>5. CASE MergeSkip BY <1>0, <1>5 DEF MergeSkip, MergeFound, RewindTarget
<1>6. CASE MergeDrop BY <1>0, <1>6 DEF MergeDrop, MergeFound, RewindTarget
<1>7. CASE NetEvent
  BY <1>0, <1>7 DEF NetEvent, Receive, MergeFound, RewindTarget
<1>8. CASE NetState
  BY <1>0, <1>8 DEF NetState, Receive, MergeFound, RewindTarget
<1>9. CASE LocalEvent \/ ServerFinish \/ Undo \/ ReplayTick \/ EndRewind \/ Play
           \/ Simulate
  <2>1. pc' \notin {"merge", "undo"}
    BY <1>9 DEF LocalEvent, ServerFinish, Undo, ReplayTick, EndRewind, Play, Simulate
  <2> QED BY <2>1 DEF MergeFound, RewindTarget
<1> QED
  BY <1>1, <1>2, <1>3, <1>4, <1>5, <1>6, <1>7, <1>8, <1>9 DEF Next, MainThread

\* On a server every info the queue gets belongs to the current tick, so the
\* replay of that tick empties it.
LEMMA ServerNext ==
  ASSUME ConstAssumption, IInv, [Next]_vars
  PROVE  ServerQueue'
<1> USE DEF mergeVars, clockVars, kartVars, histVars, queueVars
<1> SUFFICES ASSUME IsServer PROVE ServerQueue'
  BY DEF ServerQueue
<1>0. /\ q \in Seq(Infos) /\ cur \in 1..(Len(q) + 1) /\ net \in Seq(Infos)
      /\ now \in Nat /\ mi \in Nat \ {0} /\ MergeFound /\ RewindTarget
  BY DEF IInv, TypeOK
<1>s. /\ latest = -1 /\ lcs = -1 /\ pend = <<>> /\ pc # "replay"
      /\ \A i \in 1..Len(net) : ~IsState(net[i])
      /\ \A i \in 1..Len(q) : q[i].tick <= now
      /\ pc \in {"merge", "play"} => \A i \in cur..Len(q) : q[i].tick = now
      /\ pc \in {"idle", "sim"} => cur = Len(q) + 1
  BY DEF IInv, ServerQueue
<1>1. CASE UNCHANGED vars BY <1>1, <1>s DEF vars, ServerQueue
<1>2. CASE NetEvent
  <2>1. PICK t \in 0..MaxTick : Receive(EventInfo(t, events + 1))
    BY <1>2 DEF NetEvent
  <2>2. net' = Append(net, EventInfo(t, events + 1)) BY <2>1 DEF Receive
  <2>3. ~IsState(EventInfo(t, events + 1)) BY DEF EventInfo, IsState
  <2>4. \A i \in 1..Len(net') : ~IsState(net'[i]) BY <1>0, <1>s, <2>2, <2>3
  <2> QED BY <1>s, <2>1, <2>4 DEF Receive, ServerQueue
<1>3. ~NetState /\ ~LocalEvent /\ ~Undo /\ ~ReplayTick /\ ~EndRewind
  BY <1>0, <1>s DEF NetState, LocalEvent, Undo, ReplayTick, EndRewind,
     RewindTarget
<1>4. CASE BeginStep
  <2>1. /\ cur = Len(q) + 1 /\ UNCHANGED <<q, cur, latest, net, now>>
        /\ pend' = <<>> /\ pc' \in {"merge", "play"} /\ lcs' = -1
    BY <1>4, <1>s DEF BeginStep, MergePending
  <2> QED BY <1>0, <1>s, <2>1 DEF ServerQueue
<1>5. CASE MergeSkip BY <1>5, <1>s DEF MergeSkip, ServerQueue
<1>6. CASE MergeDrop
  <2>1. mi \in 1..Len(net) BY <1>0, <1>6 DEF MergeDrop
  <2>2. net[mi].tick < -1 BY <1>6, <1>s DEF MergeDrop, TooOld
  <2>3. net[mi].tick \in Nat BY <1>0, <2>1, InfoTicks
  <2> QED BY <2>2, <2>3
<1>7. CASE MergeInsert
  <2> DEFINE r == Adjusted(net[mi])
             p == InsertPos(q, r)
  <2>1. mi \in 1..Len(net) /\ net[mi] \in Infos BY <1>0, <1>7 DEF MergeInsert
  <2>2. r \in Infos /\ r.tick = now /\ ~IsState(r)
    <3>1. r = [net[mi] EXCEPT !.tick = now] BY DEF Adjusted
    <3>2. ~IsState(net[mi]) BY <1>s, <2>1
    <3> QED BY <1>0, <2>1, <3>1, <3>2 DEF Infos, IsState
  <2>3. /\ q' = Insert(q, r) /\ cur' = CurAfterInsert(q, cur, r)
        /\ lcs' = lcs /\ net' = RemoveAt(net, mi)
        /\ UNCHANGED <<latest, pend, pc, now>> /\ pc = "merge"
    BY <1>7, <2>2 DEF MergeInsert
  <2>4. \A i \in 1..Len(net') : \E j \in 1..Len(net) : net'[i] = net[j]
    BY <1>0, <2>1, <2>3, RemoveAtProps
  <2> HIDE DEF r
  <2>5. /\ p \in 1..(Len(q) + 1) /\ Len(q') = Len(q) + 1
        /\ \A i \in p..Len(q) : ~StopsSearch(q[i], r)
        /\ \A i \in 1..(p - 1) : q'[i] = q[i]
        /\ q'[p] = r
    <3>1. q \in Seq(Infos) /\ r \in Infos /\ q' = Insert(q, r)
      BY <1>0, <2>2, <2>3
    <3>2. /\ p \in 1..(Len(q) + 1) /\ Len(Insert(q, r)) = Len(q) + 1
          /\ \A i \in p..Len(q) : ~StopsSearch(q[i], r)
          /\ \A i \in 1..(p - 1) : Insert(q, r)[i] = q[i]
          /\ Insert(q, r)[p] = r
      BY <3>1, InsertProps
    <3> HIDE DEF p
    <3> QED BY <3>1, <3>2
  <2> HIDE DEF p
  <2>6. \A i \in 1..Len(q) : StopsSearch(q[i], r)
    BY <1>0, <1>s, <2>2, InfoTicks DEF StopsSearch
  <2>7. p = Len(q) + 1 BY <1>0, <2>5, <2>6
  <2>8. cur' = cur
    <3>1. /\ cur' = IF cur = Len(q) + 1 THEN p
                    ELSE IF p <= cur THEN cur + 1 ELSE cur
          /\ cur \in 1..(Len(q) + 1) /\ Len(q) \in Nat
      BY <1>0, <2>3 DEF CurAfterInsert, p
    <3> QED BY <2>7, <3>1
  <2>9. \A i \in 1..Len(q) : q'[i] = q[i] BY <1>0, <2>5, <2>7
  <2>10. q'[Len(q) + 1].tick = now BY <2>2, <2>5, <2>7
  <2>11. \A i \in cur'..Len(q') : q'[i].tick = now'
    <3>1. /\ cur \in 1..(Len(q) + 1) /\ Len(q) \in Nat /\ now' = now
          /\ Len(q') = Len(q) + 1
      BY <1>0, <2>3, <2>5
    <3> SUFFICES ASSUME NEW i \in cur..(Len(q) + 1) PROVE q'[i].tick = now
      BY <2>8, <3>1
    <3>2. CASE i = Len(q) + 1 BY <2>10, <3>2
    <3>3. CASE i # Len(q) + 1
      <4>1. i \in cur..Len(q) /\ i \in 1..Len(q) BY <3>1, <3>3
      <4>2. q[i].tick = now BY <1>s, <2>3, <4>1
      <4> QED BY <2>9, <4>1, <4>2
    <3> QED BY <3>2, <3>3
  <2>12. \A i \in 1..Len(q') : q'[i].tick <= now'
    <3>1. Len(q) \in Nat /\ now \in Nat /\ now' = now
          /\ Len(q') = Len(q) + 1
      BY <1>0, <2>3, <2>5
    <3> SUFFICES ASSUME NEW i \in 1..(Len(q) + 1) PROVE q'[i].tick <= now
      BY <3>1
    <3>2. CASE i = Len(q) + 1 BY <2>10, <3>1, <3>2
    <3>3. CASE i # Len(q) + 1
      <4>1. i \in 1..Len(q) BY <3>1, <3>3
      <4>2. q[i].tick <= now BY <1>s, <4>1
      <4> QED BY <2>9, <4>1, <4>2
    <3> QED BY <3>2, <3>3
  <2> QED BY <1>s, <2>3, <2>4, <2>11, <2>12 DEF ServerQueue
<1>8. CASE MergeEnd
  <2> DEFINE k == FirstKept(q, CleanupTick)
  <2>1. /\ ~(lcs > latest) /\ ~needs /\ pc = "merge"
    <3>1. pc = "merge" BY <1>8 DEF MergeEnd
    <3>2. latest = -1 /\ lcs = -1 BY <1>s
    <3>3. needs <=> lcs # -1 BY <1>0, <3>1 DEF MergeFound
    <3> QED BY <3>1, <3>2, <3>3
  <2>2. /\ latest' = latest /\ pc' = "play" /\ UNCHANGED <<lcs, pend, net, now>>
        /\ q' = SubSeq(q, k, Len(q)) /\ cur' = IF cur < k THEN 1 ELSE cur - k + 1
    BY <1>8, <2>1 DEF MergeEnd
  <2>3. CleanupTick \in Nat BY CleanupTickProps DEF IInv
  <2>4. /\ k \in 1..(Len(q) + 1) /\ Len(q') = Len(q) - k + 1
        /\ \A i \in 1..Len(q') : q'[i] = q[i + k - 1]
    <3>1. q \in Seq(Infos) /\ q' = SubSeq(q, k, Len(q)) BY <1>0, <2>2
    <3>2. /\ k \in 1..(Len(q) + 1)
          /\ Len(SubSeq(q, k, Len(q))) = Len(q) - k + 1
          /\ \A i \in 1..Len(SubSeq(q, k, Len(q))) :
                SubSeq(q, k, Len(q))[i] = q[i + k - 1]
      BY <2>3, <3>1, CleanupProps
    <3> HIDE DEF k
    <3> QED BY <3>1, <3>2
  <2> HIDE DEF k
  <2>5. ASSUME NEW i \in 1..Len(q')
        PROVE  q'[i].tick <= now /\ (i >= cur' => q'[i].tick = now)
    <3>1. i + k - 1 \in 1..Len(q) /\ (i >= cur' => i + k - 1 >= cur)
      BY <1>0, <2>2, <2>4
    <3>2. q'[i] = q[i + k - 1] BY <2>4
    <3>3. q[i + k - 1].tick <= now BY <1>s, <3>1
    <3>4. ASSUME i >= cur' PROVE q[i + k - 1].tick = now
      <4>1. i + k - 1 \in cur..Len(q) BY <1>0, <2>4, <3>1, <3>4
      <4> QED BY <1>s, <2>1, <4>1
    <3> QED BY <3>2, <3>3, <3>4
  <2>6. cur' \in 1..(Len(q') + 1) BY <1>0, <2>2, <2>4
  <2>7. \A i \in cur'..Len(q') : q'[i].tick = now
    <3>1. \A i \in cur'..Len(q') : i \in 1..Len(q') /\ i >= cur'
      BY <1>0, <2>4, <2>6
    <3> QED BY <2>5, <3>1
  <2> QED BY <1>s, <2>2, <2>5, <2>7 DEF ServerQueue
<1>9. CASE Play
  <2>1. UNCHANGED <<q, latest, net, pend, now, lcs>> /\ pc' = "sim" /\ pc = "play"
    BY <1>9 DEF Play
  <2>2. cur' = Len(q) + 1
    <3>1. CASE cur > Len(q) BY <1>0, <1>9, <3>1 DEF Play
    <3>2. CASE ~(cur > Len(q))
      <4>1. cur' = RunEnd(q, cur, now) BY <1>9, <3>2 DEF Play, Replay
      <4> QED BY <1>0, <1>s, <2>1, <4>1, RunEndProps
    <3> QED BY <3>1, <3>2
  <2> QED BY <1>s, <2>1, <2>2 DEF ServerQueue
<1>10. CASE Simulate
  <2>1. /\ UNCHANGED <<q, cur, latest, net, pend, lcs>> /\ now' = now + 1
        /\ pc' = "idle" /\ pc = "sim"
    BY <1>10 DEF Simulate, SaveLocalState, Drive, CrossFinish
  <2>2. \A i \in 1..Len(q') : q'[i].tick <= now'
    BY <1>0, <1>s, <2>1, InfoTicks
  <2> QED BY <1>s, <2>1, <2>2 DEF ServerQueue
<1>11. ~ServerFinish BY <1>s DEF ServerFinish
<1> QED
  BY <1>1, <1>2, <1>3, <1>4, <1>5, <1>6, <1>7, <1>8, <1>9, <1>10, <1>11
  DEF Next, MainThread

LEMMA InvInit == ASSUME Init PROVE IInv
<1>1. TypeOK BY TypeInit
<1>2. Len(q) = 0 /\ Len(net) = 0 /\ 1..0 = {} BY DEF Init
<1>3. Sorted BY <1>2 DEF Sorted, SortedSeq
<1>4. ConfirmedHeld BY <1>2 DEF ConfirmedHeld, Init
<1>5. MergeFound /\ RewindTarget BY DEF MergeFound, RewindTarget, Init
<1>6. ServerQueue BY <1>2 DEF ServerQueue, Init
<1> QED BY <1>1, <1>3, <1>4, <1>5, <1>6 DEF IInv

\* The invariant is inductive.
LEMMA InvNext == ASSUME ConstAssumption, IInv, [Next]_vars PROVE IInv'
BY TypeNext, ConfirmedNext, MergeNext, ServerNext DEF IInv

THEOREM Invariant == Spec => []IInv
<1>1. Init => IInv BY InvInit
<1>2. IInv /\ [Next]_vars => IInv' BY InvNext, ConstAssumption
<1> QED BY <1>1, <1>2, PTL DEF Spec

-----------------------------------------------------------------------------
(* The theorems                                                            *)

\* The list stays in the order of time, with states before events, whatever
\* the network delivers and whenever it does.
THEOREM AlwaysSorted == Spec => []Sorted
<1>1. IInv => Sorted BY DEF IInv
<1> QED BY <1>1, Invariant, PTL

\* undoUntil finds the state it has to go back to: the clean-up that precedes
\* a rewind never deletes it, whatever arrived and in whatever order.
THEOREM RewindPossible == Spec => []UndoFindsState
<1>1. IInv => UndoFindsState
  <2> SUFFICES ASSUME IInv, pc = "undo" PROVE UndoPos(q, rewTo) # 0
    BY DEF UndoFindsState
  <2>1. q \in Seq(Infos) /\ latest \in Int /\ rewTo = latest /\ HasState(q, latest)
    BY DEF IInv, TypeOK, RewindTarget, ConfirmedHeld
  <2>2. \E i \in 1..Len(q) : IsState(q[i]) /\ q[i].tick <= rewTo
    BY <2>1 DEF HasState
  <2> QED BY <2>1, <2>2, UndoPosProps
<1> QED BY <1>1, Invariant, PTL

\* A rewind goes to the newest state merged; the correction the source keeps
\* "just in case" is dead code.
THEOREM CorrectionNeverActs == Spec => []RewindToNewest
<1>1. IInv => RewindToNewest
  <2>1. ASSUME IInv, pc = "merge", needs PROVE rewTo = lcs /\ rewTo >= latest
    BY <2>1 DEF IInv, MergeFound, TypeOK
  <2>2. ASSUME IInv, pc = "undo" PROVE rewTo = latest /\ rewTo <= now
    BY <2>2 DEF IInv, RewindTarget, ConfirmedHeld
  <2> QED BY <2>1, <2>2 DEF RewindToNewest
<1> QED BY <1>1, Invariant, PTL

\* After each step of a server nothing in its queue is left to be played.
THEOREM ServerConsumes == Spec => []ServerQueueConsumed
<1>1. IInv => ServerQueueConsumed
  BY DEF IInv, ServerQueue, ServerQueueConsumed
<1> QED BY <1>1, Invariant, PTL

-----------------------------------------------------------------------------
(* What a rewind restores: the second inductive invariant                  *)

\* Of the states that have arrived and are not dropped, no two are of one tick.
StatesOnce ==
    /\ \A i \in 1..Len(q), j \in 1..Len(net) :
          IsState(q[i]) /\ IsState(net[j]) => q[i].tick # net[j].tick
    /\ \A i, j \in 1..Len(net) :
          i # j /\ IsState(net[i]) /\ IsState(net[j]) => net[i].tick # net[j].tick

\* The simulation rests on the confirmed state, unless a newer one was merged.
BaseConfirmed ==
    /\ pc # "undo" => base = latest
    /\ pc = "undo" => base < latest
    /\ pc = "merge" /\ needs => latest < lcs

\* Local states newer than the one restored last are still there.
LocalKept == \A t \in saved : t > base => t \in localSt

\* What waits to be merged by the main thread itself is no state.
PendingFunc == pend # <<>> => ~IsState(pend[1])

RInv == IInv /\ PendingFunc /\ StatesOnce /\ BaseConfirmed /\ LocalKept

LEMMA RemoveAtElements ==
  ASSUME NEW s \in Seq(Infos), NEW k \in 1..Len(s)
  PROVE  LET t == RemoveAt(s, k)
         IN /\ t \in Seq(Infos) /\ Len(t) = Len(s) - 1
            /\ \A i \in 1..Len(t) : t[i] = IF i < k THEN s[i] ELSE s[i + 1]
<1> DEFINE a == SubSeq(s, 1, k - 1)
           b == SubSeq(s, k + 1, Len(s))
           t == RemoveAt(s, k)
<1>0. Len(s) \in Nat OBVIOUS
<1>1. a \in Seq(Infos) /\ Len(a) = k - 1 /\ \A i \in 1..(k - 1) : a[i] = s[i]
  BY <1>0
<1>2. /\ b \in Seq(Infos) /\ Len(b) = Len(s) - k
      /\ \A i \in 1..(Len(s) - k) : b[i] = s[i + k]
  BY <1>0
<1>3. t = a \o b BY DEF RemoveAt
<1> HIDE DEF a, b, t
<1>4. t \in Seq(Infos) /\ Len(t) = Len(s) - 1 BY <1>0, <1>1, <1>2, <1>3
<1>5. ASSUME NEW i \in 1..Len(t) PROVE t[i] = IF i < k THEN s[i] ELSE s[i + 1]
  <2>1. CASE i < k
    BY <1>0, <1>1, <1>2, <1>3, <1>4, <2>1
  <2>2. CASE i >= k
    <3>1. t[i] = b[i - k + 1] /\ i - k + 1 \in 1..(Len(s) - k)
      BY <1>0, <1>1, <1>2, <1>3, <1>4, <2>2
    <3>2. t[i] = s[i + 1] BY <1>0, <1>2, <1>4, <3>1, <2>2
    <3> QED BY <1>0, <1>4, <2>2, <3>2
  <2> QED BY <1>0, <1>4, <2>1, <2>2
<1> QED BY <1>4, <1>5 DEF t

\* Erasing and inserting leave the states of different ticks.
LEMMA Erased ==
  ASSUME TypeOK, StatesOnce, mi \in 1..Len(net), net' = RemoveAt(net, mi)
  PROVE  /\ net' \in Seq(Infos)
         /\ \A i \in 1..Len(net') : \E j \in 1..Len(net) \ {mi} : net'[i] = net[j]
         /\ \A i, j \in 1..Len(net') :
               i # j /\ IsState(net'[i]) /\ IsState(net'[j])
                   => net'[i].tick # net'[j].tick
<1>1. net \in Seq(Infos) /\ Len(net) \in Nat BY DEF TypeOK
<1>2. /\ net' \in Seq(Infos) /\ Len(net') = Len(net) - 1
      /\ \A i \in 1..Len(net') : net'[i] = IF i < mi THEN net[i] ELSE net[i + 1]
  BY <1>1, RemoveAtElements
<1> DEFINE f(i) == IF i < mi THEN i ELSE i + 1
<1>3. \A i \in 1..Len(net') : f(i) \in 1..Len(net) \ {mi} /\ net'[i] = net[f(i)]
  BY <1>1, <1>2
<1>4. \A i, j \in 1..Len(net') : i # j => f(i) # f(j)
  BY <1>1, <1>2
<1> HIDE DEF f
<1>5. ASSUME NEW i \in 1..Len(net') PROVE \E j \in 1..Len(net) \ {mi} : net'[i] = net[j]
  BY <1>3
<1>6. ASSUME NEW i \in 1..Len(net'), NEW j \in 1..Len(net'), i # j,
             IsState(net'[i]), IsState(net'[j])
      PROVE  net'[i].tick # net'[j].tick
  <2>1. f(i) \in 1..Len(net) /\ f(j) \in 1..Len(net) /\ f(i) # f(j) BY <1>3, <1>4, <1>6
  <2>2. net'[i] = net[f(i)] /\ net'[j] = net[f(j)] BY <1>3
  <2> QED BY <1>6, <2>1, <2>2 DEF StatesOnce
<1> QED BY <1>2, <1>5, <1>6

\* undoUntil goes back to the confirmed state itself.
LEMMA UndoToLatest ==
  ASSUME IInv, pc = "undo"
  PROVE  /\ UndoPos(q, rewTo) \in 1..Len(q)
         /\ q[UndoPos(q, rewTo)].tick = latest
         /\ IsState(q[UndoPos(q, rewTo)])
<1> DEFINE I == {i \in 1..Len(q) : IsState(q[i]) /\ q[i].tick <= rewTo}
<1>1. /\ q \in Seq(Infos) /\ Len(q) \in Nat /\ latest \in Int /\ rewTo = latest
      /\ HasState(q, latest)
      /\ \A i \in 1..Len(q) : q[i].tick >= latest /\ q[i].tick \in Nat
  BY InfoTicks DEF IInv, TypeOK, RewindTarget, ConfirmedHeld
<1>2. UndoPos(q, rewTo) = LastOf(I) BY DEF UndoPos
<1>3. PICK i \in 1..Len(q) : IsState(q[i]) /\ q[i].tick = latest
  BY <1>1 DEF HasState
<1>4. i \in I BY <1>1, <1>3
<1>5. I \subseteq 1..Len(q) OBVIOUS
<1>6. LastOf(I) \in I
  <2> HIDE DEF I
  <2>1. Len(q) \in Nat BY <1>1
  <2>2. (LastOf(I) # 0 => LastOf(I) \in I) /\ \A x \in I : x <= LastOf(I)
    BY <1>5, <2>1, LastOfProps
  <2>3. LastOf(I) # 0 BY <1>4, <2>1, <2>2
  <2> QED BY <2>2, <2>3
<1> QED BY <1>1, <1>2, <1>6

\* What the queue holds after a step comes from it, or is one info more.
LEMMA OnceNext ==
  ASSUME ConstAssumption, IInv, PendingFunc, StatesOnce, [Next]_vars
  PROVE  StatesOnce'
<1> USE DEF mergeVars, clockVars, kartVars, histVars, queueVars
<1>0. /\ TypeOK /\ q \in Seq(Infos) /\ net \in Seq(Infos) /\ Len(net) \in Nat
  BY DEF IInv, TypeOK
<1>q. q \in Seq(Infos) BY <1>0
<1>1. ASSUME NEW r \in Infos, ~IsState(r), q' = Insert(q, r), net' = net
      PROVE  StatesOnce'
  <2> DEFINE t == Insert(q, r)
  <2>0. \A i \in 1..Len(t) : t[i] = r \/ \E j \in 1..Len(q) : t[i] = q[j]
    BY <1>q, InsertElements
  <2>t. q' = t BY <1>1
  <2> HIDE DEF t
  <2>1. \A i \in 1..Len(q') : q'[i] = r \/ \E j \in 1..Len(q) : q'[i] = q[j]
    BY <2>0, <2>t
  <2> QED BY <1>1, <2>1 DEF StatesOnce
<1>2. ASSUME UNCHANGED <<q, net>> PROVE StatesOnce' BY <1>2 DEF StatesOnce
<1>3. ASSUME NEW r \in Infos, net' = Append(net, r), q' = q,
             IsState(r) => \A x \in ToSet(q) \cup ToSet(net) :
                              ~(IsState(x) /\ x.tick = r.tick)
      PROVE  StatesOnce'
  <2>1. /\ Len(net') = Len(net) + 1 /\ net'[Len(net) + 1] = r
        /\ \A i \in 1..Len(net) : net'[i] = net[i]
    BY <1>0, <1>3
  <2>2. /\ \A i \in 1..Len(q) : q[i] \in ToSet(q)
        /\ \A i \in 1..Len(net) : net[i] \in ToSet(net)
    BY DEF ToSet
  <2>3. \A i \in 1..Len(net') : i \in 1..Len(net) \/ i = Len(net) + 1
    BY <1>0, <2>1
  <2>4. ASSUME NEW i \in 1..Len(q'), NEW j \in 1..Len(net'), IsState(q'[i]), IsState(net'[j])
        PROVE  q'[i].tick # net'[j].tick
    BY <1>3, <2>1, <2>2, <2>3, <2>4 DEF StatesOnce
  <2>5. ASSUME NEW i \in 1..Len(net'), NEW j \in 1..Len(net'), i # j,
               IsState(net'[i]), IsState(net'[j])
        PROVE  net'[i].tick # net'[j].tick
    BY <1>3, <2>1, <2>2, <2>3, <2>5 DEF StatesOnce
  <2> QED BY <2>4, <2>5 DEF StatesOnce
<1>4. ASSUME MergePending, net' = net PROVE StatesOnce'
  <2>1. CASE pend = <<>> BY <1>2, <1>4, <2>1 DEF MergePending
  <2>2. CASE pend # <<>>
    <3>1. pend[1] \in Infos BY <1>0, <2>2 DEF TypeOK
    <3>2. ~IsState(pend[1]) BY <2>2 DEF PendingFunc
    <3> QED BY <1>1, <1>4, <2>2, <3>1, <3>2 DEF MergePending
  <2> QED BY <2>1, <2>2
<1>5. CASE MergeEnd
  <2>1. CleanupTick \in Nat BY <1>0, CleanupTickProps
  <2>2. net' = net /\ q' = SubSeq(q, FirstKept(q, CleanupTick), Len(q)) BY <1>5 DEF MergeEnd
  <2>3. \A i \in 1..Len(q') : \E j \in 1..Len(q) : q'[i] = q[j]
    <3> DEFINE k == FirstKept(q, CleanupTick)
               u == SubSeq(q, k, Len(q))
    <3>0. /\ k \in 1..(Len(q) + 1) /\ Len(u) = Len(q) - k + 1
          /\ \A i \in 1..Len(u) : u[i] = q[i + k - 1]
      BY <1>0, <2>1, CleanupProps
    <3>u. q' = u BY <2>2
    <3> HIDE DEF u
    <3>1. /\ k \in 1..(Len(q) + 1) /\ Len(q') = Len(q) - k + 1
          /\ \A i \in 1..Len(q') : q'[i] = q[i + k - 1]
      BY <3>0, <3>u
    <3> HIDE DEF k
    <3>2. ASSUME NEW i \in 1..Len(q') PROVE \E j \in 1..Len(q) : q'[i] = q[j]
      <4>1. i + k - 1 \in 1..Len(q) BY <1>0, <3>1
      <4> QED BY <3>1, <4>1
    <3> QED BY <3>2
  <2>4. ASSUME NEW i \in 1..Len(q'), NEW j \in 1..Len(net'), IsState(q'[i]), IsState(net'[j])
        PROVE  q'[i].tick # net'[j].tick
    <3>1. PICK m \in 1..Len(q) : q'[i] = q[m] BY <2>3
    <3> QED BY <2>2, <2>4, <3>1 DEF StatesOnce
  <2> QED BY <2>2, <2>4 DEF StatesOnce
<1>6. CASE MergeDrop \/ MergeInsert
  <2>0. mi \in 1..Len(net) /\ net' = RemoveAt(net, mi) /\ net[mi] \in Infos
    BY <1>0, <1>6 DEF MergeDrop, MergeInsert, TypeOK
  <2>1. /\ \A i \in 1..Len(net') : \E j \in 1..Len(net) \ {mi} : net'[i] = net[j]
        /\ \A i, j \in 1..Len(net') :
              i # j /\ IsState(net'[i]) /\ IsState(net'[j])
                  => net'[i].tick # net'[j].tick
    BY <1>0, <2>0, Erased
  <2>2. \A i \in 1..Len(q') : \/ \E j \in 1..Len(q) : q'[i] = q[j]
                              \/ IsState(q'[i]) => q'[i] = net[mi]
    <3>1. CASE MergeDrop BY <3>1 DEF MergeDrop
    <3>2. CASE MergeInsert
      <4> DEFINE r == Adjusted(net[mi])
      <4>1. IsServer => r = [net[mi] EXCEPT !.tick = now] BY DEF Adjusted
      <4>2. ~IsServer => r = net[mi] BY DEF Adjusted
      <4>3. r \in Infos
        <5>1. now \in Nat BY <1>0 DEF TypeOK
        <5> QED BY <2>0, <4>1, <4>2, <5>1 DEF Infos
      <4>4. IsState(r) => r = net[mi]
        <5>1. IsServer => ~IsState(net[mi]) BY <2>0 DEF IInv, ServerQueue
        <5>2. IsServer => ~IsState(r) BY <2>0, <4>1, <5>1 DEF IsState, Infos
        <5> QED BY <4>2, <5>2
      <4>5. q' = Insert(q, r) BY <3>2 DEF MergeInsert
      <4>6. ASSUME NEW x \in Infos, q' = Insert(q, x)
            PROVE  \A i \in 1..Len(q') : q'[i] = x \/ \E j \in 1..Len(q) : q'[i] = q[j]
        <5> DEFINE t == Insert(q, x)
        <5>0. \A i \in 1..Len(t) : t[i] = x \/ \E j \in 1..Len(q) : t[i] = q[j]
          BY <1>q, InsertElements
        <5>t. q' = t BY <4>6
        <5> HIDE DEF t
        <5> QED BY <5>0, <5>t
      <4>7. \A i \in 1..Len(q') : q'[i] = r \/ \E j \in 1..Len(q) : q'[i] = q[j]
        <5> HIDE DEF r
        <5> QED BY <4>3, <4>5, <4>6
      <4> QED BY <4>4, <4>7
    <3> QED BY <1>6, <3>1, <3>2
  <2>3. ASSUME NEW i \in 1..Len(q'), NEW j \in 1..Len(net'), IsState(q'[i]), IsState(net'[j])
        PROVE  q'[i].tick # net'[j].tick
    <3>1. PICK m \in 1..Len(net) \ {mi} : net'[j] = net[m] BY <2>1
    <3>2. net[m].tick # net[mi].tick \/ ~IsState(net[mi])
      BY <2>0, <2>3, <3>1 DEF StatesOnce
    <3>3. CASE \E l \in 1..Len(q) : q'[i] = q[l]
      BY <2>3, <3>1, <3>3 DEF StatesOnce
    <3>4. CASE IsState(q'[i]) => q'[i] = net[mi] BY <2>3, <3>1, <3>2, <3>4
    <3> QED BY <2>2, <3>3, <3>4
  <2> QED BY <2>1, <2>3 DEF StatesOnce
<1>7. CASE NetEvent
  <2>1. PICK t \in 0..MaxTick : Receive(EventInfo(t, events + 1)) BY <1>7 DEF NetEvent
  <2>2. EventInfo(t, events + 1) \in Infos /\ ~IsState(EventInfo(t, events + 1))
    BY <1>0, <2>1, ConstAssumption DEF EventInfo, Infos, IsState, TypeOK
  <2> QED BY <1>3, <2>1, <2>2 DEF Receive
<1>8. CASE NetState
  <2>1. PICK t \in 0..now : /\ Receive(StateInfo(t))
                            /\ \A r \in ToSet(q) \cup ToSet(net) : ~(IsState(r) /\ r.tick = t)
    BY <1>8 DEF NetState
  <2>2. StateInfo(t) \in Infos /\ StateInfo(t).tick = t
    BY <1>0, <2>1 DEF StateInfo, Infos, TypeOK
  <2> QED BY <1>3, <2>1, <2>2 DEF Receive
<1>9. CASE LocalEvent
  <2>1. EventInfo(now, events + 1) \in Infos /\ ~IsState(EventInfo(now, events + 1))
    BY <1>0 DEF EventInfo, Infos, IsState, TypeOK
  <2> QED BY <1>1, <1>9, <2>1 DEF LocalEvent
<1>10. CASE BeginStep BY <1>4, <1>10 DEF BeginStep
<1>11. CASE EndRewind BY <1>4, <1>11 DEF EndRewind
<1>12. CASE MergeSkip \/ Undo \/ ReplayTick \/ Play \/ Simulate \/ ServerFinish
  BY <1>2, <1>12 DEF MergeSkip, Undo, ReplayTick, Play, Simulate, ServerFinish
<1>13. CASE UNCHANGED vars BY <1>2, <1>13 DEF vars
<1> QED
  BY <1>5, <1>6, <1>7, <1>8, <1>9, <1>10, <1>11, <1>12, <1>13 DEF Next, MainThread

LEMMA PendingNext ==
  ASSUME PendingFunc, [Next]_vars
  PROVE  PendingFunc'
<1> USE DEF mergeVars, clockVars, kartVars, histVars, queueVars
<1>1. CASE Simulate
  BY <1>1 DEF Simulate, SaveLocalState, Drive, CrossFinish, PendingFunc, FuncInfo, IsState
<1> QED
  BY <1>1 DEF Next, MainThread, NetEvent,
     NetState, LocalEvent, ServerFinish, Receive, BeginStep,
     MergeSkip, MergeDrop, MergeInsert, MergeEnd, Undo, ReplayTick, EndRewind, Play,
     MergePending, PendingFunc, vars

\* A state that is merged is newer than the confirmed one, which the queue
\* still holds; the rewind to it follows at once.
LEMMA BaseNext ==
  ASSUME ConstAssumption, RInv, [Next]_vars
  PROVE  BaseConfirmed'
<1> USE DEF mergeVars, clockVars, kartVars, histVars, queueVars
<1>0. /\ IInv /\ TypeOK /\ ConfirmedHeld /\ MergeFound /\ StatesOnce /\ BaseConfirmed
      /\ q \in Seq(Infos) /\ net \in Seq(Infos)
      /\ latest \in Nat \cup {-1} /\ lcs \in Nat \cup {-1} /\ base \in Nat \cup {-1}
  BY DEF RInv, IInv, TypeOK
<1>1. CASE MergeInsert
  <2>0. mi \in 1..Len(net) /\ net[mi] \in Infos /\ net[mi].tick \in Nat /\ ~(net[mi].tick < latest)
    BY <1>0, <1>1, InfoTicks DEF MergeInsert, TypeOK, TooOld
  <2>1. /\ pc = "merge" /\ UNCHANGED <<pc, base, latest>>
        /\ needs' = (needs \/ TriggersRewind(Adjusted(net[mi])))
        /\ lcs' = IF IsState(Adjusted(net[mi])) /\ Adjusted(net[mi]).tick > lcs
                  THEN Adjusted(net[mi]).tick ELSE lcs
    BY <1>1 DEF MergeInsert
  <2>2. CASE IsServer
    <3>1. needs' => needs BY <2>1, <2>2, <1>0 DEF TriggersRewind, TypeOK
    <3>2. IsServer => ~needs BY <1>0, <2>1 DEF IInv, ServerQueue, MergeFound
    <3> QED BY <1>0, <2>1, <2>2, <3>1, <3>2 DEF BaseConfirmed
  <2>3. CASE ~IsServer
    <3> DEFINE r == net[mi]
    <3>1. Adjusted(net[mi]) = r BY <2>3 DEF Adjusted
    <3>2. IsState(r) => r.tick > latest
      <4>1. CASE latest = -1 BY <2>0, <4>1
      <4>2. CASE latest # -1
        <5>1. HasState(q, latest) BY <1>0, <4>2 DEF ConfirmedHeld
        <5>2. PICK i \in 1..Len(q) : IsState(q[i]) /\ q[i].tick = latest
          BY <5>1 DEF HasState
        <5>3. IsState(r) => r.tick # latest BY <1>0, <2>0, <5>2 DEF StatesOnce
        <5> QED BY <1>0, <2>0, <4>2, <5>3
      <4> QED BY <4>1, <4>2
    <3>3. r.tick \in Nat BY <2>0
    <3> HIDE DEF r
    <3>4. needs => latest < lcs BY <1>0, <2>1 DEF BaseConfirmed
    <3>5. CASE IsState(r)
      <4>1. lcs' = IF r.tick > lcs THEN r.tick ELSE lcs BY <2>1, <3>1, <3>5
      <4>2. latest' < lcs' BY <1>0, <2>1, <3>2, <3>3, <3>5, <4>1
      <4> QED BY <1>0, <2>1, <4>2 DEF BaseConfirmed
    <3>6. CASE ~IsState(r)
      <4>1. lcs' = lcs /\ (needs' => needs)
        BY <1>0, <2>1, <3>1, <3>6 DEF TriggersRewind, TypeOK
      <4> QED BY <1>0, <2>1, <3>4, <4>1 DEF BaseConfirmed
    <3> QED BY <3>5, <3>6
  <2> QED BY <2>2, <2>3
<1>2. CASE MergeEnd
  <2>1. pc = "merge" /\ base' = base /\ base = latest
    BY <1>0, <1>2 DEF MergeEnd, BaseConfirmed
  <2>2. latest' = IF lcs > latest THEN lcs ELSE latest BY <1>2 DEF MergeEnd
  <2>3. CASE needs
    <3>1. latest < lcs /\ rewTo = lcs BY <1>0, <2>1, <2>3 DEF BaseConfirmed, MergeFound
    <3>2. latest' = lcs BY <2>2, <3>1
    <3>3. ~(rewTo < latest') BY <1>0, <3>1, <3>2
    <3>4. pc' = "undo" BY <1>2, <2>3, <3>3 DEF MergeEnd
    <3> QED BY <2>1, <3>1, <3>2, <3>4 DEF BaseConfirmed
  <2>4. CASE ~needs
    <3>1. lcs = -1 BY <1>0, <2>1, <2>4 DEF MergeFound
    <3>2. latest' = latest BY <1>0, <2>2, <3>1
    <3>3. pc' = "play" BY <1>2, <2>4 DEF MergeEnd
    <3> QED BY <2>1, <3>2, <3>3 DEF BaseConfirmed
  <2> QED BY <2>3, <2>4
<1>3. CASE Undo
  <2>1. q[UndoPos(q, rewTo)].tick = latest BY <1>0, <1>3, UndoToLatest DEF Undo
  <2> QED BY <1>3, <2>1 DEF Undo, BaseConfirmed
<1>4. CASE BeginStep BY <1>0, <1>4 DEF BeginStep, BaseConfirmed
<1>5. CASE UNCHANGED <<base, latest, lcs, needs>> /\ pc' \notin {"undo", "merge"} /\ pc # "undo"
  BY <1>0, <1>5 DEF BaseConfirmed
<1>6. CASE UNCHANGED <<base, latest, lcs, needs, pc>>
  BY <1>0, <1>6 DEF BaseConfirmed
<1> QED
  BY <1>1, <1>2, <1>3, <1>4, <1>5, <1>6 DEF Next, MainThread, NetEvent,
     NetState, LocalEvent, ServerFinish, Receive,
     MergeSkip, MergeDrop, ReplayTick, EndRewind, Play, Simulate, vars

LEMMA LocalNext ==
  ASSUME ConstAssumption, RInv, [Next]_vars
  PROVE  LocalKept'
<1> USE DEF mergeVars, clockVars, kartVars, histVars, queueVars
<1>0. /\ IInv /\ BaseConfirmed /\ LocalKept
      /\ latest \in Int /\ base \in Int /\ saved \in SUBSET Nat
  BY DEF RInv, IInv, TypeOK
<1>1. CASE Undo
  <2> DEFINE exact == q[UndoPos(q, rewTo)].tick
  <2>1. exact = latest /\ base < latest
    BY <1>0, <1>1, UndoToLatest DEF Undo, BaseConfirmed
  <2>2. /\ base' = exact /\ saved' = saved
        /\ localSt' = IF exact \in localSt THEN KeptLocal(exact) ELSE localSt
    BY <1>1 DEF Undo
  <2> HIDE DEF exact
  <2>3. ASSUME NEW t \in saved, t > exact PROVE t \in localSt'
    <3>1. t \in Int /\ t > base BY <1>0, <2>1, <2>3
    <3>2. t \in localSt BY <1>0, <3>1 DEF LocalKept
    <3> QED BY <2>2, <2>3, <3>2 DEF KeptLocal
  <2> QED BY <2>2, <2>3 DEF LocalKept
<1>2. CASE Simulate
  BY <1>0, <1>2 DEF Simulate, SaveLocalState, LocalKept
<1>3. CASE UNCHANGED <<base, saved, localSt>> BY <1>0, <1>3 DEF LocalKept
<1> QED
  BY <1>1, <1>2, <1>3 DEF Next, MainThread, NetEvent,
     NetState, LocalEvent, ServerFinish, Receive, BeginStep,
     MergeSkip, MergeDrop, MergeInsert, MergeEnd, ReplayTick, EndRewind, Play, vars

\* States, local states and the simulation fit together in every reachable
\* state of a host.
THEOREM RewindInvariant == Spec => []RInv
<1>1. Init => RInv
  <2> SUFFICES ASSUME Init PROVE RInv OBVIOUS
  <2>1. Len(q) = 0 /\ Len(net) = 0 /\ 1..0 = {} BY DEF Init
  <2>2. PendingFunc /\ StatesOnce BY <2>1 DEF Init, PendingFunc, StatesOnce
  <2>3. BaseConfirmed /\ LocalKept BY DEF Init, BaseConfirmed, LocalKept
  <2> QED BY <2>2, <2>3, InvInit DEF RInv
<1>2. RInv /\ [Next]_vars => RInv'
  <2> SUFFICES ASSUME RInv, [Next]_vars PROVE RInv' OBVIOUS
  <2>1. IInv' BY InvNext, ConstAssumption DEF RInv
  <2>2. PendingFunc' BY PendingNext DEF RInv
  <2>3. StatesOnce' BY OnceNext, ConstAssumption DEF RInv
  <2>4. BaseConfirmed' /\ LocalKept' BY BaseNext, LocalNext, ConstAssumption
  <2> QED BY <2>1, <2>2, <2>3, <2>4 DEF RInv
<1> QED BY <1>1, <1>2, PTL DEF Spec

\* Every step is simulated on top of the newest state that was merged: none
\* is confirmed without a rewind to it (mergeNetworkData, rewindTo).
THEOREM NewestAdopted == Spec => []NewestStateAdopted
<1>1. RInv => NewestStateAdopted BY DEF RInv, BaseConfirmed, NewestStateAdopted
<1> QED BY <1>1, RewindInvariant, PTL

\* The local state of the tick a rewind goes to is there, if that tick was
\* simulated in full (m_local_state, "Missing local state").
THEOREM LocalStateIsFound == Spec => []LocalStateFound
<1>1. RInv => LocalStateFound
  <2> SUFFICES ASSUME RInv, pc = "undo", latest \in saved PROVE latest \in localSt
    BY UndoToLatest DEF RInv, LocalStateFound
  <2>1. base < latest /\ base \in Int /\ latest \in Int
    BY DEF RInv, IInv, TypeOK, BaseConfirmed
  <2> QED BY <2>1 DEF RInv, LocalKept
<1> QED BY <1>1, RewindInvariant, PTL

-----------------------------------------------------------------------------
(* What a replay takes from the queue                                      *)

\* f[i] is what is left of the first i elements of s.
Picks(s, R, f) ==
  /\ f \in [0..Len(s) -> Seq(Infos)]
  /\ f[0] = <<>>
  /\ \A i \in 1..Len(s) :
        f[i] = IF s[i] \in R THEN Append(f[i - 1], s[i]) ELSE f[i - 1]

LEMMA SelectedPicks ==
  ASSUME NEW s \in Seq(Infos), NEW R
  PROVE  \E f : Picks(s, R, f) /\ Selected(s, R) = f[Len(s)]
<1> DEFINE n == Len(s)
           A == Seq(Infos)
           step == [x \in (1..n) \X A |->
                      IF s[x[1]] \in R THEN Append(x[2], s[x[1]]) ELSE x[2]]
           Def(f) == f = [i \in 0..n |->
                            IF i = 0 THEN <<>>
                            ELSE IF s[i] \in R THEN Append(f[i - 1], s[i])
                                               ELSE f[i - 1]]
<1>0. n \in Nat /\ <<>> \in A /\ \A i \in 1..n : s[i] \in Infos OBVIOUS
<1>1. step \in [(1..n) \X A -> A] BY <1>0
<1>2. \A i \in 1..n, a \in A :
         step[<<i, a>>] = IF s[i] \in R THEN Append(a, s[i]) ELSE a
  OBVIOUS
<1>3. PICK f : Recursion(n, A, <<>>, step, f)
  <2> HIDE DEF n, A, step
  <2>1. HasRecursion(n, A, <<>>, step) BY <1>0, <1>1, RecursionExists
  <2> QED BY <2>1 DEF HasRecursion
<1>4. \A i \in 1..n : f[i] = IF s[i] \in R THEN Append(f[i - 1], s[i]) ELSE f[i - 1]
  <2> HIDE DEF A, step
  <2>1. \A i \in 1..n : i - 1 \in 0..n BY <1>0
  <2> QED BY <1>2, <1>3, <2>1 DEF Recursion
<1>5. Def(f)
  <2>1. f \in [0..n -> A] /\ f[0] = <<>> BY <1>3 DEF Recursion
  <2>2. \A i \in 0..n : f[i] = IF i = 0 THEN <<>>
                               ELSE IF s[i] \in R THEN Append(f[i - 1], s[i])
                                                  ELSE f[i - 1]
    <3> HIDE DEF n, A
    <3>1. \A i \in 0..n : i = 0 \/ i \in 1..n BY <1>0
    <3> QED BY <1>4, <2>1, <3>1
  <2>3. f = [i \in 0..n |-> f[i]] BY <2>1
  <2> HIDE DEF n, A
  <2> QED BY <2>2, <2>3, Zenon
<1> DEFINE g == CHOOSE g : Def(g)
<1>6. Def(g)
  <2> HIDE DEF Def
  <2> QED BY <1>5
<1>7. Selected(s, R) = g[n] BY DEF Selected
<1> HIDE DEF g
<1>8. g[0] = <<>> /\ \A i \in 1..n :
         g[i] = IF s[i] \in R THEN Append(g[i - 1], s[i]) ELSE g[i - 1]
  <2> HIDE DEF n, A
  <2>1. 0 \in 0..n /\ \A i \in 1..n : i \in 0..n /\ i # 0 BY <1>0
  <2>2. \A i \in 0..n : g[i] = IF i = 0 THEN <<>>
                               ELSE IF s[i] \in R THEN Append(g[i - 1], s[i])
                                                  ELSE g[i - 1]
    BY <1>6, Zenon
  <2> QED BY <2>1, <2>2
<1>9. \A i \in 0..n : g[i] \in A
  <2>0. \A a \in A, r \in Infos : Append(a, r) \in A OBVIOUS
  <2> HIDE DEF n, A
  <2> DEFINE S == {i \in 0..n : g[i] \in A}
  <2>1. 0 \in S BY <1>0, <1>8
  <2>2. ASSUME NEW i \in 0..(n - 1), i \in S PROVE i + 1 \in S
    <3>1. i + 1 \in 1..n /\ (i + 1) - 1 = i BY <1>0
    <3>2. g[i + 1] = IF s[i + 1] \in R THEN Append(g[i], s[i + 1]) ELSE g[i]
      BY <1>8, <3>1
    <3> QED BY <1>0, <2>0, <2>2, <3>1, <3>2
  <2> HIDE DEF S
  <2>3. \A i \in 0..n : i \in S BY <1>0, <2>1, <2>2, UpTo
  <2> QED BY <2>3 DEF S
<1>10. g \in [0..n -> A]
  <2>1. g = [i \in 0..n |-> g[i]] BY <1>6
  <2> QED BY <2>1, <1>9
<1> QED BY <1>7, <1>8, <1>10 DEF Picks

LEMMA AppendConcat ==
  ASSUME NEW a \in Seq(Infos), NEW b \in Seq(Infos), NEW r \in Infos
  PROVE  Append(a \o b, r) = a \o Append(b, r)
<1> DEFINE x == Append(a \o b, r)
           y == a \o Append(b, r)
<1>1. a \o b \in Seq(Infos) /\ Append(b, r) \in Seq(Infos) BY ConcatProperties
<1>2. x \in Seq(Infos) /\ y \in Seq(Infos) BY <1>1, ConcatProperties
<1>3. Len(x) = Len(y) BY <1>1, ConcatProperties
<1>4. \A i \in 1..Len(x) : x[i] = y[i]
  <2>1. Len(a) \in Nat /\ Len(b) \in Nat /\ Len(x) = Len(a) + Len(b) + 1
    BY <1>1, ConcatProperties
  <2> SUFFICES ASSUME NEW i \in 1..(Len(a) + Len(b) + 1) PROVE x[i] = y[i]
    BY <2>1
  <2>2. /\ i <= Len(a) + Len(b) => x[i] = (a \o b)[i]
        /\ i = Len(a) + Len(b) + 1 => x[i] = r
    <3> DEFINE w == a \o b
    <3>1. w \in Seq(Infos) /\ Len(w) = Len(a) + Len(b) BY <1>1, ConcatProperties
    <3> HIDE DEF w
    <3>2. /\ i <= Len(w) => Append(w, r)[i] = w[i]
          /\ i = Len(w) + 1 => Append(w, r)[i] = r
      BY <2>1, <3>1
    <3> QED BY <3>1, <3>2 DEF w
  <2>3. y[i] = IF i <= Len(a) THEN a[i] ELSE Append(b, r)[i - Len(a)]
    <3> DEFINE w == Append(b, r)
    <3>1. w \in Seq(Infos) /\ Len(w) = Len(b) + 1 BY <1>1
    <3> HIDE DEF w
    <3>2. (a \o w)[i] = IF i <= Len(a) THEN a[i] ELSE w[i - Len(a)]
      BY <2>1, <3>1, ConcatProperties
    <3> QED BY <3>2 DEF w
  <2> HIDE DEF x, y
  <2>4. CASE i <= Len(a) BY <2>1, <2>2, <2>3, <2>4, ConcatProperties
  <2>5. CASE i > Len(a) /\ i <= Len(a) + Len(b)
    BY <2>1, <2>2, <2>3, <2>5, ConcatProperties
  <2>6. CASE i = Len(a) + Len(b) + 1 BY <2>1, <2>2, <2>3, <2>6
  <2> QED BY <2>1, <2>4, <2>5, <2>6
<1> HIDE DEF x, y
<1>5. x = y BY <1>2, <1>3, <1>4, SeqEqual
<1> QED BY <1>5 DEF x, y

\* Taking elements from two lists in a row.
LEMMA SelectedConcat ==
  ASSUME NEW s \in Seq(Infos), NEW t \in Seq(Infos), NEW R
  PROVE  Selected(s \o t, R) = Selected(s, R) \o Selected(t, R)
<1> DEFINE u == s \o t
           m == Len(s)
           n == Len(t)
<1>1. /\ u \in Seq(Infos) /\ m \in Nat /\ n \in Nat /\ Len(u) = m + n
      /\ \A i \in 1..m : u[i] = s[i]
      /\ \A i \in 1..n : u[m + i] = t[i] /\ t[i] \in Infos
  OBVIOUS
<1>2. PICK f : Picks(s, R, f) /\ Selected(s, R) = f[m] BY SelectedPicks
<1>3. PICK g : Picks(t, R, g) /\ Selected(t, R) = g[n] BY SelectedPicks
<1>4. PICK h : Picks(u, R, h) /\ Selected(u, R) = h[m + n]
  BY <1>1, SelectedPicks
<1> HIDE DEF u, m, n
<1>5. /\ f \in [0..m -> Seq(Infos)] /\ f[0] = <<>>
      /\ \A i \in 1..m :
            f[i] = IF s[i] \in R THEN Append(f[i - 1], s[i]) ELSE f[i - 1]
  BY <1>2 DEF Picks, m
<1>6. /\ g \in [0..n -> Seq(Infos)] /\ g[0] = <<>>
      /\ \A i \in 1..n :
            g[i] = IF t[i] \in R THEN Append(g[i - 1], t[i]) ELSE g[i - 1]
  BY <1>3 DEF Picks, n
<1>7. /\ h[0] = <<>>
      /\ \A i \in 1..(m + n) :
            h[i] = IF u[i] \in R THEN Append(h[i - 1], u[i]) ELSE h[i - 1]
  BY <1>1, <1>4 DEF Picks
<1>8. \A i \in 0..m : h[i] = f[i]
  <2> DEFINE S == {i \in 0..m : h[i] = f[i]}
  <2>1. 0 \in S BY <1>1, <1>5, <1>7
  <2>2. ASSUME NEW i \in 0..(m - 1), i \in S PROVE i + 1 \in S
    <3>1. i + 1 \in 1..m /\ i + 1 \in 1..(m + n) /\ (i + 1) - 1 = i BY <1>1
    <3>2. h[i + 1] = IF u[i + 1] \in R THEN Append(h[i], u[i + 1]) ELSE h[i]
      BY <1>7, <3>1
    <3>3. f[i + 1] = IF s[i + 1] \in R THEN Append(f[i], s[i + 1]) ELSE f[i]
      BY <1>5, <3>1
    <3>4. u[i + 1] = s[i + 1] BY <1>1, <3>1
    <3> QED BY <1>1, <2>2, <3>1, <3>2, <3>3, <3>4
  <2> HIDE DEF S
  <2>3. \A i \in 0..m : i \in S BY <1>1, <2>1, <2>2, UpTo
  <2> QED BY <2>3 DEF S
<1>9. \A i \in 0..n : h[m + i] = f[m] \o g[i]
  <2> DEFINE S == {i \in 0..n : h[m + i] = f[m] \o g[i]}
  <2>0. f[m] \in Seq(Infos) BY <1>1, <1>5
  <2>1. 0 \in S
    <3>1. m + 0 = m /\ 0 \in 0..n /\ m \in 0..m BY <1>1
    <3>2. f[m] \o <<>> = f[m]
      <4> HIDE DEF S
      <4> QED BY <2>0
    <3> QED BY <1>6, <1>8, <3>1, <3>2
  <2>2. ASSUME NEW i \in 0..(n - 1), i \in S PROVE i + 1 \in S
    <3>1. /\ i + 1 \in 1..n /\ m + (i + 1) \in 1..(m + n)
          /\ (i + 1) - 1 = i /\ m + (i + 1) - 1 = m + i /\ i \in 0..n
      BY <1>1
    <3>2. u[m + (i + 1)] = t[i + 1] /\ t[i + 1] \in Infos BY <1>1, <3>1
    <3> HIDE DEF S
    <3>3. h[m + (i + 1)] = IF t[i + 1] \in R THEN Append(h[m + i], t[i + 1])
                                             ELSE h[m + i]
      <4> DEFINE j == m + (i + 1)
      <4>1. j \in 1..(m + n) /\ j - 1 = m + i BY <1>1
      <4>3. u[j] = t[i + 1] BY <3>2, Zenon
      <4> HIDE DEF j
      <4>2. h[j] = IF t[i + 1] \in R THEN Append(h[m + i], t[i + 1]) ELSE h[m + i]
        BY <1>7, <4>1, <4>3
      <4> QED BY <4>2 DEF j
    <3>4. g[i + 1] = IF t[i + 1] \in R THEN Append(g[i], t[i + 1]) ELSE g[i]
      BY <1>6, <3>1
    <3>5. g[i] \in Seq(Infos) BY <1>6, <3>1
    <3>6. Append(f[m] \o g[i], t[i + 1]) = f[m] \o Append(g[i], t[i + 1])
      <4> HIDE DEF S
      <4>1. \A a, b \in Seq(Infos), r \in Infos :
               Append(a \o b, r) = a \o Append(b, r)
        <5> TAKE a, b \in Seq(Infos), r \in Infos
        <5> QED BY AppendConcat
      <4> QED BY <2>0, <3>2, <3>5, <4>1, Zenon
    <3>7. h[m + i] = f[m] \o g[i] BY <2>2 DEF S
    <3>8. h[m + (i + 1)] = f[m] \o g[i + 1] BY <3>3, <3>4, <3>6, <3>7
    <3>9. i + 1 \in 0..n BY <1>1
    <3> QED BY <3>8, <3>9 DEF S
  <2> HIDE DEF S
  <2>3. \A i \in 0..n : i \in S BY <1>1, <2>1, <2>2, UpTo
  <2> QED BY <2>3 DEF S
<1>10. h[m + n] = f[m] \o g[n]
  <2>1. n \in 0..n BY <1>1
  <2> QED BY <1>9, <2>1
<1> QED BY <1>2, <1>3, <1>4, <1>10 DEF u

\* Only which elements of the list belong to the set matters.
LEMMA SelectedSame ==
  ASSUME NEW s \in Seq(Infos), NEW R, NEW T,
         \A i \in 1..Len(s) : s[i] \in R <=> s[i] \in T
  PROVE  Selected(s, R) = Selected(s, T)
<1> DEFINE n == Len(s)
<1>1. n \in Nat OBVIOUS
<1>2. PICK f : Picks(s, R, f) /\ Selected(s, R) = f[n] BY SelectedPicks
<1>3. PICK g : Picks(s, T, g) /\ Selected(s, T) = g[n] BY SelectedPicks
<1> DEFINE S == {i \in 0..n : f[i] = g[i]}
<1>4. 0 \in S BY <1>1, <1>2, <1>3 DEF Picks
<1>5. ASSUME NEW i \in 0..(n - 1), i \in S PROVE i + 1 \in S
  <2>1. i + 1 \in 1..n /\ (i + 1) - 1 = i BY <1>1
  <2>2. f[i + 1] = IF s[i + 1] \in R THEN Append(f[i], s[i + 1]) ELSE f[i]
    BY <1>2, <2>1 DEF Picks
  <2>3. g[i + 1] = IF s[i + 1] \in T THEN Append(g[i], s[i + 1]) ELSE g[i]
    BY <1>3, <2>1 DEF Picks
  <2> HIDE DEF n
  <2> QED BY <1>1, <1>5, <2>1, <2>2, <2>3 DEF n
<1> HIDE DEF S, n
<1>6. n \in S
  <2>1. \A i \in 0..n : i \in S BY <1>1, <1>4, <1>5, UpTo
  <2> QED BY <1>1, <2>1
<1> QED BY <1>2, <1>3, <1>6 DEF S

\* A list of which every element is taken, or none.
LEMMA SelectedAll ==
  ASSUME NEW s \in Seq(Infos), NEW R, \A i \in 1..Len(s) : s[i] \in R
  PROVE  Selected(s, R) = s
<1> DEFINE n == Len(s)
<1>1. n \in Nat /\ s[1] = s[1] OBVIOUS
<1>2. PICK f : Picks(s, R, f) /\ Selected(s, R) = f[n] BY SelectedPicks
<1>3. SubSeq(s, 1, 0) = <<>> /\ SubSeq(s, 1, n) = s OBVIOUS
<1>4. ASSUME NEW i \in 0..(n - 1)
      PROVE  SubSeq(s, 1, i + 1) = Append(SubSeq(s, 1, i), s[i + 1])
  BY <1>1
<1> DEFINE S == {i \in 0..n : f[i] = SubSeq(s, 1, i)}
<1>5. 0 \in S BY <1>1, <1>2, <1>3 DEF Picks
<1>6. ASSUME NEW i \in 0..(n - 1), i \in S PROVE i + 1 \in S
  <2>1. i + 1 \in 1..n /\ (i + 1) - 1 = i BY <1>1
  <2>2. f[i + 1] = Append(f[i], s[i + 1])
    BY <1>2, <2>1 DEF Picks
  <2>3. f[i + 1] = Append(SubSeq(s, 1, i), s[i + 1]) BY <1>6, <2>2
  <2>4. f[i + 1] = SubSeq(s, 1, i + 1) BY <1>4, <2>3, Zenon
  <2> QED BY <2>1, <2>4
<1> HIDE DEF S, n
<1>7. n \in S
  <2>1. \A i \in 0..n : i \in S BY <1>1, <1>5, <1>6, UpTo
  <2> QED BY <1>1, <2>1
<1> QED BY <1>2, <1>3, <1>7 DEF S

LEMMA SelectedNone ==
  ASSUME NEW s \in Seq(Infos), NEW R, \A i \in 1..Len(s) : s[i] \notin R
  PROVE  Selected(s, R) = <<>>
<1> DEFINE n == Len(s)
<1>1. n \in Nat OBVIOUS
<1>2. PICK f : Picks(s, R, f) /\ Selected(s, R) = f[n] BY SelectedPicks
<1> DEFINE S == {i \in 0..n : f[i] = <<>>}
<1>3. 0 \in S BY <1>1, <1>2 DEF Picks
<1>4. ASSUME NEW i \in 0..(n - 1), i \in S PROVE i + 1 \in S
  <2>1. i + 1 \in 1..n /\ (i + 1) - 1 = i BY <1>1
  <2> QED BY <1>2, <1>4, <2>1 DEF Picks
<1> HIDE DEF S, n
<1>5. n \in S
  <2>1. \A i \in 0..n : i \in S BY <1>1, <1>3, <1>4, UpTo
  <2> QED BY <1>1, <2>1
<1> QED BY <1>2, <1>5 DEF S

-----------------------------------------------------------------------------
(* A replay takes every event once, in the order of the queue.             *)

\* The loop of replayAllEvents takes the elements of tick t, and stops at the
\* first later one.
LEMMA RunProps ==
  ASSUME NEW s \in Seq(Infos), NEW c \in 1..(Len(s) + 1), NEW t \in Nat,
         SortedSeq(s), \A i \in c..Len(s) : s[i].tick >= t
  PROVE  /\ RunEnd(s, c, t) \in c..(Len(s) + 1)
         /\ \A i \in c..(RunEnd(s, c, t) - 1) : s[i].tick = t
         /\ \A i \in RunEnd(s, c, t)..Len(s) : s[i].tick >= t + 1
<1> DEFINE I == {i \in c..Len(s) : s[i].tick # t}
           e == RunEnd(s, c, t)
<1>0. Len(s) \in Nat /\ \A i \in 1..Len(s) : s[i].tick \in Nat BY InfoTicks
<1>1. /\ e \in 1..(Len(s) + 1)
      /\ e # Len(s) + 1 => e \in I
      /\ \A i \in I : e <= i
  <2>1. I \subseteq 1..(Len(s) + 1) /\ Len(s) + 1 \in Nat \ {0} BY <1>0
  <2>2. e = FirstOf(I, Len(s) + 1) BY DEF RunEnd
  <2> HIDE DEF I, e
  <2> QED BY <2>1, <2>2, FirstOfProps
<1> HIDE DEF e
<1>2. e \in c..(Len(s) + 1) BY <1>0, <1>1
<1>3. \A i \in c..(e - 1) : s[i].tick = t BY <1>0, <1>1, <1>2
<1>4. ASSUME NEW i \in e..Len(s) PROVE s[i].tick >= t + 1
  <2>1. e \in c..Len(s) /\ e \in 1..Len(s) /\ i \in 1..Len(s) BY <1>0, <1>2, <1>4
  <2>2. s[e].tick # t /\ s[e].tick >= t BY <1>0, <1>1, <2>1
  <2>3. s[e].tick <= s[i].tick
    <3>1. CASE e = i BY <1>0, <2>1, <3>1
    <3>2. CASE e < i BY <2>1, <3>2 DEF SortedSeq
    <3> QED BY <1>2, <1>4, <3>1, <3>2
  <2> QED BY <1>0, <2>1, <2>2, <2>3
<1> QED BY <1>2, <1>3, <1>4 DEF e

\* rewindTo passes over states only.
LEMMA RestoreProps ==
  ASSUME NEW s \in Seq(Infos), NEW u \in 1..Len(s)
  PROVE  /\ RestoreEnd(s, u) \in u..(Len(s) + 1)
         /\ \A i \in u..(RestoreEnd(s, u) - 1) : IsState(s[i])
<1> DEFINE I == {i \in u..Len(s) : ~(IsState(s[i]) /\ s[i].tick = s[u].tick)}
           e == RestoreEnd(s, u)
<1>0. Len(s) \in Nat BY InfoTicks
<1>1. /\ e \in 1..(Len(s) + 1)
      /\ e # Len(s) + 1 => e \in I
      /\ \A i \in I : e <= i
  <2>1. I \subseteq 1..(Len(s) + 1) /\ Len(s) + 1 \in Nat \ {0} BY <1>0
  <2>2. e = FirstOf(I, Len(s) + 1) BY DEF RestoreEnd
  <2> HIDE DEF I, e
  <2> QED BY <2>1, <2>2, FirstOfProps
<1> HIDE DEF e
<1>2. e \in u..(Len(s) + 1) BY <1>0, <1>1
<1>3. \A i \in u..(e - 1) : IsState(s[i]) BY <1>0, <1>1, <1>2
<1> QED BY <1>2, <1>3 DEF e

\* While a rewind replays: what it has replayed are the events before m_current,
\* all of them earlier than the clock, and the rest of the queue is not earlier.
Replaying ==
  pc = "replay" =>
    /\ wt <= now
    /\ played = Selected(SubSeq(q, 1, cur - 1), Replayable)
    /\ \A i \in 1..(cur - 1) : q[i] \in Replayable => q[i].tick < wt
    /\ \A i \in cur..Len(q) : q[i].tick >= wt

LEMMA UndoReplays ==
  ASSUME IInv, Undo
  PROVE  Replaying'
<1> DEFINE u == UndoPos(q, rewTo)
           e == RestoreEnd(q, u)
           p == SubSeq(q, 1, e - 1)
<1>1. /\ q \in Seq(Infos) /\ Len(q) \in Nat /\ SortedSeq(q)
      /\ latest \in Int /\ latest <= now
      /\ \A i \in 1..Len(q) : q[i] \in Infos /\ q[i].tick \in Nat /\ q[i].tick >= latest
  BY InfoTicks DEF IInv, TypeOK, Sorted, ConfirmedHeld
<1>2. u \in 1..Len(q) /\ q[u].tick = latest /\ IsState(q[u])
  BY UndoToLatest DEF Undo
<1>3. /\ q' = q /\ now' = now /\ wt' = latest /\ played' = <<>>
      /\ cur' = e
  BY <1>2 DEF Undo
<1> HIDE DEF u
<1>4. e \in u..(Len(q) + 1) /\ \A i \in u..(e - 1) : IsState(q[i])
  BY <1>1, <1>2, RestoreProps
<1> HIDE DEF e
<1>5. ASSUME NEW i \in 1..(e - 1) PROVE IsState(q[i])
  <2>1. i \in 1..Len(q) BY <1>1, <1>2, <1>4
  <2>2. CASE i < u
    <3>1. q[i].tick <= q[u].tick BY <1>1, <1>2, <2>1, <2>2 DEF SortedSeq
    <3>2. q[i].tick = q[u].tick BY <1>1, <1>2, <2>1, <3>1
    <3> QED BY <1>1, <1>2, <2>1, <2>2, <3>2 DEF SortedSeq
  <2>3. CASE i >= u BY <1>2, <1>4, <2>3
  <2> QED BY <1>2, <2>2, <2>3
<1>6. Selected(p, Replayable) = <<>>
  <2>1. /\ p \in Seq(Infos) /\ Len(p) = e - 1
        /\ \A i \in 1..(e - 1) : p[i] = q[i]
    BY <1>1, <1>2, <1>4
  <2> HIDE DEF p
  <2>2. \A i \in 1..Len(p) : p[i] \notin Replayable
    BY <1>5, <2>1 DEF Replayable
  <2> QED BY <2>1, <2>2, SelectedNone
<1>7. \A i \in e..Len(q) : q[i].tick >= latest BY <1>1, <1>2, <1>4
<1> QED BY <1>1, <1>3, <1>5, <1>6, <1>7 DEF Replaying, Replayable

LEMMA TickReplays ==
  ASSUME IInv, Replaying, ReplayTick
  PROVE  Replaying'
<1> DEFINE e == RunEnd(q, cur, wt)
           p == SubSeq(q, 1, cur - 1)
           run == SubSeq(q, cur, e - 1)
<1>1. /\ q \in Seq(Infos) /\ Len(q) \in Nat /\ SortedSeq(q)
      /\ cur \in 1..(Len(q) + 1) /\ wt \in Nat /\ now \in Nat /\ wt < now
      /\ \A i \in 1..Len(q) : q[i] \in Infos /\ q[i].tick \in Nat
  BY InfoTicks DEF IInv, TypeOK, Sorted, ReplayTick
<1>2. /\ played = Selected(p, Replayable)
      /\ \A i \in 1..(cur - 1) : q[i] \in Replayable => q[i].tick < wt
      /\ \A i \in cur..Len(q) : q[i].tick >= wt
  BY DEF Replaying, ReplayTick
<1>3. /\ e \in cur..(Len(q) + 1)
      /\ \A i \in cur..(e - 1) : q[i].tick = wt
      /\ \A i \in e..Len(q) : q[i].tick >= wt + 1
  BY <1>1, <1>2, RunProps
<1>4. /\ q' = q /\ now' = now /\ wt' = wt + 1 /\ cur' = e
      /\ played' = played \o Selected(run, Replayable)
  BY DEF ReplayTick, Replay, RunAt
<1>5. p \in Seq(Infos) /\ run \in Seq(Infos) /\ p \o run = SubSeq(q, 1, e - 1)
  <2> HIDE DEF e
  <2>1. p \in Seq(Infos) /\ run \in Seq(Infos) BY <1>1, <1>3
  <2>2. SubSeq(q, 1, cur - 1) \o SubSeq(q, (cur - 1) + 1, e - 1) = SubSeq(q, 1, e - 1)
    <3>1. /\ 1 \in 1..(Len(q) + 1) /\ cur - 1 \in (1 - 1)..Len(q)
          /\ e - 1 \in (cur - 1)..Len(q)
      BY <1>1, <1>3
    <3> QED BY <1>1, <3>1, ConcatAdjacentSubSeq
  <2>3. (cur - 1) + 1 = cur BY <1>1
  <2> QED BY <2>1, <2>2, <2>3
<1> HIDE DEF e, p, run
<1>6. played' = Selected(SubSeq(q, 1, e - 1), Replayable)
  <2>1. Selected(p \o run, Replayable)
           = Selected(p, Replayable) \o Selected(run, Replayable)
    BY <1>5, SelectedConcat
  <2> QED BY <1>2, <1>4, <1>5, <2>1
<1>7. ASSUME NEW i \in 1..(e - 1), q[i] \in Replayable PROVE q[i].tick < wt + 1
  <2>1. i \in 1..Len(q) /\ q[i].tick \in Nat BY <1>1, <1>3
  <2>2. CASE i <= cur - 1 BY <1>1, <1>2, <1>7, <2>1, <2>2
  <2>3. CASE i > cur - 1 BY <1>1, <1>3, <2>1, <2>3
  <2> QED BY <1>1, <2>2, <2>3
<1> QED BY <1>1, <1>3, <1>4, <1>6, <1>7 DEF Replaying

LEMMA ReplayingNext ==
  ASSUME IInv, Replaying, [Next]_vars
  PROVE  Replaying'
<1> USE DEF mergeVars, clockVars, kartVars, histVars, queueVars
<1>1. CASE UNCHANGED <<q, cur, now, wt, played, pc>>
  BY <1>1 DEF Replaying
<1>2. CASE pc' # "replay" BY <1>2 DEF Replaying
<1> QED
  BY <1>1, <1>2, UndoReplays, TickReplays DEF Next, MainThread, NetEvent, NetState,
     LocalEvent, ServerFinish, Receive, BeginStep, MergeSkip, MergeDrop, MergeInsert, MergeEnd,
     EndRewind, Play, Simulate, vars

THEOREM ReplayInvariant == Spec => []Replaying
<1>1. Init => Replaying BY DEF Init, Replaying
<1>2. IInv /\ Replaying /\ [Next]_vars => Replaying' BY ReplayingNext
<1> QED BY <1>1, <1>2, Invariant, PTL DEF Spec

\* When a rewind has reached the present, it has replayed exactly the events
\* of the queue that are in the past, once and in the order of the queue.
THEOREM ReplayIsComplete == Spec => []ReplayComplete
<1>1. IInv /\ Replaying => ReplayComplete
  <2> DEFINE Past == {r \in Replayable : r.tick < now}
             p == SubSeq(q, 1, cur - 1)
             rest == SubSeq(q, cur, Len(q))
  <2> SUFFICES ASSUME IInv, Replaying, pc = "replay", wt = now
               PROVE  played = Selected(q, Past)
    BY DEF ReplayComplete
  <2>1. /\ q \in Seq(Infos) /\ Len(q) \in Nat /\ cur \in 1..(Len(q) + 1)
        /\ now \in Nat
        /\ \A i \in 1..Len(q) : q[i] \in Infos /\ q[i].tick \in Nat
    BY InfoTicks DEF IInv, TypeOK
  <2>2. /\ played = Selected(p, Replayable)
        /\ \A i \in 1..(cur - 1) : q[i] \in Replayable => q[i].tick < now
        /\ \A i \in cur..Len(q) : q[i].tick >= now
    BY DEF Replaying
  <2>3. /\ p \in Seq(Infos) /\ Len(p) = cur - 1
        /\ \A i \in 1..(cur - 1) : p[i] = q[i]
    BY <2>1
  <2>4. /\ rest \in Seq(Infos) /\ Len(rest) = Len(q) - cur + 1
        /\ \A i \in 1..(Len(q) - cur + 1) : rest[i] = q[cur + i - 1]
    BY <2>1
  <2>5. p \o rest = q
    <3>1. /\ 1 \in 1..(Len(q) + 1) /\ cur - 1 \in (1 - 1)..Len(q)
          /\ Len(q) \in (cur - 1)..Len(q) /\ (cur - 1) + 1 = cur
      BY <2>1
    <3>2. SubSeq(q, 1, cur - 1) \o SubSeq(q, (cur - 1) + 1, Len(q))
             = SubSeq(q, 1, Len(q))
      BY <2>1, <3>1, ConcatAdjacentSubSeq
    <3>3. SubSeq(q, 1, Len(q)) = q BY <2>1, SubSeqFull
    <3> QED BY <3>1, <3>2, <3>3
  <2> HIDE DEF p, rest
  <2>6. Selected(p, Past) = played
    <3>1. \A i \in 1..Len(p) : p[i] \in Past <=> p[i] \in Replayable
      BY <2>1, <2>2, <2>3
    <3> HIDE DEF Past
    <3> QED BY <2>2, <2>3, <3>1, SelectedSame
  <2>7. Selected(rest, Past) = <<>>
    <3>1. ASSUME NEW i \in 1..Len(rest) PROVE rest[i] \notin Past
      <4>1. /\ rest[i] = q[cur + i - 1] /\ cur + i - 1 \in cur..Len(q)
            /\ cur + i - 1 \in 1..Len(q)
        BY <2>1, <2>4
      <4>2. q[cur + i - 1].tick >= now /\ q[cur + i - 1].tick \in Nat
        BY <2>1, <2>2, <4>1
      <4> QED BY <2>1, <4>1, <4>2
    <3> HIDE DEF Past
    <3> QED BY <2>4, <3>1, SelectedNone
  <2>8. Selected(p \o rest, Past) = Selected(p, Past) \o Selected(rest, Past)
    <3> HIDE DEF Past
    <3> QED BY <2>3, <2>4, SelectedConcat
  <2>9. played \in Seq(Infos)
    <3>1. PICK f : Picks(p, Replayable, f)
                      /\ Selected(p, Replayable) = f[Len(p)]
      BY <2>3, SelectedPicks
    <3>2. Len(p) \in 0..Len(p) BY <2>1, <2>3
    <3> QED BY <2>2, <3>1, <3>2 DEF Picks
  <2> HIDE DEF Past
  <2>10. played \o <<>> = played BY <2>9, ConcatEmptySeq
  <2> QED BY <2>5, <2>6, <2>7, <2>8, <2>10
<1> QED BY <1>1, Invariant, ReplayInvariant, PTL

-----------------------------------------------------------------------------
(* The end controller of a kart that has finished                          *)

\* The function that gives the kart its end controller belongs to the past as
\* soon as it can be in the queue, and the server may have confirmed no later
\* than the one it is waited for.
FuncsPast ==
  /\ \A i \in 1..Len(q) : IsFunc(q[i]) =>
       /\ q[i].tick < now
       /\ check # 0 /\ (check > 0 => q[i].tick < check)
  /\ \A i \in 1..Len(net) : ~IsFunc(net[i])
  /\ pend # <<>> => /\ pend[1].tick < now
                    /\ check # 0 /\ (check > 0 => pend[1].tick < check)

\* What a rewind has taken from the kart is still to be replayed.
EndHeld ==
  /\ hasSaved <=> HasFinished
  /\ endCtrl => HasFinished
  /\ HasFinished => \/ endCtrl
                    \/ /\ pc = "replay" /\ check > 0
                       /\ \E i \in cur..Len(q) : IsFunc(q[i])

LEMMA FuncsPastNext ==
  ASSUME ConstAssumption, IInv, FuncsPast, [Next]_vars
  PROVE  FuncsPast'
<1> USE DEF mergeVars, clockVars, kartVars, histVars, queueVars
<1>0. /\ q \in Seq(Infos) /\ net \in Seq(Infos) /\ pend \in Seq(Infos)
      /\ now \in Nat /\ Len(net) \in Nat /\ Len(q) \in Nat
      /\ mi \in Nat \ {0} /\ events \in Nat /\ TypeOK
      /\ check \in Nat \cup {-1} /\ FinishCheck \in Nat \ {0}
      /\ \A i \in 1..Len(q) : q[i] \in Infos /\ q[i].tick \in Nat
  BY InfoTicks, ConstAssumption DEF IInv, TypeOK
<1>1. ASSUME NEW r \in Infos, q' = Insert(q, r), now' = now, check' = check,
             IsFunc(r) => /\ r.tick < now
                          /\ check # 0 /\ (check > 0 => r.tick < check)
      PROVE  \A i \in 1..Len(q') : IsFunc(q'[i]) =>
                /\ q'[i].tick < now'
                /\ check' # 0 /\ (check' > 0 => q'[i].tick < check')
  <2>1. \A i \in 1..Len(q') : q'[i] = r \/ \E j \in 1..Len(q) : q'[i] = q[j]
    BY <1>0, <1>1, InsertElements
  <2> QED BY <1>1, <2>1 DEF FuncsPast
<1>2. ASSUME MergePending, UNCHANGED <<now, net, check>> PROVE FuncsPast'
  <2>1. CASE pend = <<>> BY <1>2, <2>1 DEF FuncsPast, MergePending
  <2>2. CASE pend # <<>>
    <3>1. /\ pend[1] \in Infos /\ pend[1].tick < now
          /\ check # 0 /\ (check > 0 => pend[1].tick < check)
      BY <1>0, <2>2 DEF FuncsPast
    <3>2. q' = Insert(q, pend[1]) /\ pend' = <<>> BY <1>2, <2>2 DEF MergePending
    <3> QED BY <1>1, <1>2, <3>1, <3>2 DEF FuncsPast
  <2> QED BY <2>1, <2>2
<1>3. ASSUME NEW r \in Infos, Receive(r), ~IsFunc(r) PROVE FuncsPast'
  <2>1. UNCHANGED <<q, now, pend, check>> /\ net' = Append(net, r)
    BY <1>3 DEF Receive
  <2>2. \A i \in 1..Len(net') : ~IsFunc(net'[i])
    BY <1>0, <1>3, <2>1 DEF FuncsPast
  <2> QED BY <2>1, <2>2 DEF FuncsPast
<1>4. CASE NetEvent
  <2>1. PICK t \in 0..MaxTick : Receive(EventInfo(t, events + 1))
    BY <1>4 DEF NetEvent
  <2>2. EventInfo(t, events + 1) \in Infos /\ ~IsFunc(EventInfo(t, events + 1))
    BY <1>0, ConstAssumption DEF EventInfo, Infos, IsFunc
  <2> QED BY <1>3, <2>1, <2>2
<1>5. CASE NetState
  <2>1. PICK t \in 0..now : Receive(StateInfo(t)) BY <1>5 DEF NetState
  <2>2. StateInfo(t) \in Infos /\ ~IsFunc(StateInfo(t))
    BY <1>0 DEF StateInfo, Infos, IsFunc
  <2> QED BY <1>3, <2>1, <2>2
<1>6. CASE LocalEvent
  <2>1. /\ EventInfo(now, events + 1) \in Infos
        /\ ~IsFunc(EventInfo(now, events + 1))
    BY <1>0 DEF EventInfo, Infos, IsFunc
  <2> QED BY <1>1, <1>6, <2>1 DEF LocalEvent, FuncsPast
<1>7. CASE BeginStep BY <1>2, <1>7 DEF BeginStep
<1>8. CASE EndRewind BY <1>2, <1>8 DEF EndRewind
<1>9. ASSUME mi <= Len(net), net' = RemoveAt(net, mi)
      PROVE  \A i \in 1..Len(net') : ~IsFunc(net'[i])
  <2>1. \A i \in 1..Len(net') : \E j \in 1..Len(net) : net'[i] = net[j]
    BY <1>0, <1>9, RemoveAtProps
  <2> QED BY <2>1 DEF FuncsPast
<1>10. CASE MergeDrop BY <1>9, <1>10 DEF MergeDrop, FuncsPast
<1>11. CASE MergeInsert
  <2>1. mi \in 1..Len(net) /\ net[mi] \in Infos BY <1>0, <1>11 DEF MergeInsert
  <2>2. Adjusted(net[mi]) \in Infos /\ ~IsFunc(Adjusted(net[mi]))
    <3>1. ~IsFunc(net[mi]) BY <2>1 DEF FuncsPast
    <3> QED BY <1>0, <2>1, <3>1 DEF Adjusted, Infos, IsFunc
  <2>3. /\ q' = Insert(q, Adjusted(net[mi])) /\ net' = RemoveAt(net, mi)
        /\ UNCHANGED <<pend, now, check>>
    BY <1>11 DEF MergeInsert
  <2> QED BY <1>1, <1>9, <2>1, <2>2, <2>3 DEF FuncsPast
<1>12. CASE MergeEnd
  <2> DEFINE k == FirstKept(q, CleanupTick)
  <2>1. q' = SubSeq(q, k, Len(q)) /\ UNCHANGED <<net, pend, now, check>>
    BY <1>12 DEF MergeEnd
  <2>2. CleanupTick \in Nat BY <1>0, CleanupTickProps, ConstAssumption
  <2> DEFINE u == SubSeq(q, k, Len(q))
  <2>3. k \in 1..(Len(q) + 1) /\ Len(u) = Len(q) - k + 1
        /\ \A i \in 1..Len(u) : u[i] = q[i + k - 1]
    BY <1>0, <2>2, CleanupProps
  <2>a. q' = u BY <2>1
  <2> HIDE DEF k, u
  <2>4. \A i \in 1..Len(u) : i + k - 1 \in 1..Len(q) BY <1>0, <2>3
  <2> QED BY <2>1, <2>3, <2>a, <2>4 DEF FuncsPast
<1>13. ASSUME Simulate PROVE FuncsPast'
  <2>1. pend = <<>> BY <1>13 DEF Simulate, IInv, ConfirmedHeld
  <2>2. UNCHANGED <<q, net>> /\ now' = now + 1 BY <1>13 DEF Simulate
  <2>3. CASE Drive
    <3>1. pend' = <<>> /\ (check' = check \/ check' = -1)
      BY <2>1, <2>3 DEF Drive, UpdateKart
    <3> QED BY <1>0, <2>2, <3>1 DEF FuncsPast
  <2>4. CASE CrossFinish
    <3>1. check' = now + FinishCheck /\ pend'[1] = FuncInfo(now, crossed + 1)
      BY <2>1, <2>4 DEF CrossFinish
    <3>2. pend'[1].tick = now BY <3>1 DEF FuncInfo
    <3>3. check' > now /\ check' # 0 /\ now < now' BY <1>0, <2>2, <3>1
    <3>4. ASSUME NEW i \in 1..Len(q), IsFunc(q[i])
          PROVE  q[i].tick < now' /\ q[i].tick < check'
      <4>1. q[i].tick < now /\ q[i].tick \in Nat BY <1>0, <3>4 DEF FuncsPast
      <4>2. check' \in Nat /\ now' \in Nat BY <1>0, <2>2, <3>1
      <4> QED BY <1>0, <3>3, <4>1, <4>2
    <3> QED BY <2>2, <3>2, <3>3, <3>4 DEF FuncsPast
  <2> QED BY <1>13, <2>3, <2>4 DEF Simulate
<1>14. CASE UNCHANGED <<q, net, pend, now, check>> BY <1>14 DEF FuncsPast
<1>15. CASE ReplayTick
  <2>1. UNCHANGED <<q, net, pend, now>> /\ (check' = check \/ check' = -1)
    BY <1>15 DEF ReplayTick, UpdateKart
  <2> QED BY <1>0, <2>1 DEF FuncsPast
<1> QED
  BY <1>4, <1>5, <1>6, <1>7, <1>8, <1>10, <1>11, <1>12, <1>13, <1>14, <1>15
  DEF Next, MainThread, ServerFinish, MergeSkip, Undo, Play, vars

\* A function of the queue that acts belongs to a finish that still may be
\* confirmed, and those of a tick are the ones m_current passes.
LEMMA ResumedProps ==
  ASSUME IInv, FuncsPast, NEW t \in Nat
  PROVE  /\ Resumed(t) # {} => check > 0
         /\ check > 0 =>
              (Resumed(t) # {} <=>
                  \E i \in cur..(RunEnd(q, cur, t) - 1) : IsFunc(q[i]))
<1> DEFINE e == RunEnd(q, cur, t)
           run == SubSeq(q, cur, e - 1)
<1>0. /\ q \in Seq(Infos) /\ cur \in 1..(Len(q) + 1) /\ Len(q) \in Nat
      /\ check \in Nat \cup {-1}
  BY DEF IInv, TypeOK
<1>1. e \in cur..(Len(q) + 1)
  <2>1. e \in 1..(Len(q) + 1) /\ e >= cur BY <1>0, RunEndProps
  <2> HIDE DEF e
  <2> QED BY <1>0, <2>1
<1> HIDE DEF e
<1>2. /\ Len(run) = e - cur
      /\ \A i \in 1..(e - cur) : run[i] = q[cur + i - 1]
  BY <1>0, <1>1
<1>3. Resumed(t) = {i \in 1..Len(run) : IsFunc(run[i]) /\ Active}
  BY DEF Resumed, RunAt, e
<1> HIDE DEF run
<1>4. ASSUME NEW i \in Resumed(t)
      PROVE  check > 0 /\ \E j \in cur..(e - 1) : IsFunc(q[j])
  <2>1. i \in 1..(e - cur) /\ IsFunc(run[i]) /\ check # -1
    BY <1>2, <1>3 DEF Active
  <2>2. cur + i - 1 \in cur..(e - 1) /\ cur + i - 1 \in 1..Len(q)
    BY <1>0, <1>1, <2>1
  <2>3. IsFunc(q[cur + i - 1]) BY <1>2, <2>1
  <2>4. check # 0 BY <2>2, <2>3 DEF FuncsPast
  <2> QED BY <1>0, <2>1, <2>2, <2>3, <2>4
<1>5. ASSUME check > 0, NEW j \in cur..(e - 1), IsFunc(q[j])
      PROVE  Resumed(t) # {}
  <2>1. j - cur + 1 \in 1..(e - cur) /\ cur + (j - cur + 1) - 1 = j
    BY <1>0, <1>1
  <2>2. run[j - cur + 1] = q[j] BY <1>2, <2>1
  <2>3. check # -1 BY <1>0, <1>5
  <2>4. j - cur + 1 \in Resumed(t) BY <1>2, <1>3, <1>5, <2>1, <2>2, <2>3 DEF Active
  <2> QED BY <2>4
<1> QED BY <1>4, <1>5 DEF e

LEMMA EndHeldNext ==
  ASSUME ConstAssumption, IInv, Replaying, FuncsPast, EndHeld, [Next]_vars
  PROVE  EndHeld'
<1> USE DEF mergeVars, clockVars, kartVars, histVars, queueVars
<1>0. /\ q \in Seq(Infos) /\ cur \in 1..(Len(q) + 1) /\ Len(q) \in Nat
      /\ wt \in Nat /\ now \in Nat /\ SortedSeq(q) /\ check \in Nat \cup {-1}
      /\ {endCtrl, hasSaved, finished, ff} \subseteq BOOLEAN
      /\ FinishCheck \in Nat \ {0}
      /\ \A i \in 1..Len(q) : q[i].tick \in Nat
  BY InfoTicks, ConstAssumption DEF IInv, TypeOK, Sorted
<1>a. pc # "replay" => (endCtrl <=> HasFinished) BY <1>0 DEF EndHeld
<1>1. CASE Undo
  <2> DEFINE u == UndoPos(q, rewTo)
             e == RestoreEnd(q, u)
  <2>1. u \in 1..Len(q) BY <1>1, UndoToLatest DEF Undo
  <2>2. /\ q' = q /\ cur' = e /\ pc' = "replay" /\ pc = "undo"
        /\ UNCHANGED <<hasSaved, check, finished>>
        /\ endCtrl' = (endCtrl /\ (Active => \A i \in u..Len(q) : ~IsFunc(q[i])))
    BY <1>1 DEF Undo
  <2> HIDE DEF u
  <2>4. e \in u..(Len(q) + 1) /\ \A i \in u..(e - 1) : IsState(q[i])
    BY <1>0, <2>1, RestoreProps
  <2> HIDE DEF e
  <2>5. ASSUME NEW i \in u..Len(q), IsFunc(q[i]), check # -1
        PROVE  i \in e..Len(q) /\ check > 0
    <3>1. ~(i \in u..(e - 1)) BY <2>4, <2>5 DEF IsState, IsFunc
    <3>2. i \in 1..Len(q) BY <1>0, <2>1
    <3> QED BY <1>0, <2>1, <2>4, <2>5, <3>1, <3>2 DEF FuncsPast
  <2>6. HasFinished' <=> HasFinished BY <2>2 DEF HasFinished
  <2>7. ASSUME HasFinished
        PROVE  endCtrl' \/ (check > 0 /\ \E i \in e..Len(q) : IsFunc(q[i]))
    BY <1>a, <2>2, <2>5, <2>7 DEF Active
  <2> QED BY <2>2, <2>6, <2>7 DEF EndHeld
<1>2. CASE ReplayTick
  <2> DEFINE e == RunEnd(q, cur, wt)
             isEnd == endCtrl \/ Resumed(wt) # {}
             isSaved == hasSaved \/ Resumed(wt) # {}
             up == ~ff /\ GivesUp(wt, isSaved)
  <2>1. /\ q' = q /\ cur' = e /\ finished' = finished /\ pc' = "replay" /\ pc = "replay"
        /\ endCtrl' = (isEnd /\ ~up) /\ hasSaved' = (isSaved /\ ~up)
        /\ check' = IF up THEN -1 ELSE check
    BY <1>2 DEF ReplayTick, Replay, UpdateKart
  <2>2. \A i \in cur..Len(q) : q[i].tick >= wt BY <2>1 DEF Replaying
  <2>3. /\ e \in cur..(Len(q) + 1)
        /\ \A i \in e..Len(q) : q[i].tick >= wt + 1
        /\ Resumed(wt) # {} => check > 0
        /\ check > 0 =>
             (Resumed(wt) # {} <=> \E i \in cur..(e - 1) : IsFunc(q[i]))
    BY <1>0, <2>2, RunProps, ResumedProps
  <2> HIDE DEF e
  <2>4. isSaved <=> HasFinished BY <2>3 DEF EndHeld, HasFinished
  <2>5. isEnd => HasFinished BY <2>3 DEF EndHeld, HasFinished
  <2>6. ASSUME HasFinished, ~isEnd
        PROVE  check > 0 /\ \E i \in e..Len(q) : IsFunc(q[i])
    <3>1. PICK i \in cur..Len(q) : IsFunc(q[i]) /\ check > 0
      BY <2>6 DEF EndHeld
    <3>2. ~(i \in cur..(e - 1)) BY <2>3, <2>6, <3>1
    <3>3. i \in e..Len(q) BY <1>0, <2>3, <3>2
    <3> QED BY <3>1, <3>3
  <2>7. ASSUME HasFinished, ~isEnd PROVE ~up
    <3>1. PICK i \in e..Len(q) : IsFunc(q[i]) /\ check > 0 BY <2>6, <2>7
    <3>2. i \in 1..Len(q) /\ q[i].tick >= wt + 1 /\ q[i].tick \in Nat
      BY <1>0, <2>3
    <3>3. q[i].tick < check BY <3>1, <3>2 DEF FuncsPast
    <3>4. ~(wt > check) BY <1>0, <3>2, <3>3
    <3> QED BY <3>4 DEF GivesUp
  <2>8. CASE up
    <3>1. ~finished /\ check' = -1 /\ ~hasSaved' /\ ~endCtrl'
      BY <2>1, <2>8 DEF GivesUp
    <3>2. ~HasFinished' BY <2>1, <3>1 DEF HasFinished
    <3> QED BY <3>1, <3>2 DEF EndHeld
  <2>9. CASE ~up
    <3>1. /\ check' = check /\ (hasSaved' <=> isSaved) /\ (endCtrl' <=> isEnd)
          /\ (HasFinished' <=> HasFinished)
      BY <1>0, <2>1, <2>9 DEF HasFinished
    <3> HIDE DEF isEnd, isSaved, up
    <3> QED BY <2>1, <2>4, <2>5, <2>6, <3>1 DEF EndHeld
  <2> QED BY <2>8, <2>9
<1>3. CASE EndRewind
  <2>1. pc = "replay" /\ wt = now /\ UNCHANGED <<endCtrl, hasSaved, check, finished>>
    BY <1>3 DEF EndRewind
  <2>2. \A i \in cur..Len(q) : ~IsFunc(q[i])
    <3> SUFFICES ASSUME NEW i \in cur..Len(q), IsFunc(q[i]) PROVE FALSE
      OBVIOUS
    <3>1. i \in 1..Len(q) BY <1>0
    <3>2. q[i].tick < now /\ q[i].tick >= now /\ q[i].tick \in Nat
      BY <1>0, <2>1, <3>1 DEF FuncsPast, Replaying
    <3> QED BY <1>0, <3>2
  <2> QED BY <2>1, <2>2 DEF EndHeld, HasFinished
<1>4. CASE /\ UNCHANGED <<q, cur, endCtrl, hasSaved, check, finished>>
           /\ (pc = "replay" => pc' = "replay")
  BY <1>4 DEF EndHeld, HasFinished
<1>5. CASE pc # "replay" /\ UNCHANGED <<endCtrl, hasSaved, check, finished>>
  BY <1>5, <1>a DEF EndHeld, HasFinished
<1>6. CASE Simulate
  <2>1. pc = "sim" /\ finished' = finished BY <1>6 DEF Simulate
  <2>2. CASE Drive
    <3> DEFINE up == ~ff /\ GivesUp(now, hasSaved)
    <3>1. /\ endCtrl' = (endCtrl /\ ~up) /\ hasSaved' = (hasSaved /\ ~up)
          /\ check' = IF up THEN -1 ELSE check
      BY <2>2 DEF Drive, UpdateKart
    <3>2. up => ~finished BY DEF GivesUp
    <3> HIDE DEF up
    <3> QED BY <1>0, <1>a, <2>1, <3>1, <3>2 DEF EndHeld, HasFinished
  <2>3. CASE CrossFinish
    <3>1. endCtrl' /\ hasSaved' /\ check' = now + FinishCheck
      BY <2>3 DEF CrossFinish
    <3>2. check' > 0 BY <1>0, <3>1
    <3> QED BY <3>1, <3>2 DEF EndHeld, HasFinished
  <2> QED BY <1>6, <2>2, <2>3 DEF Simulate
<1>7. CASE Play
  <2>1. pc = "play" /\ UNCHANGED <<q, check, finished>> BY <1>7 DEF Play
  <2>2. CASE cur > Len(q) BY <1>5, <1>7, <2>1, <2>2 DEF Play
  <2>3. CASE ~(cur > Len(q))
    <3>1. /\ endCtrl' = (endCtrl \/ Resumed(now) # {})
          /\ hasSaved' = (hasSaved \/ Resumed(now) # {})
      BY <1>7, <2>3 DEF Play
    <3>2. Resumed(now) # {} => check > 0 BY <1>0, ResumedProps
    <3> QED BY <1>a, <2>1, <3>1, <3>2 DEF EndHeld, HasFinished
  <2> QED BY <2>2, <2>3
<1>8. CASE ServerFinish
  <2>1. /\ pc = "idle" /\ finished' /\ hasSaved' /\ check' = check
        /\ endCtrl' = (~hasSaved \/ endCtrl)
    BY <1>8 DEF ServerFinish
  <2>2. endCtrl' BY <1>a, <2>1 DEF EndHeld
  <2> QED BY <2>1, <2>2 DEF EndHeld, HasFinished
<1> QED
  BY <1>1, <1>2, <1>3, <1>4, <1>5, <1>6, <1>7, <1>8 DEF Next, MainThread, NetEvent,
     NetState, LocalEvent, Receive, BeginStep, MergeSkip, MergeDrop, MergeInsert,
     MergeEnd, vars

\* However many rewinds go back before the finish of a kart, and however often
\* a finish is given up: whenever the world is not being rewound, the kart has
\* its end controller, and the player's is saved, exactly if its finish has
\* been confirmed or may still be; and what is given up is an end controller
\* (Kart::finishedRace, Kart::update).
THEOREM EndControllerStays == Spec => []EndControllerKept
<1>1. Init => FuncsPast /\ EndHeld
  <2> SUFFICES ASSUME Init PROVE FuncsPast /\ EndHeld OBVIOUS
  <2>1. Len(q) = 0 /\ Len(net) = 0 BY DEF Init
  <2> QED BY <2>1 DEF Init, FuncsPast, EndHeld, HasFinished
<1>2. IInv /\ Replaying /\ FuncsPast /\ EndHeld /\ [Next]_vars
         => FuncsPast' /\ EndHeld'
  BY FuncsPastNext, EndHeldNext, ConstAssumption
<1>3. IInv /\ Replaying /\ FuncsPast /\ EndHeld => EndControllerKept
  <2> SUFFICES ASSUME IInv, Replaying, FuncsPast, EndHeld
               PROVE  EndControllerKept
    OBVIOUS
  <2>1. pc # "replay" => (endCtrl <=> HasFinished)
    BY DEF EndHeld, IInv, TypeOK
  <2>2. ASSUME GivesUp(wt, hasSaved) PROVE endCtrl
    <3>1. HasFinished /\ check > 0 /\ wt > check
      BY <2>2 DEF EndHeld, GivesUp
    <3>2. SUFFICES ASSUME pc = "replay", NEW i \in cur..Len(q), IsFunc(q[i])
                   PROVE  FALSE
      BY <3>1 DEF EndHeld
    <3>3. /\ i \in 1..Len(q) /\ q[i].tick \in Nat /\ wt \in Nat
          /\ check \in Nat \cup {-1}
      BY InfoTicks DEF IInv, TypeOK
    <3>4. q[i].tick >= wt /\ q[i].tick < check
      BY <3>1, <3>2, <3>3 DEF Replaying, FuncsPast
    <3> QED BY <3>1, <3>3, <3>4
  <2> QED BY <2>1, <2>2 DEF EndControllerKept, EndHeld
<1> QED BY <1>1, <1>2, <1>3, Invariant, ReplayInvariant, PTL DEF Spec


-----------------------------------------------------------------------------
(* The server plays every event once.                                      *)

Ids(s)      == {s[i].id : i \in 1..Len(s)}
Distinct(s) == \A i, j \in 1..Len(s) : s[i].id = s[j].id => i = j

\* What the server has merged and not yet played.
Waiting == SubSeq(q, cur, Len(q))

\* Every event the server has received is in exactly one place: still in the
\* network list, merged and waiting, or played.
ServerOnce ==
    IsServer =>
        /\ played \in Seq(Infos)
        /\ \A i \in 1..Len(q) : ~IsState(q[i])
        /\ Distinct(net) /\ Distinct(Waiting) /\ Distinct(played)
        /\ Ids(net) \cap Ids(Waiting) = {}
        /\ Ids(net) \cap Ids(played) = {}
        /\ Ids(Waiting) \cap Ids(played) = {}
        /\ Ids(net) \cup Ids(Waiting) \cup Ids(played) = 1..events

LEMMA AppendIds ==
  ASSUME NEW s \in Seq(Infos), NEW r \in Infos
  PROVE  LET t == Append(s, r)
         IN /\ Ids(t) = Ids(s) \cup {r.id}
            /\ Distinct(s) /\ r.id \notin Ids(s) => Distinct(t)
<1> DEFINE t == Append(s, r)
           n == Len(s)
<1>1. /\ n \in Nat /\ Len(t) = n + 1 /\ t[n + 1] = r
      /\ \A i \in 1..n : t[i] = s[i]
  OBVIOUS
<1>2. 1..(n + 1) = 1..n \cup {n + 1} BY <1>1
<1> HIDE DEF t
<1>3. Ids(t) = Ids(s) \cup {r.id}
  <2>1. ASSUME NEW i \in 1..Len(t) PROVE t[i].id \in Ids(s) \cup {r.id}
    BY <1>1, <1>2 DEF Ids
  <2>2. ASSUME NEW i \in 1..n PROVE s[i].id \in Ids(t)
    <3>1. i \in 1..Len(t) /\ t[i].id = s[i].id BY <1>1, <1>2
    <3> QED BY <3>1, Zenon DEF Ids
  <2>3. r.id \in Ids(t)
    <3>1. n + 1 \in 1..Len(t) /\ t[n + 1].id = r.id BY <1>1
    <3> QED BY <3>1, Zenon DEF Ids
  <2> QED BY <2>1, <2>2, <2>3 DEF Ids
<1>4. ASSUME Distinct(s), r.id \notin Ids(s) PROVE Distinct(t)
  <2>1. \A i \in 1..n : t[i].id = s[i].id /\ s[i].id # r.id BY <1>1, <1>4 DEF Ids
  <2>2. \A i, j \in 1..n : s[i].id = s[j].id => i = j BY <1>4 DEF Distinct
  <2>3. ASSUME NEW i \in 1..n \cup {n + 1}, NEW j \in 1..n \cup {n + 1},
               t[i].id = t[j].id
        PROVE  i = j
    BY <1>1, <2>1, <2>2, <2>3, Zenon
  <2> QED BY <1>1, <1>2, <2>3 DEF Distinct
<1> QED BY <1>3, <1>4 DEF t

LEMMA RemoveIds ==
  ASSUME NEW s \in Seq(Infos), NEW k \in 1..Len(s), Distinct(s)
  PROVE  LET t == RemoveAt(s, k)
         IN Ids(t) = Ids(s) \ {s[k].id} /\ Distinct(t)
<1> DEFINE t == RemoveAt(s, k)
           f(i) == IF i < k THEN i ELSE i + 1
           g(i) == IF i < k THEN i ELSE i - 1
<1>0. Len(s) \in Nat OBVIOUS
<1>1. Len(t) = Len(s) - 1 /\ \A i \in 1..Len(t) : t[i] = s[f(i)]
  <2>1. \A i \in 1..Len(t) : t[i] = IF i < k THEN s[i] ELSE s[i + 1]
    BY RemoveAtElements
  <2>2. Len(t) = Len(s) - 1 BY RemoveAtElements
  <2> HIDE DEF t
  <2> QED BY <2>1, <2>2
<1> HIDE DEF t
<1>2. /\ \A i \in 1..Len(t) : f(i) \in 1..Len(s) /\ f(i) # k
      /\ \A i, j \in 1..Len(t) : f(i) = f(j) => i = j
      /\ \A i \in 1..Len(s) : i # k => g(i) \in 1..Len(t) /\ f(g(i)) = i
  BY <1>0, <1>1
<1> HIDE DEF f, g
<1>3. \A i, j \in 1..Len(s) : s[i].id = s[j].id => i = j BY DEF Distinct
<1>4. Distinct(t)
  <2>1. ASSUME NEW i \in 1..Len(t), NEW j \in 1..Len(t), t[i].id = t[j].id
        PROVE  i = j
    <3>1. s[f(i)].id = s[f(j)].id BY <1>1, <2>1
    <3> QED BY <1>2, <1>3, <3>1
  <2> QED BY <2>1 DEF Distinct
<1>5. ASSUME NEW i \in 1..Len(t) PROVE t[i].id \in Ids(s) \ {s[k].id}
  <2>1. t[i].id = s[f(i)].id /\ f(i) \in 1..Len(s) BY <1>1, <1>2
  <2>2. s[f(i)].id # s[k].id BY <1>2, <1>3
  <2> QED BY <2>1, <2>2 DEF Ids
<1>6. ASSUME NEW i \in 1..Len(s), s[i].id # s[k].id PROVE s[i].id \in Ids(t)
  <2>1. g(i) \in 1..Len(t) /\ f(g(i)) = i BY <1>2, <1>6
  <2>2. t[g(i)].id = s[i].id BY <1>1, <2>1
  <2> QED BY <2>1, <2>2, Zenon DEF Ids
<1>7. Ids(t) \subseteq Ids(s) \ {s[k].id} BY <1>5 DEF Ids
<1>8. Ids(s) \ {s[k].id} \subseteq Ids(t)
  <2>1. ASSUME NEW x \in Ids(s), x # s[k].id PROVE x \in Ids(t)
    <3>1. PICK i \in 1..Len(s) : x = s[i].id BY DEF Ids
    <3> QED BY <1>6, <2>1, <3>1
  <2> QED BY <2>1
<1> QED BY <1>4, <1>7, <1>8 DEF t

LEMMA ConcatIds ==
  ASSUME NEW s \in Seq(Infos), NEW u \in Seq(Infos)
  PROVE  LET t == s \o u
         IN /\ Ids(t) = Ids(s) \cup Ids(u)
            /\ Distinct(s) /\ Distinct(u) /\ Ids(s) \cap Ids(u) = {} => Distinct(t)
<1> DEFINE t == s \o u
           n == Len(s)
           m == Len(u)
<1>1. /\ n \in Nat /\ m \in Nat /\ Len(t) = n + m
      /\ \A i \in 1..n : t[i] = s[i]
      /\ \A i \in (n + 1)..(n + m) : t[i] = u[i - n]
  OBVIOUS
<1> HIDE DEF t, n, m
<1>2. ASSUME NEW i \in 1..Len(t)
      PROVE  \/ i \in 1..n /\ t[i] = s[i]
             \/ i - n \in 1..m /\ t[i] = u[i - n]
  <2>1. CASE i <= n BY <1>1, <2>1
  <2>2. CASE i > n BY <1>1, <2>2
  <2> QED BY <1>1, <2>1, <2>2
<1>3. Ids(t) = Ids(s) \cup Ids(u)
  <2>1. ASSUME NEW i \in 1..Len(t) PROVE t[i].id \in Ids(s) \cup Ids(u)
    BY <1>2 DEF Ids, n, m
  <2>2. ASSUME NEW i \in 1..n PROVE s[i].id \in Ids(t)
    <3>1. i \in 1..Len(t) /\ t[i].id = s[i].id BY <1>1
    <3> QED BY <3>1, Zenon DEF Ids
  <2>3. ASSUME NEW i \in 1..m PROVE u[i].id \in Ids(t)
    <3>1. n + i \in 1..Len(t) /\ n + i \in (n + 1)..(n + m) /\ (n + i) - n = i
      BY <1>1
    <3>2. t[n + i].id = u[i].id BY <1>1, <3>1
    <3> QED BY <3>1, <3>2, Zenon DEF Ids
  <2> QED BY <2>1, <2>2, <2>3 DEF Ids, n, m
<1>4. ASSUME Distinct(s), Distinct(u), Ids(s) \cap Ids(u) = {} PROVE Distinct(t)
  <2>1. /\ \A i, j \in 1..n : s[i].id = s[j].id => i = j
        /\ \A i, j \in 1..m : u[i].id = u[j].id => i = j
        /\ \A i \in 1..n, j \in 1..m : s[i].id # u[j].id
    BY <1>4 DEF Distinct, Ids, n, m
  <2>2. ASSUME NEW i \in 1..Len(t), NEW j \in 1..Len(t), t[i].id = t[j].id
        PROVE  i = j
    <3>1. CASE i \in 1..n /\ j \in 1..n BY <1>1, <2>1, <2>2, <3>1
    <3>2. CASE i \in 1..n /\ j - n \in 1..m /\ t[i] = s[i] /\ t[j] = u[j - n]
      BY <2>1, <2>2, <3>2, Zenon
    <3>3. CASE j \in 1..n /\ i - n \in 1..m /\ t[j] = s[j] /\ t[i] = u[i - n]
      BY <2>1, <2>2, <3>3, Zenon
    <3>4. CASE i - n \in 1..m /\ j - n \in 1..m /\ t[i] = u[i - n] /\ t[j] = u[j - n]
      <4>1. i - n = j - n BY <2>1, <2>2, <3>4, Zenon
      <4> QED BY <1>1, <4>1
    <3> QED BY <1>2, <3>1, <3>2, <3>3, <3>4, Zenon
  <2> QED BY <2>2 DEF Distinct
<1> QED BY <1>3, <1>4 DEF t

\* On a server, what is merged goes to the end of the queue.
LEMMA ServerInsert ==
  ASSUME NEW s \in Seq(Infos), NEW c \in 1..(Len(s) + 1), NEW r \in Infos,
         ~IsState(r), \A i \in 1..Len(s) : s[i].tick <= r.tick
  PROVE  LET t == Insert(s, r)
         IN /\ t = Append(s, r)
            /\ CurAfterInsert(s, c, r) = c
            /\ SubSeq(t, c, Len(t)) = Append(SubSeq(s, c, Len(s)), r)
<1> DEFINE p == InsertPos(s, r)
           t == Insert(s, r)
           a == Append(s, r)
           n == Len(s)
<1>0. /\ n \in Nat /\ r.tick \in Nat
      /\ \A i \in 1..n : s[i].tick \in Nat
  BY InfoTicks DEF Infos
<1>1. /\ p \in 1..(n + 1)
      /\ \A i \in p..n : ~StopsSearch(s[i], r)
      /\ t \in Seq(Infos) /\ Len(t) = n + 1
      /\ \A i \in 1..(p - 1) : t[i] = s[i]
      /\ t[p] = r
  BY InsertProps
<1>2. \A i \in 1..n : StopsSearch(s[i], r) BY <1>0 DEF StopsSearch
<1>3. p = n + 1
  <2>1. p <= n => p \in p..n /\ p \in 1..n BY <1>0, <1>1
  <2> HIDE DEF p, n
  <2> QED BY <1>0, <1>1, <1>2, <2>1
<1>4. CurAfterInsert(s, c, r) = c
  <2> HIDE DEF p
  <2> QED BY <1>0, <1>3 DEF CurAfterInsert, p
<1>5. a \in Seq(Infos) /\ Len(a) = n + 1 /\ a[n + 1] = r /\ \A i \in 1..n : a[i] = s[i]
  OBVIOUS
<1>6. t = a
  <2> HIDE DEF t, a, p, n
  <2>1. \A i \in 1..Len(t) : t[i] = a[i]
    BY <1>0, <1>1, <1>3, <1>5
  <2> QED BY <1>1, <1>5, <2>1, SeqEqual
<1>7. SubSeq(a, c, n + 1) = Append(SubSeq(s, c, n), r) BY <1>0
<1> HIDE DEF t, a
<1> QED BY <1>1, <1>4, <1>6, <1>7 DEF t, a

\* Merging a late event takes it from the network list to the waiting ones.
LEMMA MergeOnce ==
  ASSUME IInv, ServerOnce, MergeInsert
  PROVE  ServerOnce'
<1> SUFFICES ASSUME IsServer PROVE ServerOnce' BY DEF ServerOnce
<1> DEFINE r == Adjusted(net[mi])
<1>1. /\ q \in Seq(Infos) /\ cur \in 1..(Len(q) + 1) /\ Len(q) \in Nat
      /\ net \in Seq(Infos) /\ mi \in 1..Len(net) /\ now \in Nat
      /\ \A i \in 1..Len(q) : q[i].tick <= now
      /\ \A i \in 1..Len(net) : ~IsState(net[i])
  BY DEF MergeInsert, IInv, TypeOK, ServerQueue
<1>2. /\ r \in Infos /\ r.tick = now /\ ~IsState(r) /\ r.id = net[mi].id
  <2>1. net[mi] \in Infos /\ ~IsState(net[mi]) BY <1>1
  <2>2. r = [net[mi] EXCEPT !.tick = now] BY DEF Adjusted
  <2> HIDE DEF r
  <2> QED BY <1>1, <2>1, <2>2 DEF Infos, IsState
<1>3. /\ q' = Insert(q, r) /\ cur' = CurAfterInsert(q, cur, r)
      /\ net' = RemoveAt(net, mi) /\ UNCHANGED <<played, events>>
  BY DEF MergeInsert, histVars
<1> HIDE DEF r
<1>4. q' = Append(q, r) /\ cur' = cur /\ Waiting' = Append(Waiting, r)
  BY <1>1, <1>2, <1>3, ServerInsert DEF Waiting
<1>5. Waiting \in Seq(Infos) BY <1>1 DEF Waiting
<1>6. net[mi].id \in Ids(net) BY <1>1 DEF Ids
<1>7. Ids(net') = Ids(net) \ {r.id} /\ Distinct(net')
  BY <1>1, <1>2, <1>3, RemoveIds DEF ServerOnce
<1>8. r.id \notin Ids(Waiting) /\ r.id \notin Ids(played)
  BY <1>2, <1>6 DEF ServerOnce
<1>9. Ids(Waiting') = Ids(Waiting) \cup {r.id} /\ Distinct(Waiting')
  BY <1>2, <1>4, <1>5, <1>8, AppendIds DEF ServerOnce
<1>10. \A i \in 1..Len(q') : ~IsState(q'[i]) BY <1>1, <1>2, <1>4 DEF ServerOnce
<1> QED BY <1>2, <1>3, <1>6, <1>7, <1>8, <1>9, <1>10 DEF ServerOnce

\* The clean-up of a server drops what has been played, nothing that waits.
LEMMA CleanupOnce ==
  ASSUME ConstAssumption, IInv, ServerOnce, MergeEnd
  PROVE  ServerOnce'
<1> SUFFICES ASSUME IsServer PROVE ServerOnce' BY DEF ServerOnce
<1> DEFINE k == FirstKept(q, CleanupTick)
           u == SubSeq(q, k, Len(q))
<1>1. /\ q \in Seq(Infos) /\ cur \in 1..(Len(q) + 1) /\ Len(q) \in Nat
      /\ now \in Nat /\ latest = -1 /\ lcs = -1
      /\ \A i \in cur..Len(q) : q[i].tick = now
  BY DEF MergeEnd, IInv, TypeOK, ServerQueue
<1>2. CleanupTick = now
  <2>1. CleanupTick = Max({0, now}) BY <1>1 DEF CleanupTick
  <2>2. Max({0, now}) \in {0, now} /\ \A y \in {0, now} : Max({0, now}) >= y
    <3>1. \E x \in {0, now} : \A y \in {0, now} : x >= y BY <1>1
    <3> QED BY <3>1 DEF Max
  <2> QED BY <1>1, <2>1, <2>2
<1>3. /\ k \in 1..(Len(q) + 1) /\ u \in Seq(Infos) /\ Len(u) = Len(q) - k + 1
      /\ \A i \in 1..Len(u) : u[i] = q[i + k - 1]
      /\ \A i \in 1..Len(q) : q[i].tick >= now => k <= i
  <2>1. CleanupTick \in Nat BY <1>1, <1>2
  <2>2. /\ k \in 1..(Len(q) + 1) /\ u \in Seq(Infos) /\ Len(u) = Len(q) - k + 1
        /\ \A i \in 1..Len(u) : u[i] = q[i + k - 1]
        /\ \A i \in 1..Len(q) : q[i].tick >= CleanupTick => k <= i
    BY <1>1, <2>1, CleanupProps
  <2> HIDE DEF k, u
  <2> QED BY <1>2, <2>2
<1>4. /\ q' = u /\ cur' = (IF cur < k THEN 1 ELSE cur - k + 1)
      /\ UNCHANGED <<net, played, events>>
  BY DEF MergeEnd, histVars
<1> HIDE DEF k, u
<1>5. k <= cur
  <2>1. CASE cur = Len(q) + 1 BY <1>1, <1>3, <2>1
  <2>2. CASE cur <= Len(q)
    <3>1. cur \in cur..Len(q) /\ cur \in 1..Len(q) BY <1>1, <2>2
    <3>2. q[cur].tick >= now BY <1>1, <3>1
    <3> QED BY <1>3, <3>1, <3>2
  <2> QED BY <1>1, <2>1, <2>2
<1>6. cur' = cur - k + 1 BY <1>1, <1>3, <1>4, <1>5
<1>7. Waiting' = Waiting
  <2> DEFINE a == SubSeq(u, cur - k + 1, Len(u))
             b == SubSeq(q, cur, Len(q))
  <2>1. /\ a \in Seq(Infos) /\ Len(a) = Len(q) - cur + 1
        /\ \A i \in 1..Len(a) : a[i] = u[cur - k + i]
    BY <1>1, <1>3, <1>5
  <2>2. /\ b \in Seq(Infos) /\ Len(b) = Len(q) - cur + 1
        /\ \A i \in 1..Len(b) : b[i] = q[cur + i - 1]
    BY <1>1
  <2> HIDE DEF a, b
  <2>3. ASSUME NEW i \in 1..Len(a) PROVE a[i] = b[i]
    <3> DEFINE j == cur - k + i
    <3>1. j \in 1..Len(u) /\ j + k - 1 = cur + i - 1 BY <1>1, <1>3, <1>5, <2>1
    <3>2. a[i] = u[j] BY <2>1
    <3> HIDE DEF j
    <3>3. u[j] = q[j + k - 1] BY <1>3, <3>1
    <3> QED BY <2>1, <2>2, <3>1, <3>2, <3>3
  <2>4. a = b BY <2>1, <2>2, <2>3, SeqEqual
  <2> QED BY <1>4, <1>6, <2>4 DEF Waiting, a, b
<1>8. ASSUME NEW i \in 1..Len(q') PROVE ~IsState(q'[i])
  <2>0. i \in 1..Len(u) /\ q'[i] = u[i] BY <1>4
  <2>1. i + k - 1 \in 1..Len(q) /\ q'[i] = q[i + k - 1]
    BY <1>1, <1>3, <2>0
  <2> QED BY <2>1 DEF ServerOnce
<1> QED BY <1>4, <1>7, <1>8 DEF ServerOnce

\* What waits is all of the current tick, and is played at once.
LEMMA PlayOnce ==
  ASSUME IInv, ServerOnce, Play
  PROVE  ServerOnce'
<1> SUFFICES ASSUME IsServer PROVE ServerOnce' BY DEF ServerOnce
<1>1. /\ q \in Seq(Infos) /\ cur \in 1..(Len(q) + 1) /\ Len(q) \in Nat
      /\ now \in Nat /\ \A i \in cur..Len(q) : q[i].tick = now
  BY DEF Play, IInv, TypeOK, ServerQueue
<1>2. UNCHANGED <<q, net, events>> BY DEF Play, histVars
<1>3. CASE cur > Len(q)
  <2>1. UNCHANGED <<cur, played>> BY <1>3 DEF Play
  <2> QED BY <1>2, <2>1 DEF ServerOnce, Waiting
<1>4. CASE ~(cur > Len(q))
  <2>1. Replay(now) BY <1>4 DEF Play
  <2>2. RunEnd(q, cur, now) = Len(q) + 1 BY <1>1, RunEndProps
  <2>3. (Len(q) + 1) - 1 = Len(q) BY <1>1
  <2>4. /\ cur' = Len(q) + 1
        /\ played' = played \o Selected(Waiting, Replayable)
    BY <2>1, <2>2, <2>3 DEF Replay, RunAt, Waiting
  <2>5. Waiting \in Seq(Infos) /\ \A i \in 1..Len(Waiting) : Waiting[i] \in Replayable
    <3> DEFINE w == SubSeq(q, cur, Len(q))
    <3>1. /\ w \in Seq(Infos) /\ Len(w) = Len(q) - cur + 1
          /\ \A i \in 1..Len(w) : w[i] = q[cur + i - 1]
      BY <1>1
    <3>2. w = Waiting BY DEF Waiting
    <3> HIDE DEF w
    <3>3. ASSUME NEW i \in 1..Len(w) PROVE w[i] \in Replayable
      <4>1. cur + i - 1 \in 1..Len(q) /\ w[i] = q[cur + i - 1] /\ w[i] \in Infos
        BY <1>1, <3>1
      <4> QED BY <4>1 DEF Replayable, ServerOnce
    <3> QED BY <3>1, <3>2, <3>3
  <2>6. Selected(Waiting, Replayable) = Waiting BY <2>5, SelectedAll
  <2>7. played' = played \o Waiting /\ played \in Seq(Infos)
    BY <2>4, <2>6 DEF ServerOnce
  <2>8. /\ Ids(played') = Ids(played) \cup Ids(Waiting)
        /\ Distinct(played') /\ played' \in Seq(Infos)
    BY <2>5, <2>7, ConcatIds DEF ServerOnce
  <2>9. Waiting' = <<>> BY <1>1, <1>2, <2>4 DEF Waiting
  <2>10. Ids(Waiting') = {} /\ Distinct(Waiting') BY <2>9 DEF Ids, Distinct
  <2> QED BY <1>2, <2>8, <2>10 DEF ServerOnce
<1> QED BY <1>3, <1>4

LEMMA OnceServerNext ==
  ASSUME ConstAssumption, IInv, ServerOnce, [Next]_vars
  PROVE  ServerOnce'
<1> USE DEF mergeVars, clockVars, kartVars, histVars, queueVars
<1> SUFFICES ASSUME IsServer PROVE ServerOnce' BY DEF ServerOnce
<1>0. /\ net \in Seq(Infos) /\ events \in Nat /\ latest = -1 /\ pend = <<>>
      /\ pc # "replay" /\ pc # "undo" /\ mi \in Nat \ {0}
      /\ \A i \in 1..Len(net) : net[i].tick \in Nat
  BY InfoTicks DEF IInv, TypeOK, ServerQueue, RewindTarget
<1>1. CASE UNCHANGED <<q, cur, net, played, events>>
  BY <1>1 DEF ServerOnce, Waiting
<1>2. CASE NetEvent
  <2>1. PICK t \in 0..MaxTick : Receive(EventInfo(t, events + 1))
    BY <1>2 DEF NetEvent
  <2> DEFINE r == EventInfo(t, events + 1)
  <2>2. r \in Infos /\ r.id = events + 1
    BY <1>0, ConstAssumption DEF EventInfo, Infos
  <2>3. /\ net' = Append(net, r) /\ UNCHANGED <<q, cur, played>> /\ events' = events + 1
    BY <1>2, <2>1 DEF Receive, NetEvent
  <2> HIDE DEF r
  <2>4. r.id \notin 1..events /\ 1..(events + 1) = 1..events \cup {r.id}
    BY <1>0, <2>2
  <2>5. Ids(net') = Ids(net) \cup {r.id} /\ Distinct(net')
    BY <1>0, <2>2, <2>3, <2>4, AppendIds DEF ServerOnce
  <2>6. Waiting' = Waiting BY <2>3 DEF Waiting
  <2> QED BY <2>2, <2>3, <2>4, <2>5, <2>6 DEF ServerOnce
<1>3. CASE BeginStep BY <1>0, <1>1, <1>3 DEF BeginStep, MergePending
<1>4. ~MergeDrop
  <2> SUFFICES ASSUME MergeDrop PROVE FALSE OBVIOUS
  <2>1. mi \in 1..Len(net) BY <1>0 DEF MergeDrop
  <2> QED BY <1>0, <2>1 DEF MergeDrop, TooOld
<1>5. /\ ~NetState /\ ~LocalEvent /\ ~ServerFinish
      /\ ~Undo /\ ~ReplayTick /\ ~EndRewind
  BY <1>0 DEF NetState, LocalEvent, ServerFinish, Undo, ReplayTick, EndRewind
<1>6. CASE Simulate BY <1>1, <1>6 DEF Simulate
<1>7. CASE MergeSkip BY <1>1, <1>7 DEF MergeSkip
<1>8. CASE UNCHANGED vars BY <1>1, <1>8 DEF vars
<1> QED
  BY <1>2, <1>3, <1>4, <1>5, <1>6, <1>7, <1>8, MergeOnce, CleanupOnce, PlayOnce
  DEF Next, MainThread

\* The server plays every event it has received exactly once, however late the
\* events come and in whatever order; the others are still in its list.
THEOREM ServerPlaysOnce == Spec => []ServerExactlyOnce
<1>1. Init => ServerOnce
  <2> SUFFICES ASSUME Init PROVE ServerOnce OBVIOUS
  <2>1. q = <<>> /\ cur = 1 /\ net = <<>> /\ played = <<>> /\ events = 0 BY DEF Init
  <2>2. Waiting = <<>> BY <2>1 DEF Waiting
  <2>3. Ids(<<>>) = {} /\ Distinct(<<>>) BY DEF Ids, Distinct
  <2> QED BY <2>1, <2>2, <2>3 DEF ServerOnce
<1>2. IInv /\ ServerOnce /\ [Next]_vars => ServerOnce'
  BY OnceServerNext, ConstAssumption
<1>3. IInv /\ ServerOnce => ServerExactlyOnce
  <2> SUFFICES ASSUME IInv, ServerOnce, IsServer, pc = "sim"
               PROVE  /\ IsInjective(PlayedIds)
                      /\ 1..events \subseteq
                            ToSet(PlayedIds) \cup {r.id : r \in ToSet(net)}
                      /\ \A r \in ToSet(net) : r.id \notin ToSet(PlayedIds)
    BY DEF ServerExactlyOnce
  <2>1. /\ q \in Seq(Infos) /\ net \in Seq(Infos) /\ cur = Len(q) + 1
        /\ played \in Seq(Infos)
    BY DEF IInv, TypeOK, ServerQueue, ServerOnce
  <2>2. Waiting = <<>>
    <3>1. Len(q) \in Nat BY <2>1
    <3> QED BY <2>1, <3>1 DEF Waiting
  <2>3. Ids(Waiting) = {} BY <2>2 DEF Ids
  <2>4. /\ DOMAIN PlayedIds = 1..Len(played)
        /\ \A i \in 1..Len(played) : PlayedIds[i] = played[i].id
    BY DEF PlayedIds
  <2>5. IsInjective(PlayedIds) BY <2>4 DEF IsInjective, ServerOnce, Distinct
  <2>6. Len(PlayedIds) = Len(played)
    BY <2>1 DEF PlayedIds
  <2>7. ToSet(PlayedIds) = Ids(played)
    BY <2>4, <2>6 DEF ToSet, Ids
  <2>8. {r.id : r \in ToSet(net)} = Ids(net) BY DEF ToSet, Ids
  <2>9. \A r \in ToSet(net) : r.id \in Ids(net) BY <2>8
  <2> QED BY <2>3, <2>5, <2>7, <2>8, <2>9 DEF ServerOnce
<1> QED BY <1>1, <1>2, <1>3, Invariant, PTL DEF Spec

=============================================================================
