--------------------------- MODULE SequenceLemmas ---------------------------
(* Facts about natural numbers and about functions that are defined by     *)
(* recursion over the positions of a sequence, for the proofs about the    *)
(* components.  Induction is stated with a set of numbers, to which the    *)
(* step belongs that is to be proved, and not with a predicate.            *)
EXTENDS Integers, Sequences, WellFoundedInduction, TLAPS

\* Every nonempty set of naturals has a least element.
LEMMA LeastOfNats ==
    ASSUME NEW S, S \subseteq Nat, S # {}
    PROVE  \E m \in S : \A x \in S : m <= x
  <1> DEFINE R == OpToRel(<, Nat)
  <1>1. \E m \in S : \A x \in S : <<x, m>> \notin R
    <2> HIDE DEF R
    <2>1. IsWellFoundedOn(R, Nat)
      BY NatLessThanWellFounded, Zenon DEF R
    <2> QED BY <2>1, WFMin, Zenon
  <1>2. \A x, m \in Nat : <<x, m>> \notin R => m <= x
    BY DEF OpToRel
  <1> QED BY <1>1, <1>2

\* Induction up to n.
LEMMA UpTo ==
    ASSUME NEW n \in Nat, NEW S, 0 \in S,
           \A i \in 0..(n - 1) : i \in S => i + 1 \in S
    PROVE  \A i \in 0..n : i \in S
  <1> DEFINE B == {i \in 0..n : i \notin S}
  <1>1. SUFFICES ASSUME B # {} PROVE FALSE
    OBVIOUS
  <1>2. PICK m \in B : \A x \in B : m <= x
    <2>1. B \subseteq Nat
      OBVIOUS
    <2> HIDE DEF B
    <2> QED BY <1>1, <2>1, LeastOfNats
  <1>3. m # 0 /\ m - 1 \in 0..(n - 1)
    BY <1>2
  <1>4. m - 1 \in S
    BY <1>2, <1>3
  <1> QED BY <1>2, <1>3, <1>4

\* f is defined by recursion over the numbers up to n, with values in A.
Recursion(n, A, a0, step, f) ==
    /\ f \in [0..n -> A]
    /\ f[0] = a0
    /\ \A i \in 1..n : f[i] = step[<<i, f[i - 1]>>]

HasRecursion(n, A, a0, step) == \E f : Recursion(n, A, a0, step, f)

\* Such a function exists.
LEMMA RecursionExists ==
    ASSUME NEW n \in Nat, NEW A, NEW a0 \in A,
           NEW step \in [(1..n) \X A -> A]
    PROVE  HasRecursion(n, A, a0, step)
  <1> DEFINE Up(m, f) == /\ f[0] = a0
                         /\ \A i \in 1..m : f[i] = step[<<i, f[i - 1]>>]
             S == {m \in 0..n : \E f \in [0..m -> A] : Up(m, f)}
  <1>1. 0 \in S
    <2>1. [i \in 0..0 |-> a0] \in [0..0 -> A] /\ Up(0, [i \in 0..0 |-> a0])
      OBVIOUS
    <2>2. \E f \in [0..0 -> A] : Up(0, f)
      <3> HIDE DEF Up
      <3> QED BY <2>1
    <2> QED BY <2>2
  <1>2. ASSUME NEW m \in 0..(n - 1), m \in S PROVE m + 1 \in S
    <2>1. PICK f \in [0..m -> A] : Up(m, f)
      BY <1>2
    <2> DEFINE g == [i \in 0..(m + 1) |->
                        IF i = m + 1 THEN step[<<m + 1, f[m]>>] ELSE f[i]]
    <2>2. step[<<m + 1, f[m]>>] \in A
      <3>1. m + 1 \in 1..n /\ m \in 0..m
        OBVIOUS
      <3>2. <<m + 1, f[m]>> \in (1..n) \X A
        BY <3>1
      <3> QED BY <3>2
    <2>3. g \in [0..(m + 1) -> A]
      BY <2>2
    <2>4. g[m + 1] = step[<<m + 1, f[m]>>] /\ \A i \in 0..m : g[i] = f[i]
      OBVIOUS
    <2> HIDE DEF g
    <2>5. Up(m + 1, g)
      BY <2>1, <2>4
    <2> QED BY <2>3, <2>5
  <1> HIDE DEF S
  <1>3. n \in S
    BY <1>1, <1>2, UpTo
  <1> QED BY <1>3 DEF S, HasRecursion, Recursion

\* A sequence is one of what its elements belong to.
LEMMA SeqWithin ==
    ASSUME NEW S, NEW T, NEW s \in Seq(S), \A i \in 1..Len(s) : s[i] \in T
    PROVE  s \in Seq(T)
  <1>1. Len(s) \in Nat /\ s = [i \in 1..Len(s) |-> s[i]]
    OBVIOUS
  <1> QED BY <1>1

=============================================================================
