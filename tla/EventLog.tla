------------------------------ MODULE EventLog ------------------------------
(***************************************************************************)
(* What the item protocol promises, without times, messages or items: the  *)
(* server has one log of item events, and every replica that takes part    *)
(* has applied an initial part of it, which only grows.  Nothing is ever   *)
(* applied twice or out of order, and nothing is passed over.              *)
(***************************************************************************)
EXTENDS Naturals

CONSTANT Replicas

VARIABLES
    len,      \* number of events in the server's log
    member,   \* the replicas that take part in the race
    seen      \* the events that each replica has applied

vars == <<len, member, seen>>

Events(n) == 1 .. n
Initial(S) == \A i \in S : 1 .. i \subseteq S

Init ==
    /\ len = 0
    /\ member \subseteq Replicas
    /\ seen = [r \in Replicas |-> {}]

\* The server logs one more event.
Log == len' = len + 1 /\ UNCHANGED <<member, seen>>

\* A replica applies what follows what it has applied.
CatchUp(r) == \E S \in SUBSET Events(len) :
    /\ r \in member
    /\ seen[r] \subseteq S /\ Initial(S)
    /\ seen' = [seen EXCEPT ![r] = S]
    /\ UNCHANGED <<len, member>>

\* A replica that joins starts with all that has been logged.
Join(r) ==
    /\ r \notin member
    /\ member' = member \cup {r}
    /\ seen' = [seen EXCEPT ![r] = Events(len)]
    /\ UNCHANGED len

Leave(r) ==
    /\ r \in member
    /\ member' = member \ {r}
    /\ seen' = [seen EXCEPT ![r] = {}]
    /\ UNCHANGED len

Next == Log \/ \E r \in Replicas : CatchUp(r) \/ Join(r) \/ Leave(r)

Spec == Init /\ [][Next]_vars
=============================================================================
