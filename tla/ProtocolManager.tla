-------------------------- MODULE ProtocolManager --------------------------
(***************************************************************************)
(* ProtocolManager (protocol_manager.cpp): the protocols of one host and   *)
(* the events it delivers to them, from four threads:                      *)
(*   net    STKHost::mainLoop, which passes on what arrives (stk_host.cpp) *)
(*   main   update(), which delivers the synchronous events                *)
(*   async  asynchronousUpdate(), which delivers the other ones            *)
(*   ctrl   on a server only, delivers controller events at once           *)
(* Each of main and async works in passes, on a copy of m_all_protocols,   *)
(* and releases the lock of its list while a handler runs.  Protocols are  *)
(* started and terminated at any time, by any thread.                      *)
(*                                                                         *)
(* Only shared pointers keep the manager alive: one in each of its threads *)
(* and one in whoever has called lock().  The last to let go destroys it.  *)
(***************************************************************************)
EXTENDS Naturals, Sequences, FiniteSets, SequencesExt

CONSTANTS
    Protocols,    \* the protocol instances
    TypeOf,       \* their types
    CtrlType,     \* PROTOCOL_CONTROLLER_EVENTS
    Disconnects,  \* the types that handle disconnections
    Treats,       \* <<p, sync>>: p has a handler for such events
    IsServer,     \* NetworkConfig::isServer()
    Kinds,        \* the events that arrive: [message, type, sync]
    MaxEvents,    \* bound: number of events that are propagated
    None

Types == {TypeOf[p] : p \in Protocols}

ASSUME PMAssumption ==
    /\ TypeOf \in [Protocols -> Types \cup {CtrlType}]
    /\ Treats \subseteq Protocols \X BOOLEAN
    /\ IsServer \in BOOLEAN /\ MaxEvents \in Nat
    /\ \A k \in Kinds : k.message \in BOOLEAN /\ k.sync \in BOOLEAN
    /\ None \notin [id : Nat, kind : Kinds]

VARIABLES
    running,   \* m_all_protocols
    started,   \* every protocol that was ever started
    list,      \* m_sync_/m_async_events_to_process, m_controller_events_list
    pos,       \* the iterator i of main and async
    snap,      \* their local copies all_protocols
    at,        \* where they are
    old,       \* ids of the events older than TIME_TO_KEEP_EVENTS
    ctrlAt,    \* where the controller event thread is
    ctrlEv,    \* its event_top
    racing,    \* ServerLobby is in WAIT_FOR_WORLD_LOADED to RACING
    netAt,     \* where the network thread is
    exit,      \* m_exit
    mpc,       \* where the main thread is in STKHost::shutdown
    holders,   \* threads that hold a shared pointer to the manager
    destroyer, \* the thread that ran ~ProtocolManager
    arrived,   \* history: number of events propagated
    deleted,   \* history: ids of the events deleted
    handled    \* history: what each protocol has handled, in that order

passVars == <<pos, snap, at>>
ctrlVars == <<ctrlAt, ctrlEv>>
lifeVars == <<exit, mpc, holders, destroyer>>
protVars == <<running, started>>
histVars == <<arrived, deleted, handled>>
vars == <<running, started, list, pos, snap, at, old, ctrlAt, ctrlEv, racing,
          netAt, exit, mpc, holders, destroyer, arrived, deleted, handled>>

Threads == {"main", "async"}
Lists == Threads \cup {"ctrl"}
Events == [id : 1..MaxEvents, kind : Kinds]

Ids(s) == {s[i].id : i \in {j \in 1..Len(s) : s[j] # None}}

-----------------------------------------------------------------------------
Init ==
    /\ running = {} /\ started = {}
    /\ list = [l \in Lists |-> <<>>]
    /\ pos = [t \in Threads |-> 1] /\ snap = [t \in Threads |-> {}]
    /\ at = [t \in Threads |-> "idle"]
    /\ old = {}
    /\ ctrlAt = (IF IsServer THEN "awake" ELSE "dead") /\ ctrlEv = None
    /\ racing = FALSE /\ netAt = "poll"
    /\ exit = FALSE /\ mpc = "run" /\ destroyer = "none"
    /\ holders = {"async"} \cup (IF IsServer THEN {"ctrl"} ELSE {})
    /\ arrived = 0 /\ deleted = {}
    /\ handled = [p \in Protocols |-> <<>>]

-----------------------------------------------------------------------------
(* Life of the manager                                                     *)

\* Mutant: the destructor forgets the controller events.
FreesTwoLists == Ids(list["main"]) \cup Ids(list["async"])

\* What ~ProtocolManager deletes.
Frees == UNION {Ids(list[l]) : l \in Lists}

\* A shared pointer goes out of scope.
Release(h) ==
    /\ holders' = holders \ {h}
    /\ IF holders = {h}
       THEN /\ destroyer' = h
            /\ running' = {}
            /\ deleted' = deleted \cup Frees
            /\ list' = [l \in Lists |-> <<>>]
       ELSE UNCHANGED <<destroyer, running, deleted, list>>

\* Mutant: the condition variable is not notified.
NoNotify == ctrlAt

\* notify_one on m_game_protocol_cv
Notify == IF ctrlAt = "asleep" THEN "awake" ELSE ctrlAt

-----------------------------------------------------------------------------
(* The network thread                                                      *)

\* auto pm = ProtocolManager::lock(); the pointer is held until the end of
\* the iteration, also when the manager is found to be exiting.
NetLock ==
    /\ netAt = "poll" /\ holders # {}
    /\ exit \/ arrived < MaxEvents
    /\ holders' = holders \cup {"net"}
    /\ netAt' = IF exit THEN "release" ELSE "propagate"
    /\ UNCHANGED <<protVars, list, passVars, old, ctrlVars, racing, exit, mpc,
                   destroyer, histVars>>

ListOf(k) ==
    IF IsServer /\ k.message /\ k.type = CtrlType THEN "ctrl"
    ELSE IF k.sync THEN "main" ELSE "async"

PropagateEvent(k) ==
    /\ netAt = "propagate"
    /\ list' = [list EXCEPT ![ListOf(k)] =
                    Append(@, [id |-> arrived + 1, kind |-> k])]
    /\ ctrlAt' = IF ListOf(k) = "ctrl" THEN Notify ELSE ctrlAt
    /\ arrived' = arrived + 1
    /\ netAt' = "release"
    /\ UNCHANGED <<protVars, passVars, old, ctrlEv, racing, lifeVars, deleted,
                   handled>>

NetRelease ==
    /\ netAt = "release"
    /\ Release("net")
    /\ netAt' = "poll"
    /\ UNCHANGED <<started, passVars, old, ctrlVars, racing, exit, mpc,
                   arrived, handled>>

\* Time goes by.
Age(e) ==
    /\ e.id \notin old
    /\ old' = old \cup {e.id}
    /\ UNCHANGED <<protVars, list, passVars, ctrlVars, racing, netAt,
                   lifeVars, histVars>>

-----------------------------------------------------------------------------
(* Start and termination of protocols, under m_protocols_mutex             *)

\* A second request for a protocol that is running is ignored.
RequestStart(p) ==
    /\ holders # {} /\ p \notin started
    /\ running' = running \cup {p}
    /\ started' = started \cup {p}
    /\ UNCHANGED <<list, passVars, old, ctrlVars, racing, netAt, lifeVars,
                   histVars>>

\* requestTerminate of one protocol, findAndTerminate of all of a type.
Terminate(gone) ==
    /\ holders # {} /\ gone # {} /\ gone \subseteq running
    /\ running' = running \ gone
    /\ UNCHANGED <<started, list, passVars, old, ctrlVars, racing, netAt,
                   lifeVars, histVars>>

RequestTerminate(p) == Terminate({p})
FindAndTerminate(ty) == Terminate({p \in running : TypeOf[p] = ty})

\* The server lobby goes from one state to the next.
LobbyState ==
    /\ IsServer
    /\ racing' = ~racing
    /\ UNCHANGED <<protVars, list, passVars, old, ctrlVars, netAt, lifeVars,
                   histVars>>

-----------------------------------------------------------------------------
(* A pass of update() or asynchronousUpdate()                              *)

MayBegin(t) == IF t = "main" THEN mpc = "run" ELSE ~exit

BeginPass(t) ==
    /\ at[t] = "idle" /\ MayBegin(t)
    /\ snap' = [snap EXCEPT ![t] = running]
    /\ at' = [at EXCEPT ![t] = "events"]
    /\ UNCHANGED <<protVars, list, pos, old, ctrlVars, racing, netAt, lifeVars,
                   histVars>>

\* Mutant: the list of running protocols itself in place of the copy.
LiveProtocols(t) == running

\* The protocols a pass works with.
InPass(t) == snap[t]

\* Is p of a type that is notified, and has it a handler?  The default one
\* of class Protocol returns false.
Concerns(p, e) ==
    IF e.kind.message THEN TypeOf[p] = e.kind.type
    ELSE TypeOf[p] \in Disconnects
HasHandler(p, e) == <<p, e.kind.sync>> \in Treats

\* OneProtocolType::notifyEvent for every type: those that return true.
Receivers(t, e) == {p \in InPass(t) : Concerns(p, e) /\ HasHandler(p, e)}

\* Mutant: can_be_deleted is what the last protocol returned, not the
\* disjunction over all of them.
AllTreat(t, e, done) ==
    \/ done # {} /\ \A p \in InPass(t) : Concerns(p, e) => HasHandler(p, e)
    \/ e.id \in old

\* Mutant: an event nobody handles is dropped at once.
DropsUnhandled(t, e, done) == TRUE

\* sendEvent: is the event deleted?
CanBeDeleted(t, e, done) == done # {} \/ e.id \in old

\* erase returns the position of the next event.
NextPos(t, gone) == IF gone THEN pos[t] ELSE pos[t] + 1

Erase(t, e) ==
    /\ list' = [list EXCEPT ![t] = RemoveAt(@, pos[t])]
    /\ deleted' = deleted \cup {e.id}

\* The handlers run, without the lock of the list; what arrives meanwhile is
\* appended behind the iterator.
Deliver(t) ==
    /\ at[t] = "events" /\ pos[t] <= Len(list[t])
    /\ LET e == list[t][pos[t]]
           R == Receivers(t, e)
       IN /\ \/ /\ handled' = [p \in Protocols |->
                      IF p \in R THEN Append(handled[p], e) ELSE handled[p]]
                /\ IF CanBeDeleted(t, e, R)
                   THEN Erase(t, e) ELSE UNCHANGED <<list, deleted>>
                /\ pos' = [pos EXCEPT ![t] = NextPos(t, CanBeDeleted(t, e, R))]
             \* a handler throws: the protocols after it are passed over and
             \* the event is deleted
             \/ \E S \in SUBSET R :
                  /\ S # {}
                  /\ handled' = [p \in Protocols |->
                       IF p \in S THEN Append(handled[p], e) ELSE handled[p]]
                  /\ Erase(t, e)
                  /\ pos' = [pos EXCEPT ![t] = NextPos(t, TRUE)]
    /\ UNCHANGED <<protVars, snap, at, old, ctrlVars, racing, netAt, lifeVars,
                   arrived>>

\* The end of the list: the protocols of the copy are updated, which takes no
\* part in this model, and the copy is released.
EndPass(t) ==
    /\ at[t] = "events" /\ pos[t] > Len(list[t])
    /\ at' = [at EXCEPT ![t] = "idle"]
    /\ snap' = [snap EXCEPT ![t] = {}]
    /\ pos' = [pos EXCEPT ![t] = 1]
    /\ UNCHANGED <<protVars, list, old, ctrlVars, racing, netAt, lifeVars,
                   histVars>>

AsyncExit ==
    /\ at["async"] = "idle" /\ exit
    /\ at' = [at EXCEPT !["async"] = "gone"]
    /\ Release("async")
    /\ UNCHANGED <<started, pos, snap, old, ctrlVars, racing, netAt, exit,
                   mpc, arrived, handled>>

-----------------------------------------------------------------------------
(* The controller event thread                                             *)

CtrlWait ==
    /\ ctrlAt = "awake" /\ list["ctrl"] = <<>>
    /\ ctrlAt' = "asleep"
    /\ UNCHANGED <<protVars, list, passVars, old, ctrlEv, racing, netAt,
                   lifeVars, histVars>>

\* Outside of a race the event is deleted unseen.
CtrlTake ==
    /\ ctrlAt = "awake" /\ list["ctrl"] # <<>>
    /\ LET e == Head(list["ctrl"]) IN
         /\ e # None
         /\ IF racing
            THEN ctrlAt' = "deliver" /\ ctrlEv' = e /\ UNCHANGED deleted
            ELSE deleted' = deleted \cup {e.id} /\ UNCHANGED ctrlVars
    /\ list' = [list EXCEPT !["ctrl"] = Tail(@)]
    /\ UNCHANGED <<protVars, passVars, old, racing, netAt, lifeVars, arrived,
                   handled>>

\* GameProtocol::lock finds the protocol for as long as anyone holds it.
CtrlDeliver ==
    /\ ctrlAt = "deliver"
    /\ LET alive == {p \in running \cup snap["main"] \cup snap["async"] :
                        TypeOf[p] = CtrlType}
       IN \E gp \in SUBSET alive :
            /\ Cardinality(gp) = (IF alive = {} THEN 0 ELSE 1)
            /\ handled' = [p \in Protocols |->
                  IF p \in gp THEN Append(handled[p], ctrlEv) ELSE handled[p]]
    /\ deleted' = deleted \cup {ctrlEv.id}
    /\ ctrlAt' = "awake" /\ ctrlEv' = None
    /\ UNCHANGED <<protVars, list, passVars, old, racing, netAt, lifeVars,
                   arrived>>

CtrlExit ==
    /\ ctrlAt = "awake" /\ list["ctrl"] # <<>> /\ Head(list["ctrl"]) = None
    /\ ctrlAt' = "dead"
    /\ holders' = holders \ {"ctrl"}
    /\ list' = [list EXCEPT !["ctrl"] = Tail(@)]
    /\ UNCHANGED <<protVars, passVars, old, ctrlEv, racing, netAt, exit, mpc,
                   destroyer, histVars>>

-----------------------------------------------------------------------------
(* STKHost::shutdown, by the main thread: ProtocolManager::lock()->abort() *)

AbortBegin ==
    /\ mpc = "run" /\ at["main"] = "idle"
    /\ exit' = TRUE
    /\ holders' = holders \cup {"main"}
    /\ mpc' = IF IsServer THEN "push" ELSE "joinasync"
    /\ UNCHANGED <<protVars, list, passVars, old, ctrlVars, racing, netAt,
                   destroyer, histVars>>

AbortPush ==
    /\ mpc = "push"
    /\ list' = [list EXCEPT !["ctrl"] = Append(@, None)]
    /\ ctrlAt' = Notify
    /\ mpc' = "joinctrl"
    /\ UNCHANGED <<protVars, passVars, old, ctrlEv, racing, netAt, exit,
                   holders, destroyer, histVars>>

AbortJoin ==
    /\ \/ mpc = "joinctrl" /\ ctrlAt = "dead" /\ mpc' = "joinasync"
       \/ mpc = "joinasync" /\ at["async"] = "gone" /\ mpc' = "release"
    /\ UNCHANGED <<protVars, list, passVars, old, ctrlVars, racing, netAt,
                   exit, holders, destroyer, histVars>>

AbortRelease ==
    /\ mpc = "release"
    /\ Release("main")
    /\ mpc' = "done"
    /\ UNCHANGED <<started, passVars, old, ctrlVars, racing, netAt, exit,
                   arrived, handled>>

-----------------------------------------------------------------------------
Pass(t) == BeginPass(t) \/ Deliver(t) \/ EndPass(t)
Net == NetLock \/ (\E k \in Kinds : PropagateEvent(k)) \/ NetRelease
Ctrl == CtrlWait \/ CtrlTake \/ CtrlDeliver \/ CtrlExit
Async == Pass("async") \/ AsyncExit
Abort == AbortPush \/ AbortJoin \/ AbortRelease

Next ==
    \/ Net \/ Ctrl \/ Async \/ Pass("main") \/ AbortBegin \/ Abort
    \/ \E l \in Lists : \E e \in ToSet(list[l]) \ {None} : Age(e)
    \/ \E p \in Protocols : RequestStart(p) \/ RequestTerminate(p)
    \/ \E ty \in Types : FindAndTerminate(ty)
    \/ LobbyState

\* All threads are scheduled, and every handler returns; the network thread
\* goes on with an event it has.  Nothing is assumed of what arrives, of the
\* protocols or of the player.
Spec == Init /\ [][Next]_vars
             /\ WF_vars(Ctrl) /\ WF_vars(Async) /\ WF_vars(Pass("main"))
             /\ WF_vars(Abort) /\ WF_vars(netAt # "poll" /\ Net)

-----------------------------------------------------------------------------
TypeOK ==
    /\ running \in SUBSET Protocols /\ started \in SUBSET Protocols
    /\ list \in [Lists -> Seq(Events \cup {None})]
    /\ \A t \in Threads : list[t] \in Seq(Events)          \* None is for ctrl
    /\ handled \in [Protocols -> Seq(Events)]
    /\ pos \in [Threads -> Nat \ {0}]
    /\ \A t \in Threads : pos[t] <= Len(list[t]) + 1  \* a valid iterator
    /\ snap \in [Threads -> SUBSET Protocols]
    /\ at \in [Threads -> {"idle", "events", "gone"}]
    /\ old \in SUBSET (1..MaxEvents)
    /\ ctrlAt \in {"awake", "asleep", "deliver", "dead"}
    /\ ctrlEv \in Events \cup {None}
    /\ racing \in BOOLEAN /\ netAt \in {"poll", "propagate", "release"}
    /\ exit \in BOOLEAN
    /\ mpc \in {"run", "push", "joinctrl", "joinasync", "release", "done"}
    /\ holders \in SUBSET {"main", "async", "ctrl", "net"}
    /\ destroyer \in {"none", "main", "async", "ctrl", "net"}
    /\ arrived \in 0..MaxEvents /\ deleted \in SUBSET (1..MaxEvents)

\* A protocol handles an event at most once, though an event is offered again
\* in every pass for as long as nobody has handled it.  A second time it would
\* find a message whose beginning it has already read.
HandledOnce == \A p \in Protocols : IsInjective(handled[p])

\* A protocol sees the events of one list in the order of their arrival, also
\* when it is started in the middle of a pass, with older events waiting.
InOrder ==
    \A p \in Protocols : \A i, j \in 1..Len(handled[p]) :
        i < j /\ ListOf(handled[p][i].kind) = ListOf(handled[p][j].kind)
            => handled[p][i].id < handled[p][j].id

\* What the controller event thread has in its hands
Taken == IF ctrlEv = None THEN {} ELSE {ctrlEv.id}

\* Every event has one owner: it is in one list, or in the hands of the
\* controller event thread, or deleted.  After the manager none is left.
OneOwner ==
    LET owned(l) == Ids(list[l]) IN
       /\ (UNION {owned(l) : l \in Lists}) \cup Taken \cup deleted = 1..arrived
       /\ \A l \in Lists :
            /\ owned(l) \cap (Taken \cup deleted) = {}
            /\ \A m \in Lists \ {l} : owned(l) \cap owned(m) = {}
       /\ destroyer # "none" => deleted = 1..arrived

\* shutdown() returns and the manager goes away: no thread misses the end.
AbortEnds == exit ~> destroyer # "none"

\* A message that waits for its protocol is handled once that is running,
\* unless it gets too old, the protocol is terminated or the host shuts down.
Waits(id) ==
    \E t \in Threads : \E e \in ToSet(list[t]) : \E p \in running :
        e.id = id /\ e.kind.message /\ Concerns(p, e) /\ HasHandler(p, e)
WasHandled(id) == \E p \in Protocols : id \in Ids(handled[p])
Served ==
    \A id \in 1..MaxEvents :
        (Waits(id) /\ id \notin old) ~>
            (WasHandled(id) \/ id \in old \/ exit
             \/ (id \notin deleted /\ ~Waits(id)))
=============================================================================
