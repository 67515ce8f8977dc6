-------------------------- MODULE RequestManager --------------------------
(***************************************************************************)
(* Online::RequestManager (request_manager.cpp) and the life of an         *)
(* Online::Request (request.cpp, request.hpp): a worker thread executes    *)
(* requests in the order of their priority, the main thread picks up the   *)
(* results, and at the end of the program a sign-out request and a quit    *)
(* request race with whatever is still being downloaded.                   *)
(*                                                                         *)
(* m_request_queue is protected by a mutex the worker holds while it tests *)
(* and pops the queue, and from the end of its loop to its own end.        *)
(***************************************************************************)
EXTENDS Naturals, Sequences, FiniteSets

CONSTANTS Requests,   \* the ordinary requests, all of them abortable
          SignOut,    \* the sign-out request: managed, not abortable
          Quit,       \* the request of type RT_QUIT: managed, not abortable
          Unmanaged,  \* requests whose memory their creator manages at first
          Priority,   \* priority of each ordinary request
          NoRequest

All == Requests \cup {SignOut, Quit}

ASSUME ReqAssumption ==
    /\ SignOut \notin Requests /\ Quit \notin Requests /\ SignOut # Quit
    /\ NoRequest \notin All
    /\ Unmanaged \subseteq Requests
    /\ Priority \in [Requests -> Nat]
    /\ IsFiniteSet(Requests)

VARIABLES
    loc,      \* who holds the request: see Places
    st,       \* m_state of each request
    managed,  \* m_manage_memory of each request
    results,  \* m_result_queue
    current,  \* m_current_request while the worker works on it
    tpc,      \* where the worker thread is
    mpc,      \* where the main thread is
    abort,    \* m_abort
    canBeDeleted,  \* m_can_be_deleted
    allowed,  \* m_internet_status # IPERM_NOT_ALLOWED
    given,    \* history: the creator has given the request to the manager
    answered  \* history: the callback of the request was called

reqVars == <<loc, st, managed, results>>
vars == <<loc, st, managed, results, current, tpc, mpc, abort, canBeDeleted,
          allowed, given, answered>>

Places == {"creator", "queue", "worker", "result", "done", "freed", "leaked"}
States == {"preparing", "busy", "executed", "done"}
WorkerAt == {"test", "wait", "woken", "prepare", "operate", "executed",
             "after", "post", "clean", "dead"}
MainAt == {"run", "signedout", "quit", "wait", "join", "deleted", "gaveup"}

Queue == {r \in All : loc[r] = "queue"}
Abortable(r) == r \in Requests

\* The worker holds the mutex of the queue between two of its steps.
Locked == tpc = "clean"

-----------------------------------------------------------------------------
Init ==
    /\ loc = [r \in All |-> "creator"]
    /\ st = [r \in All |-> "preparing"]
    /\ managed = [r \in All |-> r \notin Unmanaged]
    /\ results = <<>> /\ current = NoRequest
    /\ tpc = "test" /\ mpc = "run"
    /\ abort = FALSE /\ canBeDeleted = FALSE /\ allowed = TRUE
    /\ given = [r \in All |-> FALSE] /\ answered = [r \in All |-> FALSE]

-----------------------------------------------------------------------------
(* The main thread                                                         *)

\* Mutant: pthread_cond_signal is forgotten.
NoSignal == tpc

\* pthread_cond_signal: a worker in pthread_cond_wait wakes up.
Signal == IF tpc = "wait" THEN "woken" ELSE tpc

\* addRequest, called by Request::queue.
Push(r) ==
    /\ loc[r] = "creator" /\ st[r] = "preparing"
    /\ ~Locked
    /\ loc' = [loc EXCEPT ![r] = "queue"]
    /\ st' = [st EXCEPT ![r] = "busy"]
    /\ tpc' = Signal
    /\ UNCHANGED <<managed, results, current, abort, canBeDeleted, allowed,
                   given, answered>>

AddRequest(r) ==
    /\ mpc = "run" /\ allowed
    /\ Push(r)
    /\ UNCHANGED mpc

\* "internet connections are forbidden": the request stays with a creator
\* who believes it queued.
RejectRequest(r) ==
    /\ mpc = "run" /\ ~allowed
    /\ loc[r] = "creator"
    /\ loc' = [loc EXCEPT ![r] = "leaked"]
    /\ UNCHANGED <<st, managed, results, current, tpc, mpc, abort,
                   canBeDeleted, allowed, given, answered>>

\* The user forbids or permits internet connections.
ChangePermission ==
    /\ mpc = "run"
    /\ allowed' = ~allowed
    /\ UNCHANGED <<reqVars, current, tpc, mpc, abort, canBeDeleted, given,
                   answered>>

\* Mutant: the result is looked at but not taken out of the queue.
Peeked(s) == s

Popped(s) == Tail(s)

\* handleResultQueue, once in every frame.
HandleResult ==
    /\ mpc = "run" /\ results # <<>>
    /\ LET r == Head(results) IN
         /\ answered' = [answered EXCEPT ![r] = TRUE]
         /\ IF managed[r]
            THEN /\ loc' = [loc EXCEPT ![r] = "freed"]
                 /\ UNCHANGED st
            ELSE /\ loc' = [loc EXCEPT ![r] = "done"]
                 /\ st' = [st EXCEPT ![r] = "done"]
    /\ results' = Popped(results)
    /\ UNCHANGED <<managed, current, tpc, mpc, abort, canBeDeleted, allowed,
                   given>>

\* A dialog that manages its request sees isDone() and deletes it.
CreatorFrees(r) ==
    /\ mpc = "run" /\ loc[r] = "done" /\ ~given[r]
    /\ loc' = [loc EXCEPT ![r] = "freed"]
    /\ UNCHANGED <<st, managed, results, current, tpc, mpc, abort,
                   canBeDeleted, allowed, given, answered>>

\* AddonsLoading::stopDownload: the dialog is closed before it saw isDone().
\* The request is cancelled and handed to the manager.
GiveToManager(r) ==
    /\ mpc = "run" /\ ~managed[r]
    /\ loc[r] \in {"queue", "worker", "result", "done"}
    /\ managed' = [managed EXCEPT ![r] = TRUE]
    /\ given' = [given EXCEPT ![r] = TRUE]
    /\ UNCHANGED <<loc, st, results, current, tpc, mpc, abort, canBeDeleted,
                   allowed, answered>>

\* stopNetworkThread: sign out if a player is logged in (addRequest refuses
\* even that without permission), then add the quit request, then abort.
StopSignOut ==
    /\ mpc = "run"
    /\ \/ allowed /\ Push(SignOut)
       \/ UNCHANGED <<reqVars, current, tpc, abort, canBeDeleted, allowed,
                      given, answered>>
    /\ mpc' = "signedout"

StopAddQuit ==
    /\ mpc = "signedout"
    /\ Push(Quit)
    /\ mpc' = "quit"

StopAbort ==
    /\ mpc = "quit"
    /\ abort' = TRUE
    /\ mpc' = "wait"
    /\ UNCHANGED <<reqVars, current, tpc, canBeDeleted, allowed, given,
                   answered>>

\* waitForReadyToDeleted(5.0f): ready, or the time is up.
WaitReady ==
    /\ mpc = "wait"
    /\ mpc' = IF canBeDeleted THEN "join" ELSE "gaveup"
    /\ UNCHANGED <<reqVars, current, tpc, abort, canBeDeleted, allowed, given,
                   answered>>

\* deallocate: the destructor joins the thread before it destroys anything.
Join ==
    /\ mpc = "join" /\ tpc = "dead"
    /\ mpc' = "deleted"
    /\ UNCHANGED <<reqVars, current, tpc, abort, canBeDeleted, allowed, given,
                   answered>>

-----------------------------------------------------------------------------
(* The worker thread, mainLoop                                             *)

\* Mutant: the quit request has a higher priority than the sign-out.
QuitFirst(r) ==
    /\ r \in Queue
    /\ r # Quit => Quit \notin Queue
    /\ r \in Requests =>
         SignOut \notin Queue
         /\ \A s \in Queue \cap Requests : Priority[s] <= Priority[r]

\* The top of the priority queue.  The sign-out and the quit request share the
\* highest priority; the sign-out, pushed first, is then at the root of the
\* heap and the quit request below it.  Other ties are broken in any way.
IsTop(r) ==
    /\ r \in Queue
    /\ r = Quit => SignOut \notin Queue
    /\ r \in Requests =>
         {SignOut, Quit} \cap Queue = {}
         /\ \A s \in Queue \cap Requests : Priority[s] <= Priority[r]

WorkerWait ==
    /\ tpc \in {"test", "woken"} /\ Queue = {}
    /\ tpc' = "wait"
    /\ UNCHANGED <<reqVars, current, mpc, abort, canBeDeleted, allowed, given,
                   answered>>

\* "spurious wakeups from the pthread_cond_wait ... may occur"
SpuriousWakeup ==
    /\ tpc = "wait"
    /\ tpc' = "woken"
    /\ UNCHANGED <<reqVars, current, mpc, abort, canBeDeleted, allowed, given,
                   answered>>

WorkerTake(r) ==
    /\ tpc \in {"test", "woken"} /\ r # Quit /\ IsTop(r)
    /\ loc' = [loc EXCEPT ![r] = "worker"]
    /\ current' = r
    /\ tpc' = "prepare"
    /\ UNCHANGED <<st, managed, results, mpc, abort, canBeDeleted, allowed,
                   given, answered>>

\* The quit request ends the loop, from the test as well as after a wait.
WorkerQuit ==
    /\ tpc \in {"test", "woken"} /\ IsTop(Quit)
    /\ canBeDeleted' = TRUE
    /\ tpc' = "clean"
    /\ UNCHANGED <<reqVars, current, mpc, abort, allowed, given, answered>>

WorkerClean ==
    /\ tpc = "clean"
    /\ loc' = [r \in All |-> IF r \in Queue THEN "freed" ELSE loc[r]]
    /\ tpc' = "dead"
    /\ UNCHANGED <<st, managed, results, current, mpc, abort, canBeDeleted,
                   allowed, given, answered>>

\* Mutant: a cancelled request leaves execute() like an aborted one.
StopsIfCancelled(r) == (abort \/ given[r]) /\ Abortable(r)

\* The test execute() makes before each of its four parts.
Stops(r) == abort /\ Abortable(r)

\* One part of Request::execute, or the early return in front of it.
ExecutePart(from, to) ==
    /\ tpc = from
    /\ tpc' = IF Stops(current) THEN "post" ELSE to
    /\ st' = IF ~Stops(current) /\ from = "executed"
             THEN [st EXCEPT ![current] = "executed"] ELSE st
    /\ UNCHANGED <<loc, managed, results, current, mpc, abort, canBeDeleted,
                   allowed, given, answered>>

Execute ==
    \/ ExecutePart("prepare", "operate")
    \/ ExecutePart("operate", "executed")
    \/ ExecutePart("executed", "after")
    \/ ExecutePart("after", "post")

\* What mainLoop does with the request it has executed: addResult, or, when
\* aborting, free it if that is up to the manager.
WorkerPost ==
    /\ tpc = "post"
    /\ IF ~abort
       THEN /\ results' = Append(results, current)
            /\ loc' = [loc EXCEPT ![current] = "result"]
       ELSE /\ loc' = [loc EXCEPT ![current] =
                           IF managed[current] THEN "freed" ELSE "leaked"]
            /\ UNCHANGED results
    /\ current' = NoRequest
    /\ tpc' = "test"
    /\ UNCHANGED <<st, managed, mpc, abort, canBeDeleted, allowed, given,
                   answered>>

-----------------------------------------------------------------------------
Worker ==
    \/ WorkerWait \/ WorkerQuit \/ WorkerClean \/ Execute \/ WorkerPost
    \/ \E r \in All : WorkerTake(r)

Shutdown == StopAddQuit \/ StopAbort \/ WaitReady \/ Join

Next ==
    \/ \E r \in Requests : AddRequest(r) \/ RejectRequest(r) \/ CreatorFrees(r)
                           \/ GiveToManager(r)
    \/ ChangePermission \/ HandleResult \/ StopSignOut \/ Shutdown
    \/ SpuriousWakeup \/ Worker

\* The worker thread is scheduled, and every operation ends (curl times out);
\* the main thread polls the results and, once it is stopping, goes on.
Spec == Init /\ [][Next]_vars
             /\ WF_vars(Worker) /\ WF_vars(HandleResult) /\ WF_vars(Shutdown)

-----------------------------------------------------------------------------
TypeOK ==
    /\ loc \in [All -> Places] /\ st \in [All -> States]
    /\ managed \in [All -> BOOLEAN]
    /\ results \in Seq(All) /\ current \in All \cup {NoRequest}
    /\ tpc \in WorkerAt /\ mpc \in MainAt
    /\ abort \in BOOLEAN /\ canBeDeleted \in BOOLEAN /\ allowed \in BOOLEAN
    /\ given \in [All -> BOOLEAN] /\ answered \in [All -> BOOLEAN]

\* The assertion of addResult, hasBeenExecuted(): between the tests execute()
\* makes and the one mainLoop makes of the same flag, a request that returned
\* early is never taken for one that was executed.
ResultIsExecuted ==
    /\ tpc = "post" /\ ~abort => st[current] = "executed"
    /\ \A i \in 1..Len(results) : st[results[i]] = "executed"

\* A sign-out that was queued when the program ends has been executed before
\* the worker ends, even if a download was running when it was queued.
SignOutRuns ==
    tpc \in {"clean", "dead"} =>
        /\ st[SignOut] # "busy"
        /\ st[SignOut] = "preparing" \/ loc[SignOut] # "queue"

\* Each request has one owner: the worker's request is in no queue, and no
\* request is in the result queue twice.
OneOwner ==
    /\ \A r \in All : loc[r] = "worker" <=> r = current
    /\ \A r \in All :
         loc[r] = "result" <=> \E i \in 1..Len(results) : results[i] = r
    /\ \A i, j \in 1..Len(results) : results[i] = results[j] => i = j

\* Once the main thread stops it, the worker thread ends: it misses no signal
\* and no request holds it up.
QuitTerminates == (mpc = "signedout") ~> (tpc = "dead")

\* Unless the program is stopped, a queued request is answered.
Answered ==
    \A r \in Requests : (loc[r] = "queue") ~> (answered[r] \/ mpc # "run")

-----------------------------------------------------------------------------
(* The inductive invariant behind ResultIsExecuted, SignOutRuns, OneOwner  *)

Working == tpc \in {"prepare", "operate", "executed", "after", "post"}

\* The worker has a request exactly while it works on one, and at the end of
\* execute() that is executed, unless it was aborted.
WorkerHas ==
    /\ Working <=> current # NoRequest
    /\ tpc = "after" => st[current] = "executed"
    /\ tpc = "post" => \/ st[current] = "executed"
                       \/ abort /\ Abortable(current)

\* The sign-out is busy only where the worker will still get at it, and the
\* loop of the worker ends only after the main thread has passed it.
SignOutHeld ==
    /\ st[SignOut] = "busy" => loc[SignOut] \in {"queue", "worker"}
    /\ loc[SignOut] = "queue" => st[SignOut] = "busy"
    /\ loc[Quit] # "creator" => mpc \notin {"run", "signedout"}
    /\ tpc \in {"clean", "dead"} => loc[Quit] # "creator"

IInv == /\ TypeOK /\ OneOwner /\ ResultIsExecuted /\ WorkerHas
        /\ SignOutHeld /\ SignOutRuns
=============================================================================
