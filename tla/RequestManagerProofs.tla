----------------------- MODULE RequestManagerProofs -----------------------
(***************************************************************************)
(* Proofs about RequestManager, for any number of requests and all their   *)
(* priorities: every request has one owner, nothing is answered that was   *)
(* not executed, and a sign-out is executed before the worker ends.        *)
(***************************************************************************)
EXTENDS RequestManager, TLAPS

\* A wake-up puts the worker in one of its places.
LEMMA SignalType == ASSUME TypeOK PROVE Signal \in WorkerAt
BY DEF TypeOK, Signal, WorkerAt

-----------------------------------------------------------------------------
(* Types                                                                   *)

LEMMA PushType ==
  ASSUME TypeOK, NEW r \in All, Push(r), mpc' \in MainAt
  PROVE  TypeOK'
<1>1. loc' \in [All -> Places] /\ st' \in [All -> States]
  BY DEF TypeOK, Push, Places, States
<1>2. tpc' \in WorkerAt BY SignalType DEF Push
<1>3. /\ managed' \in [All -> BOOLEAN] /\ given' \in [All -> BOOLEAN]
      /\ answered' \in [All -> BOOLEAN]
      /\ abort' \in BOOLEAN /\ canBeDeleted' \in BOOLEAN /\ allowed' \in BOOLEAN
  BY Zenon DEF TypeOK, Push
<1>4. results' \in Seq(All) /\ current' \in All \cup {NoRequest}
  BY DEF TypeOK, Push
<1> QED BY <1>1, <1>2, <1>3, <1>4 DEF TypeOK

LEMMA TypeNext ==
  ASSUME ReqAssumption, TypeOK, WorkerHas, [Next]_vars PROVE TypeOK'
<1>0. Requests \subseteq All /\ SignOut \in All /\ Quit \in All
  BY DEF All
<1>1. ASSUME NEW r \in Requests, AddRequest(r) PROVE TypeOK'
  BY <1>0, <1>1, PushType DEF AddRequest, TypeOK
<1>2. ASSUME NEW r \in Requests, RejectRequest(r) PROVE TypeOK'
  BY <1>0, <1>2 DEF RejectRequest, TypeOK, Places
<1>3. ASSUME NEW r \in Requests, CreatorFrees(r) PROVE TypeOK'
  BY <1>0, <1>3 DEF CreatorFrees, TypeOK, Places
<1>4. ASSUME NEW r \in Requests, GiveToManager(r) PROVE TypeOK'
  BY <1>0, <1>4 DEF GiveToManager, TypeOK
<1>5. CASE ChangePermission
  BY <1>5 DEF ChangePermission, TypeOK, reqVars
<1>6. CASE HandleResult
  <2> DEFINE r == Head(results)
  <2>1. r \in All /\ Tail(results) \in Seq(All)
    BY <1>6 DEF HandleResult, TypeOK
  <2>2. loc' \in [All -> Places] /\ st' \in [All -> States]
    BY <1>6, <2>1 DEF HandleResult, TypeOK, Places, States
  <2>3. answered' \in [All -> BOOLEAN]
    BY <1>6, <2>1 DEF HandleResult, TypeOK
  <2>4. results' \in Seq(All) BY <1>6, <2>1 DEF HandleResult, Popped
  <2> QED BY <1>6, <2>2, <2>3, <2>4 DEF HandleResult, TypeOK
<1>7. CASE StopSignOut
  <2>1. mpc' \in MainAt BY <1>7 DEF StopSignOut, MainAt
  <2>2. CASE Push(SignOut) BY <1>0, <2>1, <2>2, PushType
  <2>3. CASE UNCHANGED <<reqVars, current, tpc, abort, canBeDeleted, allowed,
                         given, answered>>
    BY <2>1, <2>3 DEF TypeOK, reqVars
  <2> QED BY <1>7, <2>2, <2>3 DEF StopSignOut
<1>8. CASE StopAddQuit
  BY <1>0, <1>8, PushType DEF StopAddQuit, MainAt
<1>9. CASE StopAbort
  BY <1>9 DEF StopAbort, TypeOK, reqVars, MainAt
<1>10. CASE WaitReady
  BY <1>10 DEF WaitReady, TypeOK, reqVars, MainAt
<1>11. CASE Join
  BY <1>11 DEF Join, TypeOK, reqVars, MainAt
<1>12. CASE SpuriousWakeup
  BY <1>12 DEF SpuriousWakeup, TypeOK, reqVars, WorkerAt
<1>13. CASE WorkerWait
  BY <1>13 DEF WorkerWait, TypeOK, reqVars, WorkerAt
<1>14. CASE WorkerQuit
  BY <1>14 DEF WorkerQuit, TypeOK, reqVars, WorkerAt
<1>15. CASE WorkerClean
  BY <1>15 DEF WorkerClean, TypeOK, Places, WorkerAt
<1>16. ASSUME NEW from \in WorkerAt, NEW to \in WorkerAt, ExecutePart(from, to)
       PROVE  TypeOK'
  <2>1. st' \in [All -> States]
    BY <1>16 DEF ExecutePart, TypeOK, States
  <2>2. tpc' \in WorkerAt BY <1>16 DEF ExecutePart, WorkerAt
  <2> QED BY <1>16, <2>1, <2>2 DEF ExecutePart, TypeOK
<1>17. CASE Execute
  <2>1. {"prepare", "operate", "executed", "after", "post"} \subseteq WorkerAt
    BY DEF WorkerAt
  <2> QED BY <1>16, <1>17, <2>1 DEF Execute
<1>18. CASE WorkerPost
  <2>1. current \in All
    BY <1>18 DEF WorkerPost, WorkerHas, Working, TypeOK
  <2>2. results' \in Seq(All)
    <3>1. results \in Seq(All) BY DEF TypeOK
    <3>2. Append(results, current) \in Seq(All) BY <2>1, <3>1
    <3> QED BY <1>18, <3>1, <3>2, Zenon DEF WorkerPost
  <2>3. loc' \in [All -> Places]
    BY <1>18, <2>1 DEF WorkerPost, TypeOK, Places
  <2>4. current' \in All \cup {NoRequest} /\ tpc' \in WorkerAt
    BY <1>18 DEF WorkerPost, WorkerAt
  <2> QED BY <1>18, <2>2, <2>3, <2>4 DEF WorkerPost, TypeOK
<1>19. ASSUME NEW r \in All, WorkerTake(r) PROVE TypeOK'
  BY <1>19 DEF WorkerTake, TypeOK, Places, WorkerAt
<1>20. CASE UNCHANGED vars BY <1>20 DEF vars, TypeOK
<1> QED
  BY <1>1, <1>2, <1>3, <1>4, <1>5, <1>6, <1>7, <1>8, <1>9, <1>10, <1>11,
     <1>12, <1>13, <1>14, <1>15, <1>17, <1>18, <1>19, <1>20
     DEF Next, Shutdown, Worker
-----------------------------------------------------------------------------
(* One owner                                                               *)

\* Taking a result out of the queue.
LEMMA OwnerHandle ==
  ASSUME TypeOK, OneOwner, HandleResult PROVE OneOwner'
<1> DEFINE h == Head(results)
           n == Len(results)
           tl == Tail(results)
<1>1. /\ results \in Seq(All) /\ results # <<>> /\ n \in Nat \ {0}
      /\ h = results[1] /\ h \in All
      /\ Len(tl) = n - 1
      /\ \A i \in 1..(n - 1) : tl[i] = results[i + 1]
  BY DEF TypeOK, HandleResult
<1>2. /\ results' = tl /\ current' = current
      /\ loc'[h] \notin {"worker", "result"}
      /\ \A r \in All \ {h} : loc'[r] = loc[r]
  BY <1>1 DEF HandleResult, TypeOK, Popped
<1>3. /\ \A r \in All : loc[r] = "worker" <=> r = current
      /\ \A r \in All : loc[r] = "result" <=> \E i \in 1..n : results[i] = r
      /\ \A i, j \in 1..n : results[i] = results[j] => i = j
  BY DEF OneOwner
<1> HIDE DEF h, n, tl
<1>4. loc[h] = "result" BY <1>1, <1>3
<1>5. \A i \in 1..(n - 1) : tl[i] # h BY <1>1, <1>3
<1>6. ASSUME NEW r \in All
      PROVE  loc'[r] = "worker" <=> r = current'
  BY <1>2, <1>3, <1>4
<1>7. ASSUME NEW r \in All
      PROVE  loc'[r] = "result" <=> \E i \in 1..(n - 1) : tl[i] = r
  <2>1. CASE r = h BY <1>2, <1>5, <2>1
  <2>2. CASE r # h
    <3>1. loc'[r] = "result" <=> \E i \in 1..n : results[i] = r
      BY <1>2, <1>3, <2>2
    <3>2. ASSUME NEW i \in 1..n, results[i] = r
          PROVE  i - 1 \in 1..(n - 1) /\ tl[i - 1] = r
      BY <1>1, <2>2, <3>2
    <3>3. ASSUME NEW i \in 1..(n - 1), tl[i] = r
          PROVE  i + 1 \in 1..n /\ results[i + 1] = r
      BY <1>1, <3>3
    <3> QED BY <3>1, <3>2, <3>3
  <2> QED BY <2>1, <2>2
<1>8. ASSUME NEW i \in 1..(n - 1), NEW j \in 1..(n - 1), tl[i] = tl[j]
      PROVE  i = j
  <2>1. results[i + 1] = results[j + 1] /\ i + 1 \in 1..n /\ j + 1 \in 1..n
    BY <1>1, <1>8
  <2> QED BY <1>3, <2>1
<1> QED BY <1>1, <1>2, <1>6, <1>7, <1>8 DEF OneOwner

\* Putting the worker's request into it.
LEMMA OwnerPost ==
  ASSUME ReqAssumption, TypeOK, OneOwner, WorkerHas, WorkerPost
  PROVE  OneOwner'
<1> DEFINE n == Len(results)
           ap == Append(results, current)
<1>1. current \in All /\ NoRequest \notin All /\ current' = NoRequest
  BY DEF ReqAssumption, WorkerPost, WorkerHas, Working, TypeOK
<1>2. /\ n \in Nat /\ Len(ap) = n + 1 /\ ap[n + 1] = current
      /\ \A i \in 1..n : ap[i] = results[i]
  BY <1>1 DEF TypeOK
<1>3. /\ \A r \in All : loc[r] = "worker" <=> r = current
      /\ \A r \in All : loc[r] = "result" <=> \E i \in 1..n : results[i] = r
      /\ \A i, j \in 1..n : results[i] = results[j] => i = j
  BY DEF OneOwner
<1>4. \A r \in All \ {current} : loc'[r] = loc[r]
  BY <1>1 DEF WorkerPost, TypeOK
<1> HIDE DEF n, ap
<1>5. \A i \in 1..n : results[i] # current BY <1>1, <1>3
<1>6. CASE ~abort
  <2>1. results' = ap /\ loc'[current] = "result"
    BY <1>1, <1>6 DEF WorkerPost, TypeOK, ap
  <2>2. \A r \in All : loc'[r] = "worker" <=> r = current'
    BY <1>1, <1>3, <1>4, <2>1
  <2>3. \A r \in All : loc'[r] = "result" <=> \E i \in 1..(n + 1) : ap[i] = r
    <3> SUFFICES ASSUME NEW r \in All
                 PROVE  loc'[r] = "result" <=> \E i \in 1..(n + 1) : ap[i] = r
      OBVIOUS
    <3>1. CASE r = current BY <1>2, <2>1, <3>1
    <3>2. CASE r # current
      <4>1. (\E i \in 1..(n + 1) : ap[i] = r) <=> \E i \in 1..n : results[i] = r
        BY <1>2, <3>2
      <4> QED BY <1>3, <1>4, <3>2, <4>1
    <3> QED BY <3>1, <3>2
  <2>4. \A i, j \in 1..(n + 1) : ap[i] = ap[j] => i = j
    BY <1>2, <1>3, <1>5
  <2> QED BY <1>2, <2>1, <2>2, <2>3, <2>4 DEF OneOwner
<1>7. CASE abort
  <2>1. results' = results /\ loc'[current] \notin {"worker", "result"}
    BY <1>1, <1>7 DEF WorkerPost, TypeOK
  <2>2. \A r \in All : loc'[r] = "worker" <=> r = current'
    BY <1>1, <1>3, <1>4, <2>1
  <2>3. \A r \in All : loc'[r] = "result" <=> \E i \in 1..n : results[i] = r
    BY <1>3, <1>4, <1>5, <2>1
  <2> QED BY <1>3, <2>1, <2>2, <2>3 DEF OneOwner, n
<1> QED BY <1>6, <1>7

\* An action that moves requests between places other than these two.
LEMMA OwnerKept ==
  ASSUME OneOwner, UNCHANGED <<results, current>>,
         \A r \in All : \/ loc'[r] = loc[r]
                        \/ {loc[r], loc'[r]} \cap {"worker", "result"} = {}
  PROVE  OneOwner'
BY DEF OneOwner

LEMMA OwnerNext ==
  ASSUME ReqAssumption, TypeOK, OneOwner, WorkerHas, [Next]_vars
  PROVE  OneOwner'
<1>0. Requests \subseteq All /\ SignOut \in All /\ Quit \in All
  BY DEF All
<1>1. ASSUME NEW r \in All, Push(r) PROVE OneOwner'
  BY <1>1, OwnerKept DEF Push, TypeOK
<1>2. ASSUME NEW r \in Requests, RejectRequest(r) PROVE OneOwner'
  BY <1>0, <1>2, OwnerKept DEF RejectRequest, TypeOK
<1>3. ASSUME NEW r \in Requests, CreatorFrees(r) PROVE OneOwner'
  BY <1>0, <1>3, OwnerKept DEF CreatorFrees, TypeOK
<1>4. ASSUME UNCHANGED <<loc, results, current>> PROVE OneOwner'
  BY <1>4, OwnerKept
<1>5. CASE HandleResult BY <1>5, OwnerHandle
<1>6. CASE StopSignOut
  BY <1>0, <1>1, <1>4, <1>6 DEF StopSignOut, reqVars
<1>7. CASE StopAddQuit BY <1>0, <1>1, <1>7 DEF StopAddQuit
<1>8. CASE WorkerClean
  BY <1>8, OwnerKept DEF WorkerClean, TypeOK, Queue
<1>9. CASE WorkerPost BY <1>9, OwnerPost
<1>10. ASSUME NEW r \in All, WorkerTake(r) PROVE OneOwner'
  <2>1. current = NoRequest /\ NoRequest \notin All /\ loc[r] = "queue"
    BY <1>10 DEF WorkerTake, WorkerHas, Working, IsTop, Queue, ReqAssumption
  <2>2. /\ loc'[r] = "worker" /\ current' = r /\ results' = results
        /\ \A s \in All \ {r} : loc'[s] = loc[s]
    BY <1>10 DEF WorkerTake, TypeOK
  <2> QED BY <2>1, <2>2 DEF OneOwner
<1>11. ASSUME NEW r \in Requests, AddRequest(r) \/ GiveToManager(r)
       PROVE  OneOwner'
  BY <1>0, <1>1, <1>4, <1>11 DEF AddRequest, GiveToManager
<1>12. CASE \/ ChangePermission \/ StopAbort \/ WaitReady \/ Join
            \/ SpuriousWakeup \/ WorkerWait \/ WorkerQuit
  BY <1>4, <1>12 DEF ChangePermission, StopAbort, WaitReady, Join,
                     SpuriousWakeup, WorkerWait, WorkerQuit, reqVars
<1>13. CASE Execute BY <1>4, <1>13 DEF Execute, ExecutePart
<1>14. CASE UNCHANGED vars BY <1>4, <1>14 DEF vars
<1> QED
  BY <1>2, <1>3, <1>5, <1>6, <1>7, <1>8, <1>9, <1>10, <1>11, <1>12, <1>13,
     <1>14 DEF Next, Shutdown, Worker

-----------------------------------------------------------------------------
(* The worker and what it has executed                                     *)

\* The state of a request that the worker works on, or that waits to be
\* answered, is changed by the worker only.
LEMMA StateKept ==
  ASSUME TypeOK, OneOwner, [Next]_vars, ~Execute,
         NEW r \in All, loc[r] \in {"worker", "result"},
         loc'[r] \in {"worker", "result"}
  PROVE  st'[r] = st[r]
<1>1. ASSUME NEW p \in All, Push(p) PROVE st'[r] = st[r]
  BY <1>1 DEF Push, TypeOK
<1>2. CASE HandleResult
  <2> DEFINE h == Head(results)
  <2>1. h \in All BY <1>2 DEF HandleResult, TypeOK
  <2>2. loc'[h] \in {"freed", "done"} BY <1>2, <2>1 DEF HandleResult, TypeOK
  <2>3. \A s \in All \ {h} : st'[s] = st[s]
    BY <1>2, <2>1 DEF HandleResult, TypeOK
  <2> QED BY <2>2, <2>3
<1>3. ASSUME st' = st PROVE st'[r] = st[r] BY <1>3
<1>4. Requests \subseteq All /\ SignOut \in All /\ Quit \in All
  BY DEF All
<1>5. CASE \E p \in Requests : AddRequest(p)
  BY <1>1, <1>4, <1>5 DEF AddRequest
<1>6. CASE StopSignOut BY <1>1, <1>3, <1>4, <1>6 DEF StopSignOut, reqVars
<1>7. CASE StopAddQuit BY <1>1, <1>4, <1>7 DEF StopAddQuit
<1>8. CASE \E p \in Requests : RejectRequest(p) \/ CreatorFrees(p)
                               \/ GiveToManager(p)
  BY <1>3, <1>8 DEF RejectRequest, CreatorFrees, GiveToManager
<1>9. CASE \/ ChangePermission \/ StopAbort \/ WaitReady \/ Join
           \/ SpuriousWakeup \/ WorkerWait \/ WorkerQuit \/ WorkerClean
           \/ WorkerPost \/ (\E p \in All : WorkerTake(p)) \/ UNCHANGED vars
  BY <1>3, <1>9 DEF ChangePermission, StopAbort, WaitReady, Join,
                    SpuriousWakeup, WorkerWait, WorkerQuit, WorkerClean,
                    WorkerPost, WorkerTake, reqVars, vars
<1> QED BY <1>2, <1>5, <1>6, <1>7, <1>8, <1>9 DEF Next, Shutdown, Worker

\* The steps of the other threads leave the worker at its work, with its
\* request, and the abort flag is never taken back.
LEMMA OthersKeepWorker ==
  ASSUME TypeOK, [Next]_vars, Working, ~Execute, ~WorkerPost
  PROVE  UNCHANGED <<tpc, current>> /\ (abort => abort')
<1>1. ASSUME NEW p \in All, Push(p)
      PROVE  UNCHANGED <<tpc, current>> /\ (abort => abort')
  BY <1>1 DEF Push, Signal, Working
<1>2. Requests \subseteq All /\ SignOut \in All /\ Quit \in All
  BY DEF All
<1>3. CASE \E p \in Requests : AddRequest(p)
  BY <1>1, <1>2, <1>3 DEF AddRequest
<1>4. CASE StopSignOut BY <1>1, <1>2, <1>4 DEF StopSignOut, reqVars
<1>5. CASE StopAddQuit BY <1>1, <1>2, <1>5 DEF StopAddQuit
<1>6. CASE \E p \in Requests : RejectRequest(p) \/ CreatorFrees(p)
                               \/ GiveToManager(p)
  BY <1>6 DEF RejectRequest, CreatorFrees, GiveToManager
<1>7. CASE \/ ChangePermission \/ HandleResult \/ StopAbort \/ WaitReady
           \/ Join \/ UNCHANGED vars
  BY <1>7 DEF ChangePermission, HandleResult, StopAbort, WaitReady, Join, vars
<1>8. ~(\/ SpuriousWakeup \/ WorkerWait \/ WorkerQuit \/ WorkerClean
        \/ \E p \in All : WorkerTake(p))
  BY DEF SpuriousWakeup, WorkerWait, WorkerQuit, WorkerClean, WorkerTake,
         Working
<1> QED BY <1>3, <1>4, <1>5, <1>6, <1>7, <1>8 DEF Next, Shutdown, Worker

\* While it has no request, only WorkerTake gives it one.
LEMMA OthersKeepIdle ==
  ASSUME TypeOK, [Next]_vars, ~Working, \A p \in All : ~WorkerTake(p)
  PROVE  ~Working' /\ UNCHANGED current
<1>1. ASSUME NEW p \in All, Push(p) PROVE ~Working' /\ UNCHANGED current
  BY <1>1 DEF Push, Signal, Working
<1>2. Requests \subseteq All /\ SignOut \in All /\ Quit \in All
  BY DEF All
<1>3. CASE \E p \in Requests : AddRequest(p)
  BY <1>1, <1>2, <1>3 DEF AddRequest
<1>4. CASE StopSignOut BY <1>1, <1>2, <1>4 DEF StopSignOut, reqVars, Working
<1>5. CASE StopAddQuit BY <1>1, <1>2, <1>5 DEF StopAddQuit
<1>6. CASE \E p \in Requests : RejectRequest(p) \/ CreatorFrees(p)
                               \/ GiveToManager(p)
  BY <1>6 DEF RejectRequest, CreatorFrees, GiveToManager, Working
<1>7. CASE \/ ChangePermission \/ HandleResult \/ StopAbort \/ WaitReady
           \/ Join \/ UNCHANGED vars
  BY <1>7 DEF ChangePermission, HandleResult, StopAbort, WaitReady, Join, vars,
              Working
<1>8. CASE SpuriousWakeup \/ WorkerWait \/ WorkerQuit \/ WorkerClean
  BY <1>8 DEF SpuriousWakeup, WorkerWait, WorkerQuit, WorkerClean, Working
<1>9. ~Execute /\ ~WorkerPost
  BY DEF Execute, ExecutePart, WorkerPost, Working
<1> QED
  BY <1>3, <1>4, <1>5, <1>6, <1>7, <1>8, <1>9 DEF Next, Shutdown, Worker

\* What one part of execute() does to the worker and to its request.
LEMMA ExecuteProps ==
  ASSUME ReqAssumption, TypeOK, WorkerHas, Execute
  PROVE  /\ Working /\ Working' /\ current \in All
         /\ UNCHANGED <<loc, results, current, mpc, abort>>
         /\ \A r \in All \ {current} : st'[r] = st[r]
         /\ st'[current] \in {st[current], "executed"}
         /\ tpc' = "after" => st'[current] = "executed"
         /\ tpc' = "post" => \/ st'[current] = "executed"
                             \/ abort /\ Abortable(current)
<1>1. Working /\ current \in All
  BY DEF Execute, ExecutePart, Working, WorkerHas, TypeOK
<1>2. ASSUME NEW from \in {"prepare", "operate", "executed", "after"},
             NEW to \in {"operate", "executed", "after", "post"},
             ExecutePart(from, to)
      PROVE  /\ Working'
             /\ UNCHANGED <<loc, results, current, mpc, abort>>
             /\ \A r \in All \ {current} : st'[r] = st[r]
             /\ st'[current] \in {st[current], "executed"}
             /\ ~Stops(current) /\ from = "executed" =>
                  st'[current] = "executed"
             /\ from # "executed" => st' = st
             /\ tpc' = (IF Stops(current) THEN "post" ELSE to)
             /\ tpc = from
  BY <1>1, <1>2 DEF ExecutePart, TypeOK, Working
<1>3. CASE ExecutePart("prepare", "operate")
  BY <1>1, <1>2, <1>3 DEF Stops
<1>4. CASE ExecutePart("operate", "executed")
  BY <1>1, <1>2, <1>4 DEF Stops
<1>5. CASE ExecutePart("executed", "after")
  BY <1>1, <1>2, <1>5 DEF Stops
<1>6. CASE ExecutePart("after", "post")
  BY <1>1, <1>2, <1>6 DEF Stops, WorkerHas
<1> QED BY <1>3, <1>4, <1>5, <1>6 DEF Execute

LEMMA WorkerHasNext ==
  ASSUME ReqAssumption, TypeOK, TypeOK', OneOwner, OneOwner', WorkerHas,
         [Next]_vars
  PROVE  WorkerHas'
<1>1. CASE Execute
  <2>1. current # NoRequest BY <1>1, ExecuteProps DEF ReqAssumption
  <2> QED BY <1>1, <2>1, ExecuteProps DEF WorkerHas, Abortable
<1>2. CASE WorkerPost BY <1>2 DEF WorkerPost, WorkerHas, Working
<1>3. CASE Working /\ ~Execute /\ ~WorkerPost
  <2>1. UNCHANGED <<tpc, current>> /\ (abort => abort')
    BY <1>3, OthersKeepWorker
  <2>2. current \in All BY <1>3 DEF WorkerHas, TypeOK
  <2>3. loc[current] = "worker" /\ loc'[current] = "worker"
    BY <2>1, <2>2 DEF OneOwner
  <2>4. st'[current] = st[current] BY <1>3, <2>2, <2>3, StateKept
  <2> QED BY <2>1, <2>4 DEF WorkerHas, Working, Abortable
<1>4. CASE ~Working /\ \A p \in All : ~WorkerTake(p)
  BY <1>4, OthersKeepIdle DEF WorkerHas, Working
<1>5. ASSUME NEW p \in All, WorkerTake(p) PROVE WorkerHas'
  BY <1>5 DEF WorkerTake, WorkerHas, Working, ReqAssumption
<1> QED BY <1>1, <1>2, <1>3, <1>4, <1>5

\* Only WorkerPost adds a result, unless it is aborting.
LEMMA NewResult ==
  ASSUME ReqAssumption, TypeOK, WorkerHas, [Next]_vars,
         NEW r \in All, loc'[r] = "result", loc[r] # "result"
  PROVE  WorkerPost /\ r = current /\ ~abort
<1>1. Requests \subseteq All /\ SignOut \in All /\ Quit \in All
  BY DEF All
<1>2. ASSUME NEW p \in All, Push(p) PROVE FALSE BY <1>2 DEF Push, TypeOK
<1>3. loc' # loc OBVIOUS
<1>4. ~HandleResult BY DEF HandleResult, TypeOK
<1>5. ~(\E p \in Requests : RejectRequest(p) \/ CreatorFrees(p))
  BY <1>1 DEF RejectRequest, CreatorFrees, TypeOK
<1>6. ~WorkerClean BY DEF WorkerClean, TypeOK
<1>7. ~(\E p \in All : WorkerTake(p)) BY DEF WorkerTake, TypeOK
<1>8. ~(\E p \in Requests : AddRequest(p)) /\ ~StopSignOut /\ ~StopAddQuit
  BY <1>1, <1>2, <1>3 DEF AddRequest, StopSignOut, StopAddQuit, reqVars
<1>9. ~(\/ ChangePermission \/ StopAbort \/ WaitReady \/ Join
        \/ SpuriousWakeup \/ WorkerWait \/ WorkerQuit \/ Execute
        \/ (\E p \in Requests : GiveToManager(p)) \/ UNCHANGED vars)
  BY <1>3 DEF ChangePermission, StopAbort, WaitReady, Join, SpuriousWakeup,
              WorkerWait, WorkerQuit, Execute, ExecutePart, GiveToManager,
              reqVars, vars
<1>10. WorkerPost
  BY <1>4, <1>5, <1>6, <1>7, <1>8, <1>9 DEF Next, Shutdown, Worker
<1> QED BY <1>10 DEF WorkerPost, TypeOK

LEMMA ResultNext ==
  ASSUME ReqAssumption, TypeOK, TypeOK', OneOwner, OneOwner', WorkerHas,
         WorkerHas', ResultIsExecuted, [Next]_vars
  PROVE  ResultIsExecuted'
<1>1. ASSUME NEW r \in All, loc'[r] = "result" PROVE st'[r] = "executed"
  <2>1. CASE loc[r] = "result"
    <3>1. st[r] = "executed" BY <2>1 DEF ResultIsExecuted, OneOwner
    <3>2. CASE Execute
      <4>1. current \in All /\ r # current
        BY <2>1, <3>2, ExecuteProps DEF OneOwner
      <4> QED BY <3>1, <3>2, <4>1, ExecuteProps
    <3>3. CASE ~Execute
      BY <1>1, <2>1, <3>1, <3>3, StateKept
    <3> QED BY <3>2, <3>3
  <2>2. CASE loc[r] # "result"
    <3>1. WorkerPost /\ r = current /\ ~abort BY <1>1, <2>2, NewResult
    <3> QED BY <3>1 DEF WorkerPost, WorkerHas
  <2> QED BY <2>1, <2>2
<1>2. ASSUME NEW i \in 1..Len(results') PROVE st'[results'[i]] = "executed"
  <2>1. results'[i] \in All BY DEF TypeOK
  <2>2. loc'[results'[i]] = "result" BY <2>1 DEF OneOwner
  <2> QED BY <1>1, <2>1, <2>2
<1>3. tpc' = "post" /\ ~abort' => st'[current'] = "executed"
  BY DEF WorkerHas
<1> QED BY <1>2, <1>3 DEF ResultIsExecuted

-----------------------------------------------------------------------------
(* The sign-out and the quit request                                       *)

\* The head of the result queue is a result.
LEMMA HeadOfResults ==
  ASSUME TypeOK, OneOwner, HandleResult
  PROVE  /\ Head(results) \in All
         /\ loc[Head(results)] = "result"
         /\ 1 \in 1..Len(results) /\ Head(results) = results[1]
<1>1. /\ results \in Seq(All) /\ results # <<>>
  BY DEF TypeOK, HandleResult
<1>2. /\ 1 \in 1..Len(results) /\ Head(results) = results[1]
      /\ Head(results) \in All
  BY <1>1
<1> QED BY <1>2 DEF OneOwner

\* A request leaves its creator only once, and Quit only after the sign-out.
LEMMA QuitQueued ==
  ASSUME TypeOK, ReqAssumption, OneOwner, WorkerHas, [Next]_vars
  PROVE  /\ \A r \in All : loc[r] # "creator" => loc'[r] # "creator"
         /\ loc[Quit] = "creator" /\ loc'[Quit] # "creator" =>
              mpc' \notin {"run", "signedout"}
         /\ mpc \notin {"run", "signedout"} => mpc' \notin {"run", "signedout"}
<1> DEFINE P == /\ \A r \in All : loc[r] # "creator" => loc'[r] # "creator"
                /\ loc'[Quit] = loc[Quit]
                /\ mpc' = mpc
<1>0. /\ Requests \subseteq All /\ SignOut \in All /\ Quit \in All
      /\ Quit \notin Requests /\ SignOut # Quit
  BY DEF All, ReqAssumption
<1>1. ASSUME NEW p \in All, Push(p)
      PROVE  /\ \A r \in All : loc[r] # "creator" => loc'[r] # "creator"
             /\ p # Quit => loc'[Quit] = loc[Quit]
  BY <1>0, <1>1 DEF Push, TypeOK
<1>2. CASE \E p \in Requests : AddRequest(p)
  BY <1>0, <1>1, <1>2 DEF AddRequest
<1>3. ASSUME NEW p \in Requests,
             RejectRequest(p) \/ CreatorFrees(p) \/ GiveToManager(p)
      PROVE  P
  BY <1>0, <1>3 DEF RejectRequest, CreatorFrees, GiveToManager, TypeOK
<1>4. CASE StopSignOut
  BY <1>0, <1>1, <1>4 DEF StopSignOut, reqVars
<1>5. CASE StopAddQuit
  BY <1>0, <1>1, <1>5 DEF StopAddQuit
<1>6. CASE StopAbort \/ WaitReady \/ Join
  BY <1>6 DEF StopAbort, WaitReady, Join, reqVars
<1>7. CASE \/ ChangePermission \/ SpuriousWakeup \/ WorkerWait \/ WorkerQuit
           \/ UNCHANGED vars
  BY <1>7 DEF ChangePermission, SpuriousWakeup, WorkerWait, WorkerQuit,
              reqVars, vars
<1>8. CASE Execute BY <1>8 DEF Execute, ExecutePart
<1>9. ASSUME /\ mpc' = mpc
             /\ \A r \in All : loc'[r] = loc[r] \/ (loc[r] # "creator"
                                                    /\ loc'[r] # "creator")
      PROVE  /\ \A r \in All : loc[r] # "creator" => loc'[r] # "creator"
             /\ loc[Quit] = "creator" => loc'[Quit] = "creator"
             /\ mpc' = mpc
  BY <1>0, <1>9
<1>10. CASE HandleResult
  <2> DEFINE h == Head(results)
  <2>1. h \in All /\ loc[h] = "result" BY <1>10, HeadOfResults
  <2>2. \A r \in All \ {h} : loc'[r] = loc[r]
    BY <1>10, <2>1 DEF HandleResult, TypeOK
  <2>3. loc'[h] \in {"freed", "done"}
    BY <1>10, <2>1 DEF HandleResult, TypeOK
  <2>4. mpc' = mpc BY <1>10 DEF HandleResult
  <2> QED BY <1>9, <2>1, <2>2, <2>3, <2>4
<1>11. CASE WorkerClean BY <1>9, <1>11 DEF WorkerClean, TypeOK, Queue
<1>12. CASE WorkerPost
  <2>1. current \in All /\ loc[current] = "worker"
    BY <1>12 DEF WorkerPost, WorkerHas, Working, OneOwner, TypeOK
  <2> QED BY <1>9, <1>12, <2>1 DEF WorkerPost, TypeOK
<1>13. ASSUME NEW p \in All, WorkerTake(p)
       PROVE  /\ \A r \in All : loc[r] # "creator" => loc'[r] # "creator"
              /\ loc[Quit] = "creator" => loc'[Quit] = "creator"
              /\ mpc' = mpc
  <2>1. loc[p] = "queue" BY <1>13 DEF WorkerTake, IsTop, Queue
  <2>2. loc' = [loc EXCEPT ![p] = "worker"] /\ mpc' = mpc
    BY <1>13 DEF WorkerTake
  <2> QED BY <1>9, <2>1, <2>2 DEF TypeOK
<1> QED
  BY <1>2, <1>3, <1>4, <1>5, <1>6, <1>7, <1>8, <1>10, <1>11, <1>12, <1>13
     DEF Next, Shutdown, Worker

\* The loop of the worker ends in one way.
LEMMA LoopEnds ==
  ASSUME TypeOK, ReqAssumption, [Next]_vars,
         tpc' \in {"clean", "dead"}, tpc \notin {"clean", "dead"}
  PROVE  WorkerQuit
<1>1. Requests \subseteq All /\ SignOut \in All /\ Quit \in All
  BY DEF All
<1>2. ASSUME NEW p \in All, Push(p) PROVE FALSE
  BY <1>2 DEF Push, Signal
<1>3. ~(\E p \in Requests : \/ AddRequest(p) \/ RejectRequest(p)
                            \/ CreatorFrees(p) \/ GiveToManager(p))
  BY <1>1, <1>2 DEF AddRequest, RejectRequest, CreatorFrees, GiveToManager
<1>4. ~StopSignOut /\ ~StopAddQuit
  BY <1>1, <1>2 DEF StopSignOut, StopAddQuit
<1>5. ~(\/ ChangePermission \/ HandleResult \/ StopAbort \/ WaitReady
        \/ Join \/ UNCHANGED vars)
  BY DEF ChangePermission, HandleResult, StopAbort, WaitReady, Join, vars
<1>6. ~(\/ SpuriousWakeup \/ WorkerWait \/ WorkerClean \/ WorkerPost
        \/ Execute \/ \E p \in All : WorkerTake(p))
  BY DEF SpuriousWakeup, WorkerWait, WorkerClean, WorkerPost, Execute,
         ExecutePart, WorkerTake
<1> QED BY <1>3, <1>4, <1>5, <1>6 DEF Next, Shutdown, Worker

\* The sign-out is queued in one way, by the first step of the shutdown.
LEMMA SignOutQueued ==
  ASSUME TypeOK, ReqAssumption, OneOwner, ResultIsExecuted, WorkerHas,
         SignOutHeld, SignOutRuns, [Next]_vars, ~StopSignOut
  PROVE  /\ st'[SignOut] = "busy" => st[SignOut] = "busy"
         /\ st'[SignOut] = "busy" => loc'[SignOut] \in {"queue", "worker"}
         /\ loc'[SignOut] = "queue" => st'[SignOut] = "busy"
<1> DEFINE Goal == /\ st'[SignOut] = "busy" => st[SignOut] = "busy"
                   /\ st'[SignOut] = "busy" =>
                        loc'[SignOut] \in {"queue", "worker"}
                   /\ loc'[SignOut] = "queue" => st'[SignOut] = "busy"
<1>0. /\ Requests \subseteq All /\ SignOut \in All /\ Quit \in All
      /\ SignOut \notin Requests /\ SignOut # Quit
  BY DEF All, ReqAssumption
<1>1. ASSUME st'[SignOut] = st[SignOut], loc'[SignOut] = loc[SignOut]
      PROVE  Goal
  BY <1>1 DEF SignOutHeld
<1>2. ASSUME NEW p \in All \ {SignOut}, Push(p) PROVE Goal
  <2>1. st'[SignOut] = st[SignOut] /\ loc'[SignOut] = loc[SignOut]
    BY <1>0, <1>2 DEF Push, TypeOK
  <2> QED BY <1>1, <2>1
<1>3. CASE \E p \in Requests : AddRequest(p)
  BY <1>0, <1>2, <1>3 DEF AddRequest
<1>4. ASSUME NEW p \in Requests,
             RejectRequest(p) \/ CreatorFrees(p) \/ GiveToManager(p)
      PROVE  Goal
  <2>1. st'[SignOut] = st[SignOut] /\ loc'[SignOut] = loc[SignOut]
    BY <1>0, <1>4 DEF RejectRequest, CreatorFrees, GiveToManager, TypeOK
  <2> QED BY <1>1, <2>1
<1>5. CASE StopAddQuit BY <1>0, <1>2, <1>5 DEF StopAddQuit
<1>6. CASE \/ ChangePermission \/ StopAbort \/ WaitReady \/ Join
           \/ SpuriousWakeup \/ WorkerWait \/ WorkerQuit \/ UNCHANGED vars
  BY <1>1, <1>6 DEF ChangePermission, StopAbort, WaitReady, Join,
                    SpuriousWakeup, WorkerWait, WorkerQuit, reqVars, vars
<1>7. CASE HandleResult
  <2> DEFINE h == Head(results)
  <2>1. /\ h \in All /\ loc[h] = "result" /\ st[h] = "executed"
    BY <1>7, HeadOfResults DEF ResultIsExecuted
  <2>2. \A r \in All \ {h} : loc'[r] = loc[r] /\ st'[r] = st[r]
    BY <1>7, <2>1 DEF HandleResult, TypeOK
  <2>3. loc'[h] \in {"freed", "done"} /\ st'[h] \in {"executed", "done"}
    BY <1>7, <2>1 DEF HandleResult, TypeOK
  <2>4. CASE SignOut = h BY <2>3, <2>4
  <2>5. CASE SignOut # h BY <1>0, <1>1, <2>2, <2>5
  <2> QED BY <2>4, <2>5
<1>8. CASE WorkerClean
  <2>1. loc[SignOut] # "queue"
    BY <1>8 DEF WorkerClean, SignOutRuns, SignOutHeld
  <2>2. st'[SignOut] = st[SignOut] /\ loc'[SignOut] = loc[SignOut]
    BY <1>0, <1>8, <2>1 DEF WorkerClean, Queue
  <2> QED BY <1>1, <2>2
<1>9. CASE WorkerPost
  <2>1. current \in All
    BY <1>9 DEF WorkerPost, WorkerHas, Working, TypeOK
  <2>2. st' = st /\ loc'[current] \in {"result", "freed", "leaked"}
        /\ \A r \in All \ {current} : loc'[r] = loc[r]
    BY <1>9, <2>1 DEF WorkerPost, TypeOK
  <2>3. CASE SignOut = current
    <3>1. st[SignOut] = "executed"
      BY <1>0, <1>9, <2>3 DEF WorkerPost, WorkerHas, Abortable
    <3> QED BY <2>2, <2>3, <3>1
  <2>4. CASE SignOut # current BY <1>0, <1>1, <2>2, <2>4
  <2> QED BY <2>3, <2>4
<1>10. CASE Execute
  <2>1. /\ loc' = loc /\ current \in All
        /\ \A r \in All \ {current} : st'[r] = st[r]
        /\ st'[current] \in {st[current], "executed"}
    BY <1>10, ExecuteProps
  <2>2. CASE SignOut = current
    <3>1. loc[SignOut] = "worker" BY <1>0, <2>2 DEF OneOwner
    <3> QED BY <2>1, <2>2, <3>1
  <2>3. CASE SignOut # current BY <1>0, <1>1, <2>1, <2>3
  <2> QED BY <2>2, <2>3
<1>11. ASSUME NEW p \in All, WorkerTake(p) PROVE Goal
  <2>1. st' = st /\ loc' = [loc EXCEPT ![p] = "worker"]
    BY <1>11 DEF WorkerTake
  <2>2. CASE p = SignOut BY <1>0, <2>1, <2>2 DEF TypeOK
  <2>3. CASE p # SignOut BY <1>0, <1>1, <2>1, <2>3 DEF TypeOK
  <2> QED BY <2>2, <2>3
<1> QED
  BY <1>3, <1>4, <1>5, <1>6, <1>7, <1>8, <1>9, <1>10, <1>11
     DEF Next, Shutdown, Worker

LEMMA SignOutNext ==
  ASSUME TypeOK, TypeOK', ReqAssumption, OneOwner, ResultIsExecuted, WorkerHas,
         SignOutHeld, SignOutRuns, [Next]_vars
  PROVE  SignOutHeld' /\ SignOutRuns'
<1>0. SignOut \in All /\ Quit \in All /\ SignOut # Quit
  BY DEF All, ReqAssumption
<1>1. loc'[Quit] # "creator" => mpc' \notin {"run", "signedout"}
  <2>1. CASE loc[Quit] = "creator" BY <2>1, QuitQueued
  <2>2. CASE loc[Quit] # "creator" BY <2>2, QuitQueued DEF SignOutHeld
  <2> QED BY <2>1, <2>2
<1>2. tpc' \in {"clean", "dead"} => loc'[Quit] # "creator"
  <2>1. CASE tpc \in {"clean", "dead"}
    BY <1>0, <2>1, QuitQueued DEF SignOutHeld
  <2>2. CASE WorkerQuit
    BY <2>2 DEF WorkerQuit, IsTop, Queue, reqVars
  <2> QED BY <2>1, <2>2, LoopEnds
<1>3. /\ st'[SignOut] = "busy" => loc'[SignOut] \in {"queue", "worker"}
      /\ loc'[SignOut] = "queue" => st'[SignOut] = "busy"
  <2>1. CASE StopSignOut /\ Push(SignOut)
    BY <1>0, <2>1 DEF Push, TypeOK
  <2>2. CASE StopSignOut /\ ~Push(SignOut)
    BY <2>2 DEF StopSignOut, SignOutHeld, reqVars
  <2> QED BY <2>1, <2>2, SignOutQueued
<1>4. tpc' \in {"clean", "dead"} => st'[SignOut] # "busy"
  <2>1. CASE WorkerQuit
    <3>1. loc[SignOut] # "queue"
      BY <1>0, <2>1 DEF WorkerQuit, IsTop, Queue
    <3>2. loc[SignOut] # "worker"
      BY <1>0, <2>1 DEF WorkerQuit, WorkerHas, Working, OneOwner, ReqAssumption
    <3> QED BY <2>1, <3>1, <3>2 DEF SignOutHeld, WorkerQuit, reqVars
  <2>2. CASE tpc \in {"clean", "dead"}
    <3>1. ~StopSignOut BY <2>2 DEF SignOutHeld, StopSignOut
    <3> QED BY <2>2, <3>1, SignOutQueued DEF SignOutRuns
  <2> QED BY <2>1, <2>2, LoopEnds
<1> QED BY <1>1, <1>2, <1>3, <1>4 DEF SignOutHeld, SignOutRuns

-----------------------------------------------------------------------------
(* The theorems                                                            *)

LEMMA InvInit == ASSUME ReqAssumption, Init PROVE IInv
<1>1. SignOut \in All /\ Quit \in All BY DEF All
<1>2. TypeOK
  <2>1. /\ loc \in [All -> Places] /\ st \in [All -> States]
        /\ managed \in [All -> BOOLEAN]
    BY DEF Init, Places, States
  <2>2. given \in [All -> BOOLEAN] /\ answered \in [All -> BOOLEAN]
    BY DEF Init
  <2>3. results \in Seq(All) /\ current \in All \cup {NoRequest}
    BY DEF Init
  <2>4. /\ tpc \in WorkerAt /\ mpc \in MainAt
        /\ abort \in BOOLEAN /\ canBeDeleted \in BOOLEAN /\ allowed \in BOOLEAN
    BY DEF Init, WorkerAt, MainAt
  <2> QED BY <2>1, <2>2, <2>3, <2>4 DEF TypeOK
<1>3. OneOwner
  <2>1. 1..Len(results) = {} BY DEF Init
  <2>2. \A r \in All : loc[r] = "creator" /\ r # current
    BY DEF Init, ReqAssumption
  <2> QED BY <2>1, <2>2 DEF OneOwner
<1>4. ResultIsExecuted
  <2>1. 1..Len(results) = {} BY DEF Init
  <2> QED BY <2>1 DEF Init, ResultIsExecuted
<1>5. WorkerHas BY DEF Init, WorkerHas, Working
<1>6. SignOutHeld /\ SignOutRuns
  BY <1>1 DEF Init, SignOutHeld, SignOutRuns
<1> QED BY <1>2, <1>3, <1>4, <1>5, <1>6 DEF IInv

LEMMA InvNext == ASSUME ReqAssumption, IInv, [Next]_vars PROVE IInv'
<1>1. /\ TypeOK /\ OneOwner /\ ResultIsExecuted /\ WorkerHas
      /\ SignOutHeld /\ SignOutRuns
  BY DEF IInv
<1>2. TypeOK' BY <1>1, TypeNext
<1>3. OneOwner' BY <1>1, <1>2, OwnerNext
<1>4. WorkerHas' BY <1>1, <1>2, <1>3, WorkerHasNext
<1>5. ResultIsExecuted' BY <1>1, <1>2, <1>3, <1>4, ResultNext
<1>6. SignOutHeld' /\ SignOutRuns' BY <1>1, <1>2, SignOutNext
<1> QED BY <1>2, <1>3, <1>4, <1>5, <1>6 DEF IInv

\* The conjunction that is inductive: whoever holds a request, the state it is
\* in and where the two threads are fit together after every step.
THEOREM Invariant == Spec => []IInv
<1>1. Init => IInv BY InvInit, ReqAssumption
<1>2. IInv /\ [Next]_vars => IInv' BY InvNext, ReqAssumption
<1> QED BY <1>1, <1>2, PTL DEF Spec

\* Every variable keeps its type.
THEOREM TypeCorrect == Spec => []TypeOK
<1>1. IInv => TypeOK BY DEF IInv
<1> QED BY <1>1, Invariant, PTL

\* A request is with one owner at a time: the worker never shares it with a
\* queue, and no result is handled twice.
THEOREM AlwaysOneOwner == Spec => []OneOwner
<1>1. IInv => OneOwner BY DEF IInv
<1> QED BY <1>1, Invariant, PTL

\* addResult's assertion: whatever is answered has been executed, although the
\* abort flag is read in several places while another thread sets it.
THEOREM AnswersWereExecuted == Spec => []ResultIsExecuted
<1>1. IInv => ResultIsExecuted BY DEF IInv
<1> QED BY <1>1, Invariant, PTL

\* At the end of the program the sign-out that was queued has been executed
\* when the worker leaves its loop, whatever was still queued with it.
THEOREM SignOutBeforeQuit == Spec => []SignOutRuns
<1>1. IInv => SignOutRuns BY DEF IInv
<1> QED BY <1>1, Invariant, PTL
=============================================================================
