-------------------------- MODULE WorkerPoolProofs --------------------------
(***************************************************************************)
(* Proofs about WorkerPool, for every set of calls, pool size, queue       *)
(* capacity and restart limit, and for every bound on faults and spawns.   *)
(***************************************************************************)
EXTENDS WorkerPool, TLAPS, FiniteSetTheorems

\* The groups of variables that actions leave alone.
USE DEF poolVars, guardVars, spawnVars, supVars, workerVars, callVars, CallKeeps

(***************************************************************************)
(* Types.                                                                  *)
(***************************************************************************)

\* A spawn_worker call is in progress only on behalf of new() or of the
\* supervisor's respawn loop, and counts against the workers still missing.
SpawnInv ==
    /\ spc # "idle" => /\ sid \in WorkerIds
                       /\ missing > 0
                       /\ owner = "building" \/ sup = "spawn"
    /\ sup = "spawn" => missing > 0
    /\ owner = "building" => sup = "none"

TypeInv == StateOK /\ SpawnInv

\* Any set of worker ids is finite, so its size is a number.
LEMMA WorkerSetsFinite ==
    ASSUME NEW S \in SUBSET WorkerIds
    PROVE  IsFiniteSet(S) /\ Cardinality(S) \in Nat
<1>1. IsFiniteSet(WorkerIds)
  <2>1. 0 \in Int /\ MaxSpawns - 1 \in Int
    BY BoundsNat
  <2>2. QED  BY <2>1, FS_Interval DEF WorkerIds
<1>2. IsFiniteSet(S)
  BY <1>1, FS_Subset
<1>3. QED  BY <1>2, FS_CardinalityType

\* MechanicsPool::new starts from a well-typed state.
LEMMA InitTypeInv == Init => TypeInv
BY WorkerCountPositive, BoundsNat, MaxRestartsPositive, SMTT(30)
   DEF Init, TypeInv, StateOK, SpawnInv, OwnerStates, SpawnStates, SupStates,
       WorkerStates, CallStates

\* The steps of spawn_worker.
LEMMA SpawnTypeInv == TypeInv /\ (SpawnStep \/ SpawnThreadFails) => TypeInv'
<1> SUFFICES ASSUME TypeInv, SpawnStep \/ SpawnThreadFails PROVE TypeInv'
  OBVIOUS
<1> USE WorkerCountPositive, BoundsNat DEF TypeInv, StateOK, SpawnInv
<1>1. CASE SpawnThread
  BY <1>1 DEF SpawnThread, SpawnRequested, WorkerIds, WorkerStates, SpawnStates
<1>2. CASE SpawnInsert
  BY <1>2 DEF SpawnInsert, SpawnStates
<1>3. CASE SpawnReady
  BY <1>3 DEF SpawnReady, SpawnReturnsOk, SpawnStates, SupStates
<1>4. CASE SpawnNotReady
  BY <1>4 DEF SpawnNotReady, SpawnReturnsErr, SpawnStates, SupStates, OwnerStates
<1>5. CASE SpawnJoin
  BY <1>5 DEF SpawnJoin, SpawnReturnsErr, SpawnStates, SupStates, OwnerStates
<1>6. CASE SpawnThreadFails
  BY <1>6 DEF SpawnThreadFails, Fault, SpawnReturnsErr, SpawnStates, SupStates,
              OwnerStates
<1>7. QED  BY <1>1, <1>2, <1>3, <1>4, <1>5, <1>6, ZenonT(30) DEF SpawnStep

\* A message taken from the head of the job channel is a job.
LEMMA HeadIsJob ==
    ASSUME queue \in Seq(Jobs), queue # <<>>
    PROVE  Head(queue) \in Jobs /\ Tail(queue) \in Seq(Jobs)
OBVIOUS

\* send on a reply channel keeps the channels' type.
LEMMA SendReplyType ==
    ASSUME StateOK, NEW j \in Jobs, NEW v \in ReplyValues, SendReply(j, v)
    PROVE  reply' \in [Jobs -> SUBSET ReplyValues]
<1>1. reply \in [Jobs -> SUBSET ReplyValues] /\ {v} \in SUBSET ReplyValues
  BY DEF StateOK
<1>2. reply' = reply \/ reply' = [reply EXCEPT ![j] = {v}]
  BY DEF SendReply
<1>3. QED  BY <1>1, <1>2

\* Returning from a call leaves its locals well typed.
LEMMA ReturnType ==
    ASSUME StateOK, NEW j \in Jobs, NEW r \in Results, Return(j, r)
    PROVE  /\ cpc' \in [Jobs -> CallStates]
           /\ mode' \in [Jobs -> {"run", "try"}]
           /\ reply' \in [Jobs -> SUBSET ReplyValues]
           /\ result' \in [Jobs -> Results \cup {"none"}]
BY DEF StateOK, Return, CallStates

\* So does going on with it.
LEMMA GotoType ==
    ASSUME StateOK, NEW j \in Jobs, NEW pc \in CallStates, Goto(j, pc)
    PROVE  /\ cpc' \in [Jobs -> CallStates]
           /\ UNCHANGED <<mode, reply, result>>
BY SMTT(30) DEF StateOK, Goto

\* The steps of new() after the workers are up, and of drop().
LEMMA OwnerTypeInv ==
    TypeInv /\ (BuildSupervisor \/ BuildSupervisorFails \/ BeginDrop \/ TeardownStep)
        => TypeInv'
<1> SUFFICES ASSUME TypeInv,
                    BuildSupervisor \/ BuildSupervisorFails \/ BeginDrop \/ TeardownStep
             PROVE  TypeInv'
  OBVIOUS
<1> USE WorkerCountPositive, BoundsNat DEF TypeInv, StateOK, SpawnInv
<1>1. CASE BuildSupervisor
  BY <1>1 DEF BuildSupervisor, OwnerStates, SupStates
<1>2. CASE BuildSupervisorFails
  BY <1>2, SMTT(30) DEF BuildSupervisorFails, Fault, OwnerStates
<1>3. CASE BeginDrop
  BY <1>3 DEF BeginDrop, OwnerStates
<1>4. CASE MarkClosed
  BY <1>4 DEF MarkClosed, OwnerStates
<1>5. CASE DrainJob
  <2>1. Head(queue) \in Jobs /\ queue' \in Seq(Jobs)
    BY <1>5, HeadIsJob, Zenon DEF DrainJob
  <2>2. reply' \in [Jobs -> SUBSET ReplyValues]
    BY <1>5, <2>1, SendReplyType, Zenon DEF DrainJob, ReplyValues
  <2>3. QED  BY <1>5, <2>1, <2>2, Zenon DEF DrainJob
<1>6. CASE SignalWorkers
  BY <1>6, Zenon DEF SignalWorkers, OwnerStates
<1>7. CASE SignalSupervisor
  BY <1>7, Zenon DEF SignalSupervisor, OwnerStates
<1>8. CASE JoinSupervisor
  BY <1>8, Zenon DEF JoinSupervisor, OwnerStates
<1>9. CASE JoinWorkers
  BY <1>9, SMTT(30) DEF JoinWorkers, OwnerStates
<1>10. QED
  BY <1>1, <1>2, <1>3, <1>4, <1>5, <1>6, <1>7, <1>8, <1>9, ZenonT(30) DEF TeardownStep

\* The steps of the supervisor, and the passing of the restart window.
LEMMA SupTypeInv == TypeInv /\ (SupStep \/ WindowElapses) => TypeInv'
<1> SUFFICES ASSUME TypeInv, SupStep \/ WindowElapses PROVE TypeInv'
  OBVIOUS
<1> USE WorkerCountPositive, BoundsNat, MaxRestartsPositive
    DEF TypeInv, StateOK, SpawnInv
<1>1. CASE SupShutdown
  BY <1>1 DEF SupShutdown, SupStates
<1>2. CASE SupExitEvent
  <2>1. exits' \in Seq(WorkerIds)
    BY <1>2 DEF SupExitEvent
  <2>2. QED  BY <1>2, <2>1, Zenon DEF SupExitEvent, SupStates
<1>3. CASE SupJoin
  BY <1>3, Zenon DEF SupJoin, SupStates
<1>4. CASE SupTick
  BY <1>4, Zenon DEF SupTick, SupStates
<1>5. CASE SupCheckClosed
  BY <1>5, Zenon DEF SupCheckClosed, SupStates
<1>6. CASE ReconcileCheckClosed
  BY <1>6, Zenon DEF ReconcileCheckClosed, SupStates
<1>7. CASE ReconcileReap
  BY <1>7, Zenon DEF ReconcileReap, SupStates
<1>8. CASE ReconcileRemove
  BY <1>8, Zenon DEF ReconcileRemove, SupStates
<1>9. CASE ReconcileCount
  <2>1. Cardinality(map) \in Nat
    BY WorkerSetsFinite, Zenon
  <2>2. QED  BY <1>9, <2>1, SMTT(30) DEF ReconcileCount, SupStates
<1>10. CASE ReconcileAttempt
  BY <1>10, SMTT(30) DEF ReconcileAttempt, Guard!RecordRestartAttempt, Guard!AllowRestart,
               SupStates
<1>11. CASE ReconcileDone
  BY <1>11, Zenon DEF ReconcileDone, SupStates
<1>12. CASE WindowElapses
  BY <1>12, SMTT(30) DEF WindowElapses, Guard!WindowElapses
<1>13. QED
  BY <1>1, <1>2, <1>3, <1>4, <1>5, <1>6, <1>7, <1>8, <1>9, <1>10, <1>11, <1>12, ZenonT(30)
  DEF SupStep

\* The steps of a worker thread.
LEMMA WorkerTypeInv ==
    ASSUME TypeInv, NEW w \in WorkerIds, WorkerStep(w) \/ WorkerFault(w)
    PROVE  TypeInv'
<1> USE WorkerCountPositive, BoundsNat DEF TypeInv, StateOK, SpawnInv
<1>1. CASE WorkerInitOk(w)
  BY <1>1, Zenon DEF WorkerInitOk, WorkerStates
<1>2. CASE WorkerInitFails(w)
  BY <1>2, SMTT(30) DEF WorkerInitFails, Fault, WorkerStates
<1>3. CASE WorkerShutdown(w)
  BY <1>3, Zenon DEF WorkerShutdown, WorkerStates
<1>4. CASE TakeJob(w)
  <2>1. Head(queue) \in Jobs /\ queue' \in Seq(Jobs)
    BY <1>4, HeadIsJob, Zenon DEF TakeJob
  <2>2. QED  BY <1>4, <2>1, Zenon DEF TakeJob, WorkerStates
<1>5. CASE SkipCanceled(w)
  <2>1. reply' \in [Jobs -> SUBSET ReplyValues]
    BY <1>5, SendReplyType, ZenonT(30) DEF SkipCanceled, ReplyValues
  <2>2. QED  BY <1>5, <2>1, Zenon DEF SkipCanceled, WorkerStates
<1>6. CASE StartJob(w)
  BY <1>6, SMTT(30) DEF StartJob, WorkerStates
<1>7. CASE LoopPanics(w)
  BY <1>7, SMTT(30) DEF LoopPanics, Fault, WorkerStates
<1>8. ASSUME NEW v \in {"ok", "failed"}, MainReplies(w, v) PROVE TypeInv'
  <2>1. reply' \in [Jobs -> SUBSET ReplyValues]
    BY <1>8, SendReplyType DEF MainReplies, ReplyValues
  <2>2. PICK j \in Jobs : settled' = [settled EXCEPT ![j] = v]
    BY <1>8, Zenon DEF MainReplies
  <2>3. settled' \in [Jobs -> {"none", "ok", "failed"}]
    BY <1>8, <2>2, Zenon
  <2>4. QED  BY <1>8, <2>1, <2>3, ZenonT(30) DEF MainReplies, WorkerStates
<1>9. CASE MainNotReplied(w)
  <2>1. reply' \in [Jobs -> SUBSET ReplyValues]
    BY <1>9, SendReplyType, Zenon DEF MainNotReplied, ReplyValues
  <2>2. QED  BY <1>9, <2>1, Zenon DEF MainNotReplied, WorkerStates
<1>10. CASE TailDone(w)
  BY <1>10, Zenon DEF TailDone, WorkerStates
<1>11. CASE JobPanics(w)
  BY <1>11, SMTT(30) DEF JobPanics, Fault, WorkerStates
<1>12. CASE ReportPanic(w)
  <2>1. reply' \in [Jobs -> SUBSET ReplyValues]
    BY <1>12, SendReplyType, Zenon DEF ReportPanic, ReplyValues
  <2>2. QED  BY <1>12, <2>1, Zenon DEF ReportPanic, WorkerStates
<1>13. CASE ReportLost(w)
  BY <1>13, Zenon DEF ReportLost, WorkerStates
<1>14. CASE SendExit(w)
  <2>1. exits' \in Seq(WorkerIds)
    BY <1>14 DEF SendExit
  <2>2. QED  BY <1>14, <2>1, Zenon DEF SendExit, WorkerStates
<1>15. CASE ThreadEnds(w)
  BY <1>15, SMTT(30) DEF ThreadEnds, WorkerStates
<1>16. QED
  BY ZenonT(30), <1>1, <1>2, <1>3, <1>4, <1>5, <1>6, <1>7, <1>8, <1>9, <1>10, <1>11, <1>12,
     <1>13, <1>14, <1>15 DEF WorkerStep, WorkerFault

\* The steps of a call.
LEMMA CallTypeInv ==
    ASSUME TypeInv, NEW j \in Jobs,
           Call(j, "run") \/ Call(j, "try") \/ CallStep(j) \/ DeadlinePasses(j)
    PROVE  TypeInv'
<1> USE WorkerCountPositive, BoundsNat DEF TypeInv, StateOK, SpawnInv
<1>1. ASSUME NEW m \in {"run", "try"}, Call(j, m) PROVE TypeInv'
  <2>1. CASE closed
    BY <1>1, <2>1, ReturnType, Zenon DEF Call, Results
  <2>2. CASE ~closed
    BY <1>1, <2>2, ZenonT(30) DEF Call, CallStates
  <2>3. QED  BY <2>1, <2>2, Zenon
<1>2. CASE CallCheckBlocked(j)
  BY <1>2, GotoType DEF CallCheckBlocked, CallStates
<1>3. CASE CallReap(j)
  BY <1>3, GotoType, Zenon DEF CallReap, CallStates
<1>4. CASE CallRemove(j)
  BY <1>4, GotoType, Zenon DEF CallRemove, CallStates
<1>5. CASE CallCount(j)
  BY <1>5, GotoType, ReturnType, Zenon DEF CallCount, CallStates, Results
<1>6. CASE CallDeadline(j)
  BY <1>6, GotoType, Zenon DEF CallDeadline, CallStates
<1>7. CASE CallDeadlineOverflows(j)
  BY <1>7, ReturnType, Zenon DEF CallDeadlineOverflows, Results
<1>8. CASE CallPrecheck(j)
  <2>1. CASE passed[j]
    BY <1>8, <2>1, ReturnType DEF CallPrecheck, Results
  <2>2. CASE ~passed[j]
    BY <1>8, <2>2, Zenon DEF CallPrecheck, CallStates
  <2>3. QED  BY <2>1, <2>2, ZenonT(30)
<1>9. CASE Enqueue(j)
  <2>1. queue' \in Seq(Jobs)
    BY <1>9 DEF Enqueue
  <2>2. QED  BY <1>9, <2>1, GotoType, Zenon DEF Enqueue, CallStates
<1>10. CASE EnqueueTimesOut(j)
  <2>1. CASE limited[j]
    BY <1>10, <2>1, ReturnType, Zenon DEF EnqueueTimesOut, Results
  <2>2. CASE ~limited[j]
    BY <1>10, <2>2, ReturnType, Zenon DEF EnqueueTimesOut, Results
  <2>3. QED  BY <2>1, <2>2, Zenon
<1>11. CASE EnqueueRefused(j)
  BY <1>11, ReturnType, Zenon DEF EnqueueRefused, Results
<1>12. CASE CallCheckRemaining(j)
  BY <1>12, GotoType, Zenon DEF CallCheckRemaining, CallStates
<1>13. CASE ReceiveReply(j)
  BY <1>13, ReturnType, Zenon DEF ReceiveReply, Results
<1>14. CASE ReceiveTimesOut(j)
  BY <1>14, GotoType, Zenon DEF ReceiveTimesOut, CallStates
<1>15. CASE CancelJob(j)
  BY <1>15, ReturnType, Zenon DEF CancelJob, Results
<1>16. CASE ReplyDropped(j)
  BY <1>16, ReturnType, ZenonT(30) DEF ReplyDropped, Results
<1>17. CASE DeadlinePasses(j)
  BY <1>17 DEF DeadlinePasses
<1>18. QED
  BY ZenonT(30), <1>1, <1>2, <1>3, <1>4, <1>5, <1>6, <1>7, <1>8, <1>9, <1>10, <1>11, <1>12,
     <1>13, <1>14, <1>15, <1>16, <1>17 DEF CallStep

\* Every step keeps the state well typed.
LEMMA NextTypeInv == TypeInv /\ [Next]_vars => TypeInv'
<1> SUFFICES ASSUME TypeInv, [Next]_vars PROVE TypeInv'
  OBVIOUS
<1>1. CASE UNCHANGED vars
  BY <1>1 DEF vars, TypeInv, StateOK, SpawnInv
<1>2. QED
  BY <1>1, SpawnTypeInv, OwnerTypeInv, SupTypeInv, WorkerTypeInv, CallTypeInv, ZenonT(30)
  DEF Next

\* The types hold throughout.
LEMMA AlwaysTypeInv == Spec => []TypeInv
BY InitTypeInv, NextTypeInv, PTL DEF Spec

(***************************************************************************)
(* The flags, apart: they are Boolean, which the provers treat separately. *)
(***************************************************************************)

\* Setting one entry of a family of flags.
LEMMA SetFlag ==
    ASSUME NEW f \in [Jobs -> BOOLEAN], NEW j \in Jobs, NEW b \in BOOLEAN
    PROVE  [f EXCEPT ![j] = b] \in [Jobs -> BOOLEAN]
OBVIOUS

\* Returning from a call clears its flags.
LEMMA ReturnFlags ==
    ASSUME FlagsOK, NEW j \in Jobs, NEW r, Return(j, r)
    PROVE  limited' \in [Jobs -> BOOLEAN] /\ passed' \in [Jobs -> BOOLEAN]
BY SetFlag, Zenon DEF FlagsOK, Return

\* closed is only ever stored by drop, restart_blocked by spawn_worker and
\* reconcile_workers.
LEMMA PoolFlags ==
    ASSUME FlagsOK,
           \/ SpawnStep \/ SpawnThreadFails \/ BuildSupervisor
           \/ BuildSupervisorFails \/ BeginDrop \/ TeardownStep
           \/ SupStep \/ WindowElapses
    PROVE  FlagsOK'
<1>1. CASE SpawnThread \/ SpawnInsert \/ SpawnReady
  BY <1>1, Zenon DEF FlagsOK, SpawnThread, SpawnInsert, SpawnReady
<1>2. CASE SpawnNotReady \/ SpawnJoin \/ SpawnThreadFails
  BY <1>2, Zenon DEF FlagsOK, SpawnNotReady, SpawnJoin, SpawnThreadFails, SpawnReturnsErr
<1>3. CASE BuildSupervisor \/ BuildSupervisorFails \/ BeginDrop \/ MarkClosed
  BY <1>3, Zenon
  DEF FlagsOK, BuildSupervisor, BuildSupervisorFails, BeginDrop, MarkClosed
<1>4. CASE DrainJob \/ SignalWorkers \/ SignalSupervisor \/ JoinSupervisor \/ JoinWorkers
  BY <1>4, Zenon
  DEF FlagsOK, DrainJob, SignalWorkers, SignalSupervisor, JoinSupervisor, JoinWorkers
<1>5. CASE SupShutdown \/ SupExitEvent \/ SupJoin \/ SupTick \/ SupCheckClosed
  BY <1>5, Zenon
  DEF FlagsOK, SupShutdown, SupExitEvent, SupJoin, SupTick, SupCheckClosed
<1>6. CASE \/ ReconcileCheckClosed \/ ReconcileReap \/ ReconcileRemove
           \/ ReconcileDone \/ WindowElapses
  BY <1>6, Zenon DEF FlagsOK, ReconcileCheckClosed, ReconcileReap, ReconcileRemove,
                     ReconcileDone, WindowElapses
<1>7. CASE ReconcileCount
  BY <1>7, Zenon DEF FlagsOK, ReconcileCount
<1>8. CASE ReconcileAttempt
  BY <1>8, Zenon DEF FlagsOK, ReconcileAttempt
<1>9. QED
  BY <1>1, <1>2, <1>3, <1>4, <1>5, <1>6, <1>7, <1>8, ZenonT(30)
  DEF SpawnStep, TeardownStep, SupStep

\* A worker stores no flag.
LEMMA WorkerFlags ==
    ASSUME FlagsOK, NEW w \in WorkerIds, WorkerStep(w) \/ WorkerFault(w)
    PROVE  FlagsOK'
<1>1. UNCHANGED <<closed, blocked, limited, passed, canceled>>
  BY Zenon DEF WorkerStep, WorkerFault, WorkerInitOk, WorkerInitFails, WorkerShutdown,
               TakeJob, SkipCanceled, StartJob, LoopPanics, MainReplies,
               MainNotReplied, TailDone, JobPanics, ReportPanic, ReportLost,
               SendExit, ThreadEnds
<1>2. QED  BY <1>1, Zenon DEF FlagsOK

\* A call stores only its own flags.
LEMMA CallFlags ==
    ASSUME FlagsOK, NEW j \in Jobs,
           Call(j, "run") \/ Call(j, "try") \/ CallStep(j) \/ DeadlinePasses(j)
    PROVE  FlagsOK'
<1> USE SetFlag, ReturnFlags DEF FlagsOK
<1>1. CASE Call(j, "run") \/ Call(j, "try")
  BY <1>1, Zenon DEF Call
<1>2. CASE \/ CallCheckBlocked(j) \/ CallReap(j) \/ CallRemove(j)
           \/ CallDeadline(j) \/ Enqueue(j) \/ CallCheckRemaining(j)
           \/ ReceiveTimesOut(j)
  BY <1>2, Zenon DEF CallCheckBlocked, CallReap, CallRemove, CallDeadline, Enqueue,
                     CallCheckRemaining, ReceiveTimesOut, Goto
<1>3. CASE CallCount(j)
  BY <1>3, Zenon DEF CallCount, Goto
<1>4. CASE CallPrecheck(j)
  BY <1>4, Zenon DEF CallPrecheck
<1>5. CASE EnqueueTimesOut(j)
  BY <1>5, Zenon DEF EnqueueTimesOut
<1>6. CASE \/ CallDeadlineOverflows(j) \/ EnqueueRefused(j) \/ ReceiveReply(j)
           \/ ReplyDropped(j)
  BY <1>6, Zenon DEF CallDeadlineOverflows, EnqueueRefused, ReceiveReply, ReplyDropped
<1>7. CASE CancelJob(j)
  BY <1>7, Zenon DEF CancelJob
<1>8. CASE DeadlinePasses(j)
  BY <1>8, Zenon DEF DeadlinePasses
<1>9. QED
  BY <1>1, <1>2, <1>3, <1>4, <1>5, <1>6, <1>7, <1>8, ZenonT(30) DEF CallStep

\* TypeOK holds throughout: whatever calls, workers, supervisor and drop do,
\* every variable keeps its type, the guard never remembers more than
\* MaxRestarts attempts, and missing stays a number of workers.
THEOREM TypeCorrect == Spec => []TypeOK
<1>1. Init => FlagsOK
  <2>1. [j \in Jobs |-> FALSE] \in [Jobs -> BOOLEAN]
    OBVIOUS
  <2>2. QED  BY <2>1, ZenonT(30) DEF Init, FlagsOK
<1>2. FlagsOK /\ [Next]_vars => FlagsOK'
  <2> SUFFICES ASSUME FlagsOK, [Next]_vars PROVE FlagsOK'
    OBVIOUS
  <2>1. CASE UNCHANGED vars
    BY <2>1, Zenon DEF vars, FlagsOK
  <2>2. QED  BY <2>1, PoolFlags, WorkerFlags, CallFlags, Zenon DEF Next
<1>3. TypeInv /\ FlagsOK => TypeOK
  BY DEF TypeInv, TypeOK
<1>4. QED  BY <1>1, <1>2, <1>3, AlwaysTypeInv, PTL DEF Spec

(***************************************************************************)
(* The handles of the worker threads: no running thread is without one,    *)
(* there are never more than WorkerCount, and a drop that is over has      *)
(* joined them all.  Callers, the supervisor, spawn_worker and drop change *)
(* the handle map at any time, for every pool size and number of calls.    *)
(***************************************************************************)

\* A thread that has left its loop, and one that has sent its exit event.
LeftStates == {"exit", "ending", "finished"}
EndStates == {"ending", "finished"}

\* The workers whose exit event is in the channel.
Exited == {w \in WorkerIds : \E i \in DOMAIN exits : exits[i] = w}

\* Ids are not used twice, and a handle belongs to a thread that was created.
\* The thread of a spawn_worker call gets its handle into the map once.
IdInv ==
    /\ \A w \in WorkerIds : nextId <= w => wpc[w] = "none"
    /\ \A w \in map : wpc[w] # "none"
    /\ spc # "idle" => wpc[sid] # "none"
    /\ spc \in {"insert", "join"} => sid \notin map

\* Whoever is about to join or to forget a thread knows that it has left its
\* loop: a failed start is reported after the loop, an exit event is sent
\* there, and a reap collects finished threads.
LeftInv ==
    /\ \A w \in WorkerIds : ready[w] = "err" => wpc[w] \in LeftStates
    /\ spc = "join" => wpc[sid] \in LeftStates
    /\ \A w \in Exited \cup joining : wpc[w] \in EndStates
    /\ joining # {} => sup = "join"
    /\ \A w \in supFound : Finished(w)
    /\ \A j \in Jobs : \A w \in found[j] : Finished(w)

ThreadInv == IdInv /\ LeftInv /\ HandlesAccountedFor

\* Workers in the map and workers still to be started are together no more
\* than there should be; the one being started counts as still to be started.
BudgetInv ==
    Cardinality(IF spc = "idle" THEN map ELSE map \ {sid}) + missing <= WorkerCount

\* A drop begins when no call is in progress, so nothing is queued after it
\* has drained the queue; it joins the workers after the supervisor is gone.
DropInv ==
    /\ \A j \in Jobs : cpc[j] \notin {"start", "returned"} => owner = "open"
    /\ owner \in {"stop_sup", "join_sup", "join_workers", "gone"} => queue = <<>>
    /\ owner \in {"join_workers", "gone"} => sup \in {"none", "done"}
    /\ owner = "gone" => map = {}

HandleInv == ThreadInv /\ BudgetInv /\ DropInv

(***************************************************************************)
(* Threads and their handles.                                              *)
(***************************************************************************)

\* A worker sends its exit event.
LEMMA ExitSent ==
    ASSUME TypeInv, NEW w \in WorkerIds, exits' = Append(exits, w)
    PROVE  Exited' \subseteq Exited \cup {w}
<1>1. exits \in Seq(WorkerIds)
  BY DEF TypeInv, StateOK
<1>2. \A i \in DOMAIN exits' : (i \in DOMAIN exits /\ exits'[i] = exits[i]) \/ exits'[i] = w
  BY <1>1
<1>3. QED  BY <1>2, Zenon DEF Exited

\* The supervisor receives one.
LEMMA ExitReceived ==
    ASSUME TypeInv, exits # <<>>, exits' = Tail(exits)
    PROVE  Head(exits) \in Exited /\ Exited' \subseteq Exited
<1>1. exits \in Seq(WorkerIds)
  BY DEF TypeInv, StateOK
<1>2. Head(exits) \in WorkerIds /\ 1 \in DOMAIN exits /\ Head(exits) = exits[1]
  BY <1>1
<1>3. \A i \in DOMAIN exits' : i + 1 \in DOMAIN exits /\ exits'[i] = exits[i + 1]
  BY <1>1
<1>4. QED  BY <1>2, <1>3, Zenon DEF Exited

\* What a worker's step must satisfy: a thread that has left its loop does not
\* return to it, and what it has announced is true.
Advances(w, x) ==
    /\ wpc[w] \notin {"none", "finished"} /\ x \in WorkerStates \ {"none"}
    /\ wpc' = [wpc EXCEPT ![w] = x]
    /\ wpc[w] \in LeftStates => x \in LeftStates
    /\ wpc[w] \in EndStates => x \in EndStates
    /\ \A v \in WorkerIds : ready'[v] = "err" => ready[v] = "err" \/ (v = w /\ x \in LeftStates)
    /\ \A v \in Exited' : v \in Exited \/ (v = w /\ x \in EndStates)
    /\ UNCHANGED <<map, nextId, spc, sid, sup, joining, supFound, found>>

\* Such a step leaves every thread with its handle.
LEMMA WorkerAdvances ==
    ASSUME TypeInv, ThreadInv, NEW w \in WorkerIds, NEW x, Advances(w, x)
    PROVE  ThreadInv'
<1>1. /\ wpc \in [WorkerIds -> WorkerStates] /\ map \in SUBSET WorkerIds
      /\ spc # "idle" => sid \in WorkerIds
      /\ joining \in SUBSET WorkerIds /\ supFound \in SUBSET WorkerIds
      /\ found \in [Jobs -> SUBSET WorkerIds]
  BY DEF TypeInv, StateOK, SpawnInv
<1>2. \A v \in WorkerIds : wpc'[v] = IF v = w THEN x ELSE wpc[v]
  BY <1>1 DEF Advances
<1>3. IdInv'
  BY <1>1, <1>2, SMTT(30) DEF ThreadInv, IdInv, Advances
<1>4. LeftInv'
  <2>1. \A v \in WorkerIds : wpc[v] = "finished" => wpc'[v] = "finished"
    BY <1>2 DEF Advances
  <2>2. \A v \in WorkerIds : ready'[v] = "err" => wpc'[v] \in LeftStates
    BY <1>2 DEF ThreadInv, LeftInv, Advances
  <2>3. \A v \in (Exited \cup joining)' : wpc'[v] \in EndStates
    BY <1>1, <1>2 DEF ThreadInv, LeftInv, Advances, Exited
  <2>4. (spc = "join")' => (wpc[sid])' \in LeftStates
    BY <1>1, <1>2 DEF ThreadInv, LeftInv, Advances
  <2>5. QED
    BY <1>1, <2>1, <2>2, <2>3, <2>4, Zenon DEF ThreadInv, LeftInv, Advances, Finished
<1>5. HandlesAccountedFor'
  BY <1>2 DEF ThreadInv, HandlesAccountedFor, Advances
<1>6. QED  BY <1>3, <1>4, <1>5 DEF ThreadInv

\* What a step that is not a worker's may do to the handles: forget some of
\* finished threads, and collect ids of finished threads.
Forgets ==
    /\ map' \subseteq map /\ \A w \in map \ map' : Finished(w)
    /\ \A w \in supFound' : Finished(w)
    /\ \A j \in Jobs : \A w \in found'[j] : Finished(w)
    /\ joining = {} \/ sup' = "join"
    /\ UNCHANGED <<wpc, ready, exits, nextId, spc, sid, joining>>

\* Such a step detaches no running thread.
LEMMA HandlesForgotten ==
    ASSUME TypeInv, ThreadInv, Forgets
    PROVE  ThreadInv'
<1>1. IdInv'
  BY DEF ThreadInv, IdInv, Forgets
<1>2. LeftInv'
  BY Zenon DEF ThreadInv, LeftInv, Forgets, Exited, Finished
<1>3. HandlesAccountedFor'
  BY Zenon DEF ThreadInv, HandlesAccountedFor, Forgets, Finished
<1>4. QED  BY <1>1, <1>2, <1>3 DEF ThreadInv

\* spawn_worker moves the handle of its thread into the map, and out of it
\* only to join it.
LEMMA SpawnThreadInv ==
    ASSUME TypeInv, ThreadInv, SpawnStep \/ SpawnThreadFails
    PROVE  ThreadInv'
<1> USE DEF ThreadInv, IdInv
<1>0. /\ wpc \in [WorkerIds -> WorkerStates] /\ map \in SUBSET WorkerIds
      /\ nextId \in Nat /\ joining \in SUBSET WorkerIds /\ supFound \in SUBSET WorkerIds
      /\ found \in [Jobs -> SUBSET WorkerIds]
      /\ spc # "idle" => sid \in WorkerIds /\ (owner = "building" \/ sup = "spawn")
      /\ owner = "building" => sup = "none"
  BY BoundsNat DEF TypeInv, StateOK, SpawnInv
<1>1. CASE SpawnThread
  <2>1. nextId \in WorkerIds /\ nextId' = nextId + 1 /\ wpc[nextId] = "none"
    BY <1>0, <1>1, BoundsNat DEF SpawnThread, WorkerIds
  <2>2. \A v \in WorkerIds : wpc'[v] = IF v = nextId THEN "starting" ELSE wpc[v]
    BY <1>0, <1>1 DEF SpawnThread
  <2>3. /\ spc = "idle" /\ spc' = "insert" /\ sid' = nextId
        /\ UNCHANGED <<map, exits, sup, joining, supFound, ready, found>>
    BY <1>1 DEF SpawnThread, SpawnRequested
  <2>4. IdInv'
    BY <1>0, <2>1, <2>2, <2>3 DEF WorkerIds
  <2>5. LeftInv'
    <3>1. \A v \in WorkerIds : wpc[v] # "none" => wpc'[v] = wpc[v]
      BY <2>1, <2>2
    <3>2. QED
      BY <1>0, <2>3, <3>1 DEF LeftInv, LeftStates, EndStates, Exited, Finished
  <2>6. HandlesAccountedFor'
    BY <2>1, <2>2, <2>3 DEF HandlesAccountedFor
  <2>7. QED  BY <2>4, <2>5, <2>6
<1>2. CASE SpawnInsert
  <2>1. /\ spc = "insert" /\ spc' = "ready" /\ map' = map \cup {sid}
        /\ UNCHANGED <<nextId, exits, sid, sup, joining, supFound, wpc, ready, found>>
    BY <1>2 DEF SpawnInsert
  <2>2. LeftInv'
    BY <2>1, Zenon DEF LeftInv, Exited, Finished
  <2>3. QED  BY <1>0, <2>1, <2>2 DEF HandlesAccountedFor
<1>3. CASE SpawnReady
  <2>1. /\ spc = "ready" /\ spc' = "idle" /\ joining = {}
        /\ UNCHANGED <<map, nextId, exits, sid, joining, supFound, wpc, ready, found>>
    BY <1>0, <1>3 DEF SpawnReady, SpawnReturnsOk, LeftInv
  <2>2. LeftInv'
    BY <2>1, Zenon DEF LeftInv, Exited, Finished
  <2>3. QED  BY <1>0, <2>1, <2>2 DEF HandlesAccountedFor
<1>4. CASE SpawnNotReady
  <2>1. /\ spc = "ready" /\ map' = map \ {sid} /\ joining = {}
        /\ spc' = IF sid \in map THEN "join" ELSE "idle"
        /\ ready[sid] = "err"
        /\ UNCHANGED <<nextId, exits, sid, joining, supFound, wpc, ready, found>>
    BY <1>0, <1>4 DEF SpawnNotReady, SpawnReturnsErr, LeftInv
  <2>2. LeftInv'
    BY <1>0, <2>1, Zenon DEF LeftInv, Exited, Finished
  <2>3. QED  BY <1>0, <2>1, <2>2 DEF HandlesAccountedFor
<1>5. CASE SpawnJoin
  <2>1. /\ spc = "join" /\ spc' = "idle" /\ joining = {} /\ wpc[sid] = "finished"
        /\ UNCHANGED <<map, nextId, exits, sid, joining, supFound, wpc, ready, found>>
    BY <1>0, <1>5 DEF SpawnJoin, SpawnReturnsErr, LeftInv, Finished
  <2>2. LeftInv'
    BY <2>1, Zenon DEF LeftInv, Exited, Finished
  <2>3. QED  BY <1>0, <2>1, <2>2 DEF HandlesAccountedFor
<1>6. CASE SpawnThreadFails
  <2>1. /\ spc = "idle" /\ spc' = "idle" /\ nextId' = nextId + 1 /\ joining = {}
        /\ UNCHANGED <<map, exits, sid, joining, supFound, wpc, ready, found>>
    BY <1>0, <1>6 DEF SpawnThreadFails, SpawnRequested, SpawnReturnsErr, LeftInv
  <2>2. LeftInv'
    BY <2>1, Zenon DEF LeftInv, Exited, Finished
  <2>3. QED  BY <1>0, <2>1, <2>2 DEF HandlesAccountedFor, WorkerIds
<1>7. QED  BY <1>1, <1>2, <1>3, <1>4, <1>5, <1>6, Zenon DEF SpawnStep

\* new(), drop() and the clock; drop forgets threads it has joined.
LEMMA OwnerThreadInv ==
    ASSUME TypeInv, ThreadInv,
           \/ BuildSupervisor \/ BuildSupervisorFails \/ BeginDrop \/ TeardownStep
           \/ WindowElapses
    PROVE  ThreadInv'
<1>0. /\ joining = {} \/ sup = "join"
      /\ \A w \in supFound : Finished(w)
      /\ \A j \in Jobs : \A w \in found[j] : Finished(w)
      /\ owner = "building" => joining = {}
  BY DEF ThreadInv, LeftInv, TypeInv, SpawnInv
<1>1. CASE BuildSupervisor \/ BuildSupervisorFails
  BY <1>0, <1>1, HandlesForgotten, Zenon DEF BuildSupervisor, BuildSupervisorFails, Forgets
<1>2. CASE JoinWorkers
  BY <1>0, <1>2, HandlesForgotten DEF JoinWorkers, Forgets
<1>3. CASE BeginDrop \/ MarkClosed \/ DrainJob \/ SignalWorkers
  BY <1>0, <1>3, HandlesForgotten, Zenon
  DEF BeginDrop, MarkClosed, DrainJob, SignalWorkers, Forgets
<1>4. CASE SignalSupervisor \/ JoinSupervisor \/ WindowElapses
  BY <1>0, <1>4, HandlesForgotten, Zenon
  DEF SignalSupervisor, JoinSupervisor, WindowElapses, Forgets
<1>5. QED  BY <1>1, <1>2, <1>3, <1>4, Zenon DEF TeardownStep

\* The supervisor takes a handle out of the map to join it, or because its
\* reap found the thread finished.
LEMMA SupThreadInv ==
    ASSUME TypeInv, ThreadInv, SupStep
    PROVE  ThreadInv'
<1>0. /\ joining = {} \/ sup = "join"
      /\ \A w \in supFound : Finished(w)
      /\ \A j \in Jobs : \A w \in found[j] : Finished(w)
  BY DEF ThreadInv, LeftInv
<1>1. CASE SupExitEvent
  <2>1. /\ sup = "select" /\ sup' = "join" /\ joining = {}
        /\ map' = map \ {Head(exits)} /\ joining' = map \cap {Head(exits)}
        /\ UNCHANGED <<nextId, spc, sid, supFound, wpc, ready, found>>
    BY <1>0, <1>1, Zenon DEF SupExitEvent
  <2>2. Head(exits) \in Exited /\ Exited' \subseteq Exited
    BY <1>1, ExitReceived, Zenon DEF SupExitEvent
  <2>3. IdInv'
    BY <2>1, Zenon DEF ThreadInv, IdInv
  <2>4. LeftInv'
    BY <2>1, <2>2, Zenon DEF ThreadInv, LeftInv, Finished
  <2>5. HandlesAccountedFor'
    BY <2>1, Zenon DEF ThreadInv, HandlesAccountedFor
  <2>6. QED  BY <2>3, <2>4, <2>5 DEF ThreadInv
<1>2. CASE SupJoin
  <2>1. /\ joining' = {} /\ \A w \in joining : wpc[w] = "finished"
        /\ UNCHANGED <<map, nextId, exits, spc, sid, supFound, wpc, ready, found>>
    BY <1>2, Zenon DEF SupJoin, Finished
  <2>2. IdInv'
    BY <2>1, Zenon DEF ThreadInv, IdInv
  <2>3. LeftInv'
    BY <2>1, Zenon DEF ThreadInv, LeftInv, Exited, Finished
  <2>4. HandlesAccountedFor'
    BY <2>1, Zenon DEF ThreadInv, HandlesAccountedFor
  <2>5. QED  BY <2>2, <2>3, <2>4 DEF ThreadInv
<1>3. CASE ReconcileReap
  BY <1>0, <1>3, HandlesForgotten, Zenon DEF ReconcileReap, Forgets
<1>4. CASE ReconcileRemove
  BY <1>0, <1>4, HandlesForgotten, Zenon DEF ReconcileRemove, Forgets
<1>5. CASE SupShutdown \/ SupTick \/ SupCheckClosed \/ ReconcileCheckClosed
  BY <1>0, <1>5, HandlesForgotten, Zenon
  DEF SupShutdown, SupTick, SupCheckClosed, ReconcileCheckClosed, Forgets
<1>6. CASE ReconcileCount \/ ReconcileAttempt \/ ReconcileDone
  BY <1>0, <1>6, HandlesForgotten, Zenon
  DEF ReconcileCount, ReconcileAttempt, ReconcileDone, Forgets
<1>7. QED  BY <1>1, <1>2, <1>3, <1>4, <1>5, <1>6, Zenon DEF SupStep

\* The states of a worker in its loop, and a step within it or out of it.
InLoop == WorkerStates \ {"none", "exit", "ending", "finished"}
LoopMoves(w, x) ==
    /\ wpc[w] \in InLoop /\ wpc' = [wpc EXCEPT ![w] = x]
    /\ UNCHANGED <<map, nextId, exits, spc, sid, sup, joining, supFound, ready, found>>

\* Most steps of a worker are of this kind, and leave every thread its handle.
LEMMA LoopAdvances ==
    ASSUME TypeInv, ThreadInv, NEW w \in WorkerIds, NEW x \in InLoop \cup {"exit"},
           LoopMoves(w, x)
    PROVE  ThreadInv'
<1>1. Exited' = Exited
  BY Zenon DEF LoopMoves, Exited
<1>2. /\ wpc[w] \notin {"none", "finished"} /\ x \in WorkerStates \ {"none"}
      /\ wpc[w] \notin LeftStates /\ wpc[w] \notin EndStates
  <2>1. wpc[w] \in InLoop
    BY DEF LoopMoves
  <2>2. QED  BY <2>1 DEF InLoop, WorkerStates, LeftStates, EndStates
<1>3. Advances(w, x)
  BY <1>1, <1>2, Zenon DEF LoopMoves, Advances
<1>4. QED  BY <1>3, WorkerAdvances, Zenon

\* A worker announces its end only after it has left its loop.
LEMMA WorkerThreadInv ==
    ASSUME TypeInv, ThreadInv, NEW w \in WorkerIds, WorkerStep(w) \/ WorkerFault(w)
    PROVE  ThreadInv'
<1>0. /\ ready \in [WorkerIds -> {"none", "ok", "err"}]
      /\ {"idle", "taken", "run", "tail", "panicked", "lost"} \subseteq InLoop
  BY DEF TypeInv, StateOK, InLoop, WorkerStates
<1>1. CASE WorkerInitOk(w)
  <2>1. /\ wpc[w] = "starting" /\ wpc' = [wpc EXCEPT ![w] = "idle"]
        /\ ready' = [ready EXCEPT ![w] = "ok"] /\ Exited' = Exited
        /\ UNCHANGED <<map, nextId, spc, sid, sup, joining, supFound, found>>
    BY <1>1, Zenon DEF WorkerInitOk, Exited
  <2>2. \A v \in WorkerIds : ready'[v] = IF v = w THEN "ok" ELSE ready[v]
    BY <1>0, <2>1, Zenon
  <2>3. Advances(w, "idle")
    BY <2>1, <2>2 DEF Advances, WorkerStates, LeftStates, EndStates
  <2>4. QED  BY <2>3, WorkerAdvances, Zenon
<1>2. CASE WorkerInitFails(w)
  <2>1. /\ wpc[w] = "starting" /\ wpc' = [wpc EXCEPT ![w] = "exit"]
        /\ ready' = [ready EXCEPT ![w] = "err"] /\ Exited' = Exited
        /\ UNCHANGED <<map, nextId, spc, sid, sup, joining, supFound, found>>
    BY <1>2, Zenon DEF WorkerInitFails, Exited
  <2>2. \A v \in WorkerIds : ready'[v] = IF v = w THEN "err" ELSE ready[v]
    BY <1>0, <2>1, Zenon
  <2>3. Advances(w, "exit")
    BY <2>1, <2>2, Zenon DEF Advances, WorkerStates, LeftStates, EndStates
  <2>4. QED  BY <2>3, WorkerAdvances, Zenon
<1>3. CASE WorkerShutdown(w) \/ ReportPanic(w) \/ ReportLost(w)
  BY <1>0, <1>3, LoopAdvances, Zenon DEF WorkerShutdown, ReportPanic, ReportLost, LoopMoves
<1>4. CASE TakeJob(w)
  BY <1>0, <1>4, LoopAdvances, Zenon DEF TakeJob, LoopMoves
<1>5. CASE SkipCanceled(w) \/ MainNotReplied(w) \/ TailDone(w)
  BY <1>0, <1>5, LoopAdvances, Zenon DEF SkipCanceled, MainNotReplied, TailDone, LoopMoves
<1>6. CASE StartJob(w)
  BY <1>0, <1>6, LoopAdvances, Zenon DEF StartJob, LoopMoves
<1>7. CASE LoopPanics(w)
  BY <1>0, <1>7, LoopAdvances, Zenon DEF LoopPanics, LoopMoves
<1>8. CASE MainReplies(w, "ok") \/ MainReplies(w, "failed")
  BY <1>0, <1>8, LoopAdvances, Zenon DEF MainReplies, LoopMoves
<1>9. CASE JobPanics(w)
  BY <1>0, <1>9, LoopAdvances, Zenon DEF JobPanics, LoopMoves
<1>10. CASE SendExit(w)
  <2>1. Exited' \subseteq Exited \cup {w}
    BY <1>10, ExitSent, Zenon DEF SendExit
  <2>2. /\ wpc[w] = "exit" /\ wpc' = [wpc EXCEPT ![w] = "ending"]
        /\ UNCHANGED <<map, nextId, spc, sid, sup, joining, supFound, ready, found>>
    BY <1>10, Zenon DEF SendExit
  <2>3. Advances(w, "ending")
    BY <2>1, <2>2 DEF Advances, WorkerStates, LeftStates, EndStates
  <2>4. QED  BY <2>3, WorkerAdvances, Zenon
<1>11. CASE ThreadEnds(w)
  <2>1. /\ wpc[w] = "ending" /\ wpc' = [wpc EXCEPT ![w] = "finished"] /\ Exited' = Exited
        /\ UNCHANGED <<map, nextId, spc, sid, sup, joining, supFound, ready, found>>
    BY <1>11, Zenon DEF ThreadEnds, Exited
  <2>2. Advances(w, "finished")
    BY <2>1 DEF Advances, WorkerStates, LeftStates, EndStates
  <2>3. QED  BY <2>2, WorkerAdvances, Zenon
<1>12. QED
  BY <1>1, <1>2, <1>3, <1>4, <1>5, <1>6, <1>7, <1>8, <1>9, <1>10, <1>11, Zenon
  DEF WorkerStep, WorkerFault

\* A call takes handles out of the map that its reap found finished.
LEMMA CallThreadInv ==
    ASSUME TypeInv, ThreadInv, NEW j \in Jobs,
           Call(j, "run") \/ Call(j, "try") \/ CallStep(j) \/ DeadlinePasses(j)
    PROVE  ThreadInv'
<1>0. /\ joining = {} \/ sup = "join"
      /\ \A w \in supFound : Finished(w)
      /\ \A i \in Jobs : \A w \in found[i] : Finished(w)
      /\ found \in [Jobs -> SUBSET WorkerIds]
  BY DEF ThreadInv, LeftInv, TypeInv, StateOK
<1>1. CASE CallReap(j)
  <2>1. \A i \in Jobs : \A w \in found'[i] : Finished(w)
    BY <1>0, <1>1, Zenon DEF CallReap
  <2>2. QED  BY <1>0, <1>1, <2>1, HandlesForgotten, Zenon DEF CallReap, Forgets
<1>2. CASE CallRemove(j)
  <2>1. \A i \in Jobs : \A w \in found'[i] : Finished(w)
    BY <1>0, <1>2, Zenon DEF CallRemove
  <2>2. QED  BY <1>0, <1>2, <2>1, HandlesForgotten, Zenon DEF CallRemove, Forgets
<1>3. CASE UNCHANGED <<map, nextId, exits, spc, sid, supVars, wpc, ready, found>>
  BY <1>0, <1>3, HandlesForgotten, Zenon DEF Forgets
<1>4. CASE \/ Call(j, "run") \/ Call(j, "try") \/ CallCheckBlocked(j) \/ CallCount(j)
           \/ CallDeadline(j) \/ CallDeadlineOverflows(j) \/ CallPrecheck(j)
           \/ DeadlinePasses(j)
  BY <1>3, <1>4, Zenon
  DEF Call, CallCheckBlocked, CallCount, CallDeadline, CallDeadlineOverflows,
      CallPrecheck, DeadlinePasses
<1>5. CASE \/ Enqueue(j) \/ EnqueueTimesOut(j) \/ EnqueueRefused(j)
           \/ CallCheckRemaining(j) \/ ReceiveReply(j) \/ ReceiveTimesOut(j)
           \/ CancelJob(j) \/ ReplyDropped(j)
  BY <1>3, <1>5, Zenon
  DEF Enqueue, EnqueueTimesOut, EnqueueRefused, CallCheckRemaining, ReceiveReply,
      ReceiveTimesOut, CancelJob, ReplyDropped
<1>6. QED  BY <1>1, <1>2, <1>4, <1>5, Zenon DEF CallStep

\* Every step leaves every running thread with a handle.
LEMMA NextThreadInv == TypeInv /\ ThreadInv /\ [Next]_vars => ThreadInv'
<1> SUFFICES ASSUME TypeInv, ThreadInv, [Next]_vars PROVE ThreadInv'
  OBVIOUS
<1>1. CASE UNCHANGED vars
  BY <1>1, Zenon DEF vars, ThreadInv, IdInv, LeftInv, HandlesAccountedFor, Exited, Finished
<1>2. QED
  BY <1>1, SpawnThreadInv, OwnerThreadInv, SupThreadInv, WorkerThreadInv, CallThreadInv, Zenon
  DEF Next

(***************************************************************************)
(* The number of workers.                                                  *)
(***************************************************************************)

\* The handles that are not the one being started.
Settled == IF spc = "idle" THEN map ELSE map \ {sid}

\* Workers are not added, nor are more of them wanted.
LEMMA BudgetKept ==
    ASSUME TypeInv, BudgetInv, Settled' \subseteq Settled,
           missing' \in Nat, missing' <= missing
    PROVE  BudgetInv'
<1>1. Settled \in SUBSET WorkerIds /\ missing \in Nat /\ WorkerCount \in Nat
  BY WorkerCountPositive DEF TypeInv, StateOK, Settled
<1>2. /\ IsFiniteSet(Settled) /\ Cardinality(Settled) \in Nat
      /\ Settled' \in SUBSET WorkerIds
  BY <1>1, WorkerSetsFinite, Zenon
<1>3. Cardinality(Settled') \in Nat
  BY <1>2, WorkerSetsFinite, Zenon
<1>4. Cardinality(Settled') <= Cardinality(Settled)
  BY <1>2, FS_Subset, Zenon
<1>5. Cardinality(Settled) + missing <= WorkerCount
  BY Zenon DEF BudgetInv, Settled
<1>6. Cardinality(Settled') + missing' <= WorkerCount
  BY <1>1, <1>2, <1>3, <1>4, <1>5
<1>7. QED  BY <1>6, Zenon DEF BudgetInv, Settled

\* Handles leave the map, and spawn_worker is where it was.
LEMMA MapShrinks ==
    ASSUME TypeInv, BudgetInv, map' \subseteq map, UNCHANGED spawnVars
    PROVE  BudgetInv'
<1>1. Settled' \subseteq Settled
  BY Zenon DEF Settled
<1>2. missing' \in Nat /\ missing' <= missing
  BY DEF TypeInv, StateOK
<1>3. QED  BY <1>1, <1>2, BudgetKept, Zenon

\* A worker that reports ready counts as one, and one fewer is wanted.
LEMMA SpawnBudgetInv ==
    ASSUME TypeInv, ThreadInv, BudgetInv, SpawnStep \/ SpawnThreadFails
    PROVE  BudgetInv'
<1>0. /\ map \in SUBSET WorkerIds /\ missing \in Nat /\ WorkerCount \in Nat
      /\ spc # "idle" => sid \in WorkerIds /\ missing > 0
      /\ spc \in {"insert", "join"} => sid \notin map
  BY WorkerCountPositive DEF TypeInv, StateOK, SpawnInv, ThreadInv, IdInv
<1>1. CASE SpawnThread
  <2>1. Settled' \subseteq Settled /\ missing' = missing
    BY <1>1, Zenon DEF SpawnThread, SpawnRequested, Settled
  <2>2. QED  BY <1>0, <2>1, BudgetKept
<1>2. CASE SpawnInsert
  <2>1. Settled' \subseteq Settled /\ missing' = missing
    BY <1>2 DEF SpawnInsert, Settled
  <2>2. QED  BY <1>0, <2>1, BudgetKept
<1>3. CASE SpawnReady
  <2>1. /\ spc = "ready" /\ spc' = "idle" /\ map' = map /\ missing' = missing - 1
    BY <1>3 DEF SpawnReady, SpawnReturnsOk
  <2>2. map \ {sid} \in SUBSET WorkerIds /\ map \subseteq (map \ {sid}) \cup {sid}
    BY <1>0, Zenon
  <2>3. IsFiniteSet(map \ {sid}) /\ Cardinality(map \ {sid}) \in Nat /\ Cardinality(map) \in Nat
    BY <1>0, <2>2, WorkerSetsFinite, Zenon
  <2>4. /\ IsFiniteSet((map \ {sid}) \cup {sid})
        /\ Cardinality((map \ {sid}) \cup {sid}) = Cardinality(map \ {sid}) + 1
    BY <2>3, FS_AddElement, Zenon
  <2>5. Cardinality(map) <= Cardinality((map \ {sid}) \cup {sid})
    BY <2>2, <2>4, FS_Subset, Zenon
  <2>6. Cardinality(map \ {sid}) + missing <= WorkerCount
    BY <2>1 DEF BudgetInv
  <2>7. Cardinality(map) + (missing - 1) <= WorkerCount
    BY <1>0, <2>3, <2>4, <2>5, <2>6
  <2>8. QED  BY <2>1, <2>7 DEF BudgetInv
<1>4. CASE SpawnNotReady
  <2>1. Settled' \subseteq Settled /\ (missing' = missing \/ missing' = 0)
    BY <1>4 DEF SpawnNotReady, SpawnReturnsErr, Settled
  <2>2. QED  BY <1>0, <2>1, BudgetKept
<1>5. CASE SpawnJoin
  <2>1. Settled' \subseteq Settled /\ missing' = 0
    BY <1>0, <1>5 DEF SpawnJoin, SpawnReturnsErr, Settled
  <2>2. QED  BY <1>0, <2>1, BudgetKept
<1>6. CASE SpawnThreadFails
  <2>1. Settled' \subseteq Settled /\ missing' = 0
    BY <1>6 DEF SpawnThreadFails, SpawnRequested, SpawnReturnsErr, Settled
  <2>2. QED  BY <1>0, <2>1, BudgetKept
<1>7. QED  BY <1>1, <1>2, <1>3, <1>4, <1>5, <1>6, Zenon DEF SpawnStep

\* reconcile_workers asks for what the handles it counted leave to be wanted.
LEMMA SupBudgetInv ==
    ASSUME TypeInv, BudgetInv, SupStep
    PROVE  BudgetInv'
<1>0. map \in SUBSET WorkerIds /\ missing \in Nat /\ WorkerCount \in Nat
  BY WorkerCountPositive DEF TypeInv, StateOK
<1>1. CASE ReconcileCount
  <2>1. spc = "idle"
    BY <1>1 DEF ReconcileCount, TypeInv, SpawnInv
  <2>2. Cardinality(map) \in Nat
    BY <1>0, WorkerSetsFinite, Zenon
  <2>3. /\ spc' = spc /\ map' = map
        /\ missing' = missing \/ missing' = WorkerCount - Cardinality(map)
    BY <1>1 DEF ReconcileCount
  <2>4. Cardinality(map) + missing' <= WorkerCount
    BY <1>0, <2>1, <2>2, <2>3 DEF BudgetInv
  <2>5. QED  BY <2>1, <2>3, <2>4 DEF BudgetInv
<1>2. CASE ReconcileAttempt
  <2>1. Settled' = Settled /\ (missing' = missing \/ missing' = 0)
    BY <1>2, Zenon DEF ReconcileAttempt, Settled
  <2>2. QED  BY <1>0, <2>1, BudgetKept
<1>3. CASE SupExitEvent \/ ReconcileRemove
  BY <1>3, MapShrinks, Zenon DEF SupExitEvent, ReconcileRemove
<1>4. CASE \/ SupShutdown \/ SupJoin \/ SupTick \/ SupCheckClosed
           \/ ReconcileCheckClosed \/ ReconcileReap \/ ReconcileDone
  BY <1>4, MapShrinks, Zenon
  DEF SupShutdown, SupJoin, SupTick, SupCheckClosed, ReconcileCheckClosed,
      ReconcileReap, ReconcileDone
<1>5. QED  BY <1>1, <1>2, <1>3, <1>4, Zenon DEF SupStep

\* Nobody else adds a handle.
LEMMA OwnerBudgetInv ==
    ASSUME TypeInv, BudgetInv,
           \/ BuildSupervisor \/ BuildSupervisorFails \/ BeginDrop \/ TeardownStep
           \/ WindowElapses
    PROVE  BudgetInv'
<1>1. map' \subseteq map /\ UNCHANGED spawnVars
  BY Zenon
  DEF TeardownStep, BuildSupervisor, BuildSupervisorFails, BeginDrop, MarkClosed,
      DrainJob, SignalWorkers, SignalSupervisor, JoinSupervisor, JoinWorkers,
      WindowElapses
<1>2. QED  BY <1>1, MapShrinks, Zenon

(***************************************************************************)
(* The drop.                                                               *)
(***************************************************************************)

\* What a worker leaves alone.
LEMMA WorkerKeeps ==
    ASSUME NEW w \in WorkerIds, WorkerStep(w) \/ WorkerFault(w)
    PROVE  /\ UNCHANGED <<owner, map, spawnVars, sup, cpc>>
           /\ queue = <<>> => queue' = queue
<1>1. CASE WorkerInitOk(w) \/ WorkerShutdown(w) \/ TakeJob(w) \/ SkipCanceled(w) \/ StartJob(w)
  BY <1>1, Zenon DEF WorkerInitOk, WorkerShutdown, TakeJob, SkipCanceled, StartJob
<1>2. CASE MainReplies(w, "ok") \/ MainReplies(w, "failed") \/ MainNotReplied(w) \/ TailDone(w)
  BY <1>2, Zenon DEF MainReplies, MainNotReplied, TailDone
<1>3. CASE ReportPanic(w) \/ ReportLost(w) \/ SendExit(w) \/ ThreadEnds(w)
  BY <1>3, Zenon DEF ReportPanic, ReportLost, SendExit, ThreadEnds
<1>4. CASE WorkerFault(w)
  BY <1>4, Zenon DEF WorkerFault, WorkerInitFails, LoopPanics, JobPanics
<1>5. QED  BY <1>1, <1>2, <1>3, <1>4, Zenon DEF WorkerStep

\* What a step of a call leaves alone: only call j moves, while the pool is
\* open or after a start that found it open.
LEMMA CallKeepsPool ==
    ASSUME TypeInv, NEW j \in Jobs,
           Call(j, "run") \/ Call(j, "try") \/ CallStep(j) \/ DeadlinePasses(j)
    PROVE  /\ UNCHANGED <<owner, spawnVars, sup>> /\ map' \subseteq map
           /\ \A i \in Jobs : cpc'[i] = cpc[i] \/ i = j
           /\ cpc[j] \notin {"start", "returned"} \/ owner = "open"
<1>0. cpc \in [Jobs -> CallStates]
  BY DEF TypeInv, StateOK
<1>1. CASE Call(j, "run") \/ Call(j, "try")
  BY <1>0, <1>1, Zenon DEF Call, Return
<1>2. CASE CallReap(j) \/ CallRemove(j)
  BY <1>0, <1>2, Zenon DEF CallReap, CallRemove, Goto
<1>3. CASE \/ CallCheckBlocked(j) \/ CallCount(j) \/ CallDeadline(j)
           \/ CallDeadlineOverflows(j) \/ CallPrecheck(j)
  BY <1>0, <1>3, Zenon
  DEF CallCheckBlocked, CallCount, CallDeadline, CallDeadlineOverflows, CallPrecheck,
      Goto, Return
<1>4. CASE Enqueue(j) \/ EnqueueTimesOut(j) \/ EnqueueRefused(j) \/ CallCheckRemaining(j)
  BY <1>0, <1>4, Zenon
  DEF Enqueue, EnqueueTimesOut, EnqueueRefused, CallCheckRemaining, Goto, Return
<1>5. CASE ReceiveReply(j) \/ ReceiveTimesOut(j) \/ CancelJob(j) \/ ReplyDropped(j)
  BY <1>0, <1>5, Zenon DEF ReceiveReply, ReceiveTimesOut, CancelJob, ReplyDropped, Goto, Return
<1>6. CASE DeadlinePasses(j)
  <2>1. cpc[j] \notin {"start", "returned"}
    BY <1>6 DEF DeadlinePasses
  <2>2. QED  BY <1>6, <2>1, Zenon DEF DeadlinePasses
<1>7. QED  BY <1>1, <1>2, <1>3, <1>4, <1>5, <1>6, Zenon DEF CallStep

\* No call outlives the open pool, and no thread is spawned after the
\* supervisor has been joined.
LEMMA NextDropInv == TypeInv /\ DropInv /\ [Next]_vars => DropInv'
<1> SUFFICES ASSUME TypeInv, DropInv, [Next]_vars PROVE DropInv'
  OBVIOUS
<1> USE DEF DropInv
<1>0. /\ spc # "idle" => owner = "building" \/ sup = "spawn"
      /\ owner = "building" => sup = "none"
  BY DEF TypeInv, SpawnInv
<1>1. CASE SpawnStep \/ SpawnThreadFails
  <2>1. UNCHANGED <<queue, cpc>>
    BY <1>1, Zenon
    DEF SpawnStep, SpawnThread, SpawnInsert, SpawnReady, SpawnNotReady, SpawnJoin,
        SpawnThreadFails
  <2>2. owner = "building" \/ sup = "spawn"
    BY <1>0, <1>1
    DEF SpawnStep, SpawnThread, SpawnInsert, SpawnReady, SpawnNotReady, SpawnJoin,
        SpawnThreadFails, SpawnRequested
  <2>3. \/ owner' = owner /\ sup' = sup
        \/ owner' = owner /\ sup = "spawn"
        \/ owner' = "close" /\ sup # "spawn"
    BY <1>1, Zenon
    DEF SpawnStep, SpawnThread, SpawnInsert, SpawnReady, SpawnNotReady, SpawnJoin,
        SpawnThreadFails, SpawnReturnsOk, SpawnReturnsErr
  <2>4. QED  BY <2>1, <2>2, <2>3
<1>2. CASE BuildSupervisor \/ BuildSupervisorFails \/ BeginDrop
  <2>1. CASE BuildSupervisor
    BY <2>1 DEF BuildSupervisor
  <2>2. CASE BuildSupervisorFails \/ BeginDrop
    BY <2>2 DEF BuildSupervisorFails, BeginDrop
  <2>3. QED  BY <1>2, <2>1, <2>2
<1>3. CASE TeardownStep
  <2>1. CASE MarkClosed \/ DrainJob
    BY <2>1 DEF MarkClosed, DrainJob
  <2>2. CASE SignalWorkers \/ SignalSupervisor
    BY <2>2 DEF SignalWorkers, SignalSupervisor
  <2>3. CASE JoinSupervisor \/ JoinWorkers
    BY <2>3 DEF JoinSupervisor, JoinWorkers
  <2>4. QED  BY <1>3, <2>1, <2>2, <2>3, Zenon DEF TeardownStep
<1>4. CASE SupStep
  <2>1. UNCHANGED <<owner, queue, cpc>> /\ map' \subseteq map /\ sup \notin {"none", "done"}
    BY <1>4, Zenon
    DEF SupStep, SupShutdown, SupExitEvent, SupJoin, SupTick, SupCheckClosed,
        ReconcileCheckClosed, ReconcileReap, ReconcileRemove, ReconcileCount,
        ReconcileAttempt, ReconcileDone
  <2>2. QED  BY <2>1
<1>5. CASE \E w \in WorkerIds : WorkerStep(w) \/ WorkerFault(w)
  <2>1. UNCHANGED <<owner, map, sup, cpc>> /\ (queue = <<>> => queue' = queue)
    BY <1>5, WorkerKeeps, Zenon
  <2>2. QED  BY <2>1
<1>6. ASSUME NEW j \in Jobs,
             Call(j, "run") \/ Call(j, "try") \/ CallStep(j) \/ DeadlinePasses(j)
      PROVE  DropInv'
  <2>1. /\ UNCHANGED <<owner, sup>> /\ map' \subseteq map /\ owner = "open"
        /\ \A i \in Jobs : cpc'[i] = cpc[i] \/ i = j
    BY <1>6, CallKeepsPool, Zenon
  <2>2. QED  BY <2>1
<1>7. CASE WindowElapses
  BY <1>7 DEF WindowElapses
<1>8. CASE UNCHANGED vars
  BY <1>8 DEF vars
<1>9. QED  BY <1>1, <1>2, <1>3, <1>4, <1>5, <1>6, <1>7, <1>8, Zenon DEF Next

(***************************************************************************)
(* The theorems.                                                           *)
(***************************************************************************)

\* The pool starts without threads and with every worker still to be started.
LEMMA InitHandleInv == Init => HandleInv
<1> SUFFICES ASSUME Init PROVE HandleInv
  OBVIOUS
<1>1. /\ \A w \in WorkerIds : wpc[w] = "none" /\ ready[w] = "none"
      /\ \A j \in Jobs : found[j] = {} /\ cpc[j] = "start"
      /\ map = {} /\ joining = {} /\ supFound = {} /\ exits = <<>> /\ queue = <<>>
      /\ spc = "idle" /\ owner = "building" /\ missing = WorkerCount
  BY Zenon DEF Init
<1>2. Exited = {}
  BY <1>1 DEF Exited
<1>3. ThreadInv
  BY <1>1, <1>2 DEF ThreadInv, IdInv, LeftInv, HandlesAccountedFor
<1>4. BudgetInv
  BY <1>1, FS_EmptySet, WorkerCountPositive DEF BudgetInv
<1>5. DropInv
  BY <1>1 DEF DropInv
<1>6. QED  BY <1>3, <1>4, <1>5 DEF HandleInv

\* The three parts of the invariant hold together of every reachable state.
LEMMA AlwaysHandleInv == Spec => [](TypeInv /\ HandleInv)
<1>1. TypeInv /\ HandleInv /\ [Next]_vars => HandleInv'
  <2> SUFFICES ASSUME TypeInv, HandleInv, [Next]_vars PROVE HandleInv'
    OBVIOUS
  <2>0. ThreadInv /\ BudgetInv /\ DropInv
    BY DEF HandleInv
  <2>1. BudgetInv'
    <3>1. CASE UNCHANGED vars
      BY <2>0, <3>1, MapShrinks, Zenon DEF vars
    <3>2. ASSUME NEW w \in WorkerIds, WorkerStep(w) \/ WorkerFault(w)
          PROVE  BudgetInv'
      BY <2>0, <3>2, WorkerKeeps, MapShrinks, Zenon
    <3>3. ASSUME NEW j \in Jobs,
                 Call(j, "run") \/ Call(j, "try") \/ CallStep(j) \/ DeadlinePasses(j)
          PROVE  BudgetInv'
      BY <2>0, <3>3, CallKeepsPool, MapShrinks, Zenon
    <3>4. QED
      BY <2>0, <3>1, <3>2, <3>3, SpawnBudgetInv, SupBudgetInv, OwnerBudgetInv, Zenon DEF Next
  <2>2. QED  BY <2>0, <2>1, NextThreadInv, NextDropInv, Zenon DEF HandleInv
<1>2. QED  BY <1>1, InitHandleInv, AlwaysTypeInv, PTL DEF Spec

\* Handles of no thread but the ones in the map and the one being started.
LEMMA WithinBudget ==
    ASSUME TypeInv, BudgetInv, NEW S,
           S \subseteq map \cup (IF spc = "idle" THEN {} ELSE {sid})
    PROVE  Cardinality(S) <= WorkerCount
<1>1. /\ map \in SUBSET WorkerIds /\ missing \in Nat /\ WorkerCount \in Nat
      /\ spc # "idle" => sid \in WorkerIds /\ missing > 0
  BY WorkerCountPositive DEF TypeInv, StateOK, SpawnInv
<1>2. S \in SUBSET WorkerIds
  BY <1>1
<1>3. Cardinality(S) \in Nat
  BY <1>2, WorkerSetsFinite, Zenon
<1>4. CASE spc = "idle"
  <2>1. IsFiniteSet(map) /\ Cardinality(map) \in Nat
    BY <1>1, WorkerSetsFinite, Zenon
  <2>2. Cardinality(S) <= Cardinality(map)
    BY <1>4, <2>1, FS_Subset, Zenon
  <2>3. QED  BY <1>1, <1>3, <1>4, <2>1, <2>2 DEF BudgetInv
<1>5. CASE spc # "idle"
  <2>1. map \ {sid} \in SUBSET WorkerIds /\ S \subseteq (map \ {sid}) \cup {sid}
    BY <1>1, <1>5, Zenon
  <2>2. IsFiniteSet(map \ {sid}) /\ Cardinality(map \ {sid}) \in Nat
    BY <2>1, WorkerSetsFinite, Zenon
  <2>3. /\ IsFiniteSet((map \ {sid}) \cup {sid})
        /\ Cardinality((map \ {sid}) \cup {sid}) = Cardinality(map \ {sid}) + 1
    BY <2>2, FS_AddElement, Zenon
  <2>4. Cardinality(S) <= Cardinality((map \ {sid}) \cup {sid})
    BY <2>1, <2>3, FS_Subset, Zenon
  <2>5. QED  BY <1>1, <1>3, <1>5, <2>2, <2>3, <2>4 DEF BudgetInv
<1>6. QED  BY <1>4, <1>5

\* No thread of the pool is ever detached while it runs, however callers that
\* reap, the supervisor and a failed spawn_worker take handles out of the map
\* (reap_finished_workers, remove_worker_handle, the exit-event arm).
THEOREM NoThreadDetached == Spec => []HandlesAccountedFor
<1>1. HandleInv => HandlesAccountedFor
  BY DEF HandleInv, ThreadInv
<1>2. QED  BY <1>1, AlwaysHandleInv, PTL

\* The pool never has more than desired_worker_count workers, in threads or in
\* handles, although reconcile_workers counts once and then spawns in a loop
\* while others remove handles.
THEOREM WorkersBounded == Spec => []BoundedWorkers
<1>1. TypeInv /\ HandleInv => BoundedWorkers
  <2> SUFFICES ASSUME TypeInv, HandleInv PROVE BoundedWorkers
    OBVIOUS
  <2>1. BudgetInv /\ ThreadInv /\ joining \in SUBSET WorkerIds
    BY DEF HandleInv, TypeInv, StateOK
  <2>2. ASSUME NEW w \in Serving
        PROVE  w \in map \cup (IF spc = "idle" THEN {} ELSE {sid})
    <3>1. /\ w \in WorkerIds
          /\ wpc[w] \in {"starting", "idle", "taken", "run", "tail", "panicked"}
      BY <2>2 DEF Serving
    <3>2. w \notin joining
      BY <2>1, <3>1 DEF ThreadInv, LeftInv, EndStates
    <3>3. QED  BY <2>1, <3>1, <3>2 DEF ThreadInv, HandlesAccountedFor
  <2>3. Cardinality(Serving) <= WorkerCount
    BY <2>1, <2>2, WithinBudget, Zenon
  <2>4. Cardinality(map) <= WorkerCount
    BY <2>1, WithinBudget, Zenon
  <2>5. QED  BY <2>3, <2>4 DEF BoundedWorkers
<1>2. QED  BY <1>1, AlwaysHandleInv, PTL

\* When drop returns, every thread of the pool has ended and nothing is left
\* in the queue, for a pool in use and for a construction that failed half way
\* (drop_impl.rs, constructor.rs).
THEOREM DropLeavesNothing == Spec => []CleanTeardown
<1>1. TypeInv /\ HandleInv => CleanTeardown
  <2> SUFFICES ASSUME TypeInv, HandleInv, owner = "gone"
               PROVE  /\ \A w \in WorkerIds : wpc[w] \in {"none", "finished"}
                      /\ sup \in {"none", "done"}
                      /\ queue = <<>>
    BY DEF CleanTeardown
  <2>1. map = {} /\ sup \in {"none", "done"} /\ queue = <<>>
    BY DEF HandleInv, DropInv
  <2>2. joining = {} /\ spc = "idle"
    BY <2>1 DEF HandleInv, ThreadInv, LeftInv, TypeInv, SpawnInv
  <2>3. QED  BY <2>1, <2>2 DEF HandleInv, ThreadInv, HandlesAccountedFor
<1>2. QED  BY <1>1, AlwaysHandleInv, PTL
=============================================================================
