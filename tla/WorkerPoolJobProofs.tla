------------------------ MODULE WorkerPoolJobProofs ------------------------
(***************************************************************************)
(* What happens to the job of a call: the inductive invariant JobInv (a    *)
(* job is in one place at a time, and what has happened to it fits where   *)
(* it is), and that spawning, the supervisor, the constructor, the         *)
(* teardown, the worker threads and the calls keep it.  The theorems that  *)
(* follow from it are at the end.                                          *)
(***************************************************************************)
EXTENDS WorkerPoolProofs

\* The jobs in the channel.
Queued == {j \in Jobs : InQueue(j)}

\* Control states of a call before its job is queued, and of a worker that
\* holds a job.
BeforeQueue == {"start", "blocked", "reap", "remove", "count", "deadline",
                "precheck", "enqueue"}
HoldStates == {"taken", "run", "tail", "panicked"}

\* A job is in one place: once in the queue, or with one worker.
QueuedOnce == \A i, k \in DOMAIN queue : queue[i] = queue[k] => i = k
IdsFresh == \A w \in WorkerIds : nextId <= w => wpc[w] = "none"
HoldersWork == \A w \in WorkerIds : wjob[w] # {} => wpc[w] \in HoldStates
HeldOnce == \A j \in Jobs : \A w, x \in WorkerIds :
                j \in wjob[w] /\ j \in wjob[x] => w = x
QueuedNotHeld == \A j \in Queued : \A w \in WorkerIds : j \notin wjob[w]
PlaceInv ==
    QueuedOnce /\ IdsFresh /\ HoldersWork /\ HeldOnce /\ QueuedNotHeld

\* Nothing has happened to a job that is not queued yet; a queued or taken
\* one has not started, and nobody has answered for one that has not settled.
NotQueuedYet ==
    \A j \in Jobs : cpc[j] \in BeforeQueue =>
        /\ j \notin Queued
        /\ \A w \in WorkerIds : j \notin wjob[w]
        /\ runs[j] = 0 /\ settled[j] = "none" /\ reply[j] = {}
Unanswered(j) ==
    settled[j] = "none" /\ reply[j] = {} /\ result[j] \notin ReplyValues
QueuedUntouched == \A j \in Queued : runs[j] = 0 /\ Unanswered(j)
TakenUntouched ==
    \A w \in WorkerIds : \A j \in wjob[w] :
        /\ wpc[w] = "taken" => runs[j] = 0
        /\ wpc[w] \in {"taken", "run"} => Unanswered(j)
ResultIsFinal == \A j \in Jobs : result[j] # "none" => cpc[j] = "returned"
Refused == {"queue_full", "queue_timeout", "runtime_pool"}
RefusedNowhere ==
    \A j \in Jobs : result[j] \in Refused =>
        /\ j \notin Queued
        /\ \A w \in WorkerIds : j \notin wjob[w]
        /\ runs[j] = 0
FirstReplyKept ==
    \A j \in Jobs :
        /\ settled[j] # "none" /\ cpc[j] # "returned" => reply[j] = {settled[j]}
        /\ "ok" \in reply[j] => settled[j] = "ok"

ProgressInv ==
    /\ NotQueuedYet /\ QueuedUntouched /\ TakenUntouched
    /\ ResultIsFinal /\ RefusedNowhere /\ FirstReplyKept
    /\ AtMostOnce /\ MainReplyWins

\* A call that has returned while its job waits has canceled it.
GivenUpIsCanceled ==
    \A j \in Jobs : cpc[j] = "returned" =>
        /\ j \in Queued => canceled[j]
        /\ \A w \in WorkerIds : j \in wjob[w] /\ wpc[w] = "taken" => canceled[j]

JobInv == PlaceInv /\ ProgressInv /\ GivenUpIsCanceled

\* The groups of variables that actions leave alone.
USE DEF poolVars, guardVars, spawnVars, supVars, workerVars, callVars, CallKeeps,
        HoldStates

(***************************************************************************)
(* The queue as a set.                                                     *)
(***************************************************************************)

\* The channel is left alone.
LEMMA QueueKept ==
    ASSUME UNCHANGED queue
    PROVE  Queued' = Queued /\ (QueuedOnce => QueuedOnce')
BY DEF Queued, InQueue, QueuedOnce

\* Receiving takes the head out, and it was there only once.
LEMMA Dequeue ==
    ASSUME queue \in Seq(Jobs), QueuedOnce, queue # <<>>, queue' = Tail(queue)
    PROVE  /\ Head(queue) \in Queued
           /\ Queued' = Queued \ {Head(queue)}
           /\ QueuedOnce'
<1> DEFINE n == Len(queue)
<1>1. n \in Nat /\ n > 0 /\ DOMAIN queue = 1..n
  OBVIOUS
<1>2. /\ Head(queue) = queue[1] /\ Head(queue) \in Jobs
      /\ queue' \in Seq(Jobs) /\ Len(queue') = n - 1
      /\ \A i \in 1..(n - 1) : queue'[i] = queue[i + 1]
  OBVIOUS
<1>3. DOMAIN queue' = 1..(n - 1)
  BY <1>2
<1> HIDE DEF n
<1>4. Head(queue) \in Queued
  BY <1>1, <1>2 DEF Queued, InQueue
<1>5. QueuedOnce'
  <2> SUFFICES ASSUME NEW i \in 1..(n - 1), NEW k \in 1..(n - 1),
                      queue'[i] = queue'[k]
               PROVE  i = k
    BY <1>3 DEF QueuedOnce
  <2>1. i + 1 \in 1..n /\ k + 1 \in 1..n
    BY <1>1
  <2>2. queue[i + 1] = queue[k + 1]
    BY <1>2
  <2>3. i + 1 = k + 1
    BY <1>1, <2>1, <2>2 DEF QueuedOnce
  <2>4. QED  BY <1>1, <2>3
<1>6. ASSUME NEW j \in Jobs
      PROVE  InQueue(j)' <=> InQueue(j) /\ j # Head(queue)
  <2>1. ASSUME InQueue(j)' PROVE InQueue(j) /\ j # Head(queue)
    <3>1. PICK i \in 1..(n - 1) : queue'[i] = j
      BY <1>3, <2>1, Zenon DEF InQueue
    <3>2. i + 1 \in 1..n /\ 1 \in 1..n /\ i + 1 # 1
      BY <1>1
    <3>3. queue[i + 1] = j
      BY <1>2, <3>1
    <3>4. QED  BY <1>1, <1>2, <3>2, <3>3, Zenon DEF InQueue, QueuedOnce
  <2>2. ASSUME InQueue(j), j # Head(queue) PROVE InQueue(j)'
    <3>1. PICK i \in 1..n : queue[i] = j
      BY <1>1, <2>2 DEF InQueue
    <3>2. i # 1
      BY <1>2, <2>2, <3>1, Zenon
    <3>3. i - 1 \in 1..(n - 1) /\ (i - 1) + 1 = i
      BY <1>1, <3>2, SMTT(30)
    <3>4. queue'[i - 1] = j
      BY <1>2, <3>1, <3>3, Zenon
    <3>5. QED  BY <1>3, <3>3, <3>4, Zenon DEF InQueue
  <2>3. QED  BY <2>1, <2>2
<1>7. Queued' = Queued \ {Head(queue)}
  BY <1>6 DEF Queued
<1>8. QED  BY <1>4, <1>5, <1>7

\* Sending appends a job that was not there.
LEMMA EnqueueLast ==
    ASSUME queue \in Seq(Jobs), QueuedOnce, NEW j \in Jobs, j \notin Queued,
           queue' = Append(queue, j)
    PROVE  Queued' = Queued \cup {j} /\ QueuedOnce'
<1> DEFINE n == Len(queue)
<1>1. n \in Nat /\ DOMAIN queue = 1..n
  OBVIOUS
<1>2. /\ queue' \in Seq(Jobs) /\ Len(queue') = n + 1
      /\ \A i \in 1..n : queue'[i] = queue[i]
      /\ queue'[n + 1] = j
  OBVIOUS
<1>3. DOMAIN queue' = 1..(n + 1)
  BY <1>2
<1> HIDE DEF n
<1>4. \A i \in 1..(n + 1) : i \in 1..n \/ i = n + 1
  BY <1>1
<1>5. n + 1 \in 1..(n + 1) /\ \A i \in 1..n : i \in 1..(n + 1)
  BY <1>1
<1>6. \A i \in 1..n : queue[i] # j
  BY <1>1 DEF Queued, InQueue
<1>7. QueuedOnce'
  BY <1>1, <1>2, <1>3, <1>4, <1>6, SMTT(30) DEF QueuedOnce
<1>8. ASSUME NEW k \in Jobs PROVE InQueue(k)' <=> InQueue(k) \/ k = j
  BY <1>1, <1>2, <1>3, <1>4, <1>5, ZenonT(30) DEF InQueue
<1>9. QED  BY <1>7, <1>8 DEF Queued

(***************************************************************************)
(* The invariant is inductive.                                             *)
(***************************************************************************)

\* The parts of a job's state, one equation each.
CallsKept == cpc' = cpc /\ canceled' = canceled /\ reply' = reply /\ result' = result
RunsKept == runs' = runs /\ settled' = settled
JobsKept == queue' = queue /\ wjob' = wjob /\ RunsKept /\ CallsKept
USE DEF CallsKept, RunsKept, JobsKept

\* No call has been made when new() starts.
LEMMA InitJobInv == Init => JobInv
<1> SUFFICES ASSUME Init PROVE JobInv
  OBVIOUS
<1>1. Queued = {}
  BY DEF Init, Queued, InQueue
<1>2. PlaceInv
  BY <1>1 DEF Init, PlaceInv, QueuedOnce, IdsFresh, HoldersWork, HeldOnce,
              QueuedNotHeld
<1>3. ProgressInv
  BY <1>1 DEF Init, ProgressInv, NotQueuedYet, QueuedUntouched, TakenUntouched,
              ResultIsFinal, RefusedNowhere, Refused, FirstReplyKept, AtMostOnce,
              MainReplyWins, ReplyValues
<1>4. GivenUpIsCanceled
  BY DEF Init, GivenUpIsCanceled
<1>5. QED  BY <1>2, <1>3, <1>4, Zenon DEF JobInv

\* A step that touches neither jobs nor calls.
LEMMA QuietStep ==
    ASSUME TypeInv, JobInv, JobsKept /\ wpc' = wpc, nextId' \in {nextId, nextId + 1}
    PROVE  JobInv'
<1>1. Queued' = Queued /\ QueuedOnce'
  BY QueueKept DEF JobInv, PlaceInv
<1>2. nextId \in Nat /\ nextId' \in Nat /\ nextId <= nextId'
  BY BoundsNat DEF TypeInv, StateOK
<1>3. IdsFresh'
  BY <1>2 DEF JobInv, PlaceInv, IdsFresh, WorkerIds
<1>4. (HoldersWork /\ HeldOnce /\ QueuedNotHeld)'
  BY <1>1, Zenon DEF JobInv, PlaceInv, HoldersWork, HeldOnce, QueuedNotHeld
<1>5. ProgressInv'
  BY <1>1 DEF JobInv, ProgressInv, NotQueuedYet, QueuedUntouched,
              TakenUntouched, Unanswered, ResultIsFinal, RefusedNowhere,
              FirstReplyKept, AtMostOnce, MainReplyWins
<1>6. GivenUpIsCanceled'
  BY <1>1 DEF JobInv, GivenUpIsCanceled
<1>7. QED  BY <1>1, <1>3, <1>4, <1>5, <1>6, ZenonT(30) DEF JobInv, PlaceInv

\* spawn_worker touches no job: its thread is new.
LEMMA SpawnJobInv ==
    TypeInv /\ JobInv /\ (SpawnStep \/ SpawnThreadFails) => JobInv'
<1> SUFFICES ASSUME TypeInv, JobInv, SpawnStep \/ SpawnThreadFails PROVE JobInv'
  OBVIOUS
<1>1. CASE SpawnThread
  <2>1. /\ nextId \in WorkerIds /\ wpc \in [WorkerIds -> WorkerStates]
        /\ nextId' = nextId + 1 /\ nextId \in Nat
        /\ wpc' = [wpc EXCEPT ![nextId] = "starting"]
        /\ JobsKept
    <3>1. nextId < MaxSpawns /\ nextId' = nextId + 1
      BY <1>1, Zenon DEF SpawnThread
    <3>2. /\ wpc' = [wpc EXCEPT ![nextId] = "starting"]
          /\ JobsKept
      BY <1>1, Zenon DEF SpawnThread
    <3>3. QED  BY <3>1, <3>2, BoundsNat, SMTT(30) DEF TypeInv, StateOK, WorkerIds
  <2>2. Queued' = Queued /\ QueuedOnce'
    BY <2>1, QueueKept DEF JobInv, PlaceInv
  <2>3. wpc[nextId] = "none" /\ wjob[nextId] = {}
    BY <2>1 DEF JobInv, PlaceInv, IdsFresh, HoldersWork
  <2>4. IdsFresh'
    <3>1. \A w \in WorkerIds : nextId + 1 <= w => nextId <= w /\ w # nextId
      BY <2>1, BoundsNat, SMTT(30) DEF WorkerIds
    <3>2. QED  BY <2>1, <3>1 DEF JobInv, PlaceInv, IdsFresh
  <2>5. (HoldersWork /\ HeldOnce /\ QueuedNotHeld)'
    BY <2>1, <2>2, <2>3, ZenonT(30) DEF JobInv, PlaceInv, HoldersWork, HeldOnce, QueuedNotHeld
  <2>6. ProgressInv'
    BY <2>1, <2>2, <2>3, SMTT(30) DEF JobInv, ProgressInv, NotQueuedYet, QueuedUntouched,
                            TakenUntouched, Unanswered, ResultIsFinal,
                            RefusedNowhere, FirstReplyKept, AtMostOnce,
                            MainReplyWins
  <2>7. GivenUpIsCanceled'
    BY <2>1, <2>2, <2>3, Zenon DEF JobInv, GivenUpIsCanceled
  <2>8. QED  BY <2>2, <2>4, <2>5, <2>6, <2>7, ZenonT(30) DEF JobInv, PlaceInv
<1>2. CASE SpawnInsert \/ SpawnReady \/ SpawnNotReady \/ SpawnJoin \/ SpawnThreadFails
  <2>1. JobsKept /\ wpc' = wpc /\ nextId' \in {nextId, nextId + 1}
    BY <1>2, Zenon DEF SpawnInsert, SpawnReady, SpawnNotReady, SpawnJoin,
                       SpawnThreadFails
  <2>2. QED  BY <2>1, QuietStep
<1>3. QED  BY <1>1, <1>2 DEF SpawnStep

\* The supervisor touches no job.
LEMMA SupJobInv == TypeInv /\ JobInv /\ (SupStep \/ WindowElapses) => JobInv'
<1> SUFFICES ASSUME TypeInv, JobInv, SupStep \/ WindowElapses PROVE JobInv'
  OBVIOUS
<1>1. JobsKept /\ wpc' = wpc /\ nextId' = nextId
  BY ZenonT(30) DEF SupStep, SupShutdown, SupExitEvent, SupJoin, SupTick, SupCheckClosed,
               ReconcileCheckClosed, ReconcileReap, ReconcileRemove,
               ReconcileCount, ReconcileAttempt, ReconcileDone, WindowElapses
<1>2. nextId' \in {nextId, nextId + 1}
  BY <1>1, Zenon
<1>3. QED  BY <1>1, <1>2, QuietStep, Zenon

\* new() and drop() touch no job, except that drop answers the queued ones.
LEMMA OwnerJobInv ==
    ASSUME TypeInv, JobInv,
           BuildSupervisor \/ BuildSupervisorFails \/ BeginDrop \/ TeardownStep
    PROVE  JobInv'
<1>1. CASE DrainJob
  <2> DEFINE j == Head(queue)
  <2>1. /\ queue # <<>> /\ queue' = Tail(queue) /\ SendReply(j, "canceled")
        /\ wpc' = wpc /\ wjob' = wjob /\ RunsKept /\ nextId' = nextId
        /\ cpc' = cpc /\ canceled' = canceled /\ result' = result
    BY <1>1, Zenon DEF DrainJob
  <2>2. /\ queue \in Seq(Jobs) /\ reply \in [Jobs -> SUBSET ReplyValues]
        /\ wjob \in [WorkerIds -> SUBSET Jobs]
    BY DEF TypeInv, StateOK
  <2>3. j \in Queued /\ Queued' = Queued \ {j} /\ QueuedOnce' /\ j \in Jobs
    BY <2>1, <2>2, Dequeue, ZenonT(30) DEF JobInv, PlaceInv, Queued
  <2>4. /\ reply' = reply \/ reply' = [reply EXCEPT ![j] = {"canceled"}]
    BY <2>1 DEF SendReply
  <2> HIDE DEF j
  <2>5. (IdsFresh /\ HoldersWork /\ HeldOnce /\ QueuedNotHeld)'
    BY <2>1, <2>3 DEF JobInv, PlaceInv, IdsFresh, HoldersWork, HeldOnce,
                      QueuedNotHeld
  <2>6. (NotQueuedYet /\ QueuedUntouched /\ TakenUntouched)'
    <3>1. \A k \in Jobs : k # j => reply'[k] = reply[k]
      BY <2>2, <2>4, Zenon
    <3>2. cpc[j] \notin BeforeQueue /\ \A w \in WorkerIds : j \notin wjob[w]
      BY <2>3, Zenon DEF JobInv, PlaceInv, QueuedNotHeld, ProgressInv, NotQueuedYet
    <3>3. NotQueuedYet'
      BY <2>1, <2>3, <3>1, <3>2, ZenonT(30) DEF JobInv, ProgressInv, NotQueuedYet
    <3>4. QueuedUntouched'
      BY <2>1, <2>3, <3>1, Zenon DEF JobInv, ProgressInv, QueuedUntouched, Unanswered,
                              Queued
    <3>5. TakenUntouched'
      BY <2>1, <2>2, <3>1, <3>2, ZenonT(30) DEF JobInv, ProgressInv, TakenUntouched, Unanswered
    <3>6. QED  BY <3>3, <3>4, <3>5, ZenonT(30)
  <2>7. (ResultIsFinal /\ RefusedNowhere /\ AtMostOnce /\ MainReplyWins)'
    BY <2>1, <2>3, Zenon DEF JobInv, ProgressInv, ResultIsFinal, RefusedNowhere,
                      AtMostOnce, MainReplyWins
  <2>8. FirstReplyKept'
    BY <2>1, <2>2, <2>3, <2>4, SMTT(30) DEF JobInv, ProgressInv, QueuedUntouched,
                                  Unanswered, FirstReplyKept
  <2>9. GivenUpIsCanceled'
    BY <2>1, <2>3, Zenon DEF JobInv, GivenUpIsCanceled
  <2>10. QED  BY <2>3, <2>5, <2>6, <2>7, <2>8, <2>9, ZenonT(30) DEF JobInv, PlaceInv, ProgressInv
<1>2. CASE \/ BuildSupervisor \/ BuildSupervisorFails \/ BeginDrop \/ MarkClosed
           \/ SignalWorkers \/ SignalSupervisor \/ JoinSupervisor \/ JoinWorkers
  <2>1. JobsKept /\ wpc' = wpc /\ nextId' = nextId
    BY <1>2, Zenon DEF BuildSupervisor, BuildSupervisorFails, BeginDrop, MarkClosed,
                       SignalWorkers, SignalSupervisor, JoinSupervisor,
                       JoinWorkers
  <2>2. nextId' \in {nextId, nextId + 1}
    BY <2>1, Zenon
  <2>3. QED  BY <2>1, <2>2, QuietStep, ZenonT(30)
<1>3. QED  BY <1>1, <1>2, Zenon DEF TeardownStep

(***************************************************************************)
(* Workers.                                                                *)
(***************************************************************************)

\* A worker without a job changes its control state.
LEMMA WorkerMoves ==
    ASSUME TypeInv, JobInv, NEW w \in WorkerIds, NEW x,
           wpc[w] \notin HoldStates, wpc[w] # "none",
           wpc' = [wpc EXCEPT ![w] = x], JobsKept, nextId' = nextId
    PROVE  JobInv'
<1>1. Queued' = Queued /\ QueuedOnce'
  BY QueueKept DEF JobInv, PlaceInv
<1>2. wjob[w] = {} /\ wpc \in [WorkerIds -> WorkerStates]
  BY DEF JobInv, PlaceInv, HoldersWork, TypeInv, StateOK
<1>3. (IdsFresh /\ HoldersWork /\ HeldOnce /\ QueuedNotHeld)'
  BY <1>1, <1>2, Zenon DEF JobInv, PlaceInv, IdsFresh, HoldersWork, HeldOnce,
                    QueuedNotHeld
<1>4. ProgressInv'
  BY <1>1, <1>2 DEF JobInv, ProgressInv, NotQueuedYet, QueuedUntouched,
                    TakenUntouched, Unanswered, ResultIsFinal, RefusedNowhere,
                    FirstReplyKept, AtMostOnce, MainReplyWins
<1>5. GivenUpIsCanceled'
  BY <1>1, <1>2, ZenonT(30) DEF JobInv, GivenUpIsCanceled
<1>6. QED  BY <1>1, <1>3, <1>4, <1>5, ZenonT(30) DEF JobInv, PlaceInv

\* What a send on the reply channel of j does: nothing once the call has
\* returned, otherwise it fills an empty channel.
LEMMA SendReplyEffect ==
    ASSUME TypeInv, NEW j \in Jobs, NEW v, SendReply(j, v)
    PROVE  /\ \A k \in Jobs : k # j => reply'[k] = reply[k]
           /\ cpc[j] = "returned" => reply'[j] = reply[j]
           /\ cpc[j] # "returned" => reply[j] = {} /\ reply'[j] = {v}
BY DEF TypeInv, StateOK, SendReply, Receiving

\* A worker lets go of its job, with or without answering for it.
Releases(w, x, j, v) ==
    /\ wpc[w] \in HoldStates /\ wpc' = [wpc EXCEPT ![w] = x]
    /\ wjob' = [wjob EXCEPT ![w] = {}]
    /\ queue' = queue /\ RunsKept /\ nextId' = nextId
    /\ cpc' = cpc /\ canceled' = canceled /\ result' = result
    /\ reply' = reply \/ (j \in wjob[w] /\ SendReply(j, v))

\* Whatever a worker answers on letting go, it does not overrule the main
\* export.
LEMMA Release ==
    ASSUME TypeInv, JobInv, NEW w \in WorkerIds, NEW x \in {"idle", "lost", "exit"},
           NEW j, NEW v \in {"failed", "panic", "canceled"}, Releases(w, x, j, v)
    PROVE  JobInv'
<1> USE DEF Releases
<1>1. Queued' = Queued /\ QueuedOnce'
  BY QueueKept DEF JobInv, PlaceInv
<1>2. /\ wpc \in [WorkerIds -> WorkerStates] /\ wjob \in [WorkerIds -> SUBSET Jobs]
      /\ wjob' [w] = {} /\ wpc'[w] = x
      /\ \A y \in WorkerIds : y # w => wjob'[y] = wjob[y] /\ wpc'[y] = wpc[y]
  BY DEF TypeInv, StateOK
<1>3. (IdsFresh /\ HoldersWork /\ HeldOnce /\ QueuedNotHeld)'
  BY <1>1, <1>2, Zenon DEF JobInv, PlaceInv, IdsFresh, HoldersWork, HeldOnce,
                    QueuedNotHeld
<1>4. GivenUpIsCanceled'
  BY <1>1, <1>2, Zenon DEF JobInv, GivenUpIsCanceled
<1>5. (ResultIsFinal /\ RefusedNowhere /\ AtMostOnce /\ MainReplyWins)'
  BY <1>1, <1>2, Zenon DEF JobInv, ProgressInv, ResultIsFinal, RefusedNowhere,
                    AtMostOnce, MainReplyWins
<1>6. \A k \in Jobs : reply'[k] = reply[k] \/ (k = j /\ k \in wjob[w])
  BY <1>2, SendReplyEffect
<1>7. (NotQueuedYet /\ QueuedUntouched /\ TakenUntouched)'
  <2>1. NotQueuedYet'
    BY <1>1, <1>2, <1>6, Zenon DEF JobInv, ProgressInv, NotQueuedYet
  <2>2. QueuedUntouched'
    BY <1>1, <1>6, Zenon DEF JobInv, PlaceInv, QueuedNotHeld, ProgressInv,
                      QueuedUntouched, Unanswered, Queued
  <2>3. ASSUME NEW y \in WorkerIds, NEW k \in wjob'[y]
        PROVE  y # w /\ k \in wjob[y] /\ k \in Jobs /\ reply'[k] = reply[k]
    <3>1. y # w /\ k \in wjob[y] /\ k \in Jobs
      BY <1>2
    <3>2. k \notin wjob[w]
      BY <3>1 DEF JobInv, PlaceInv, HeldOnce
    <3>3. QED  BY <1>6, <3>1, <3>2, Zenon
  <2>4. TakenUntouched'
    BY <1>2, <2>3, SMTT(30) DEF JobInv, ProgressInv, TakenUntouched, Unanswered
  <2>5. QED  BY <2>1, <2>2, <2>4, Zenon
<1>8. FirstReplyKept'
  <2>1. CASE reply' = reply
    BY <2>1, Zenon DEF JobInv, ProgressInv, FirstReplyKept
  <2>2. CASE j \in wjob[w] /\ SendReply(j, v)
    <3>1. j \in Jobs
      BY <1>2, <2>2, Zenon
    <3>2. /\ \A k \in Jobs : k # j => reply'[k] = reply[k]
          /\ cpc[j] = "returned" => reply'[j] = reply[j]
          /\ cpc[j] # "returned" => reply[j] = {} /\ reply'[j] = {v}
      BY <2>2, <3>1, SendReplyEffect, Zenon
    <3>3. cpc[j] # "returned" => settled[j] = "none"
      BY <3>1, <3>2, Zenon DEF JobInv, ProgressInv, FirstReplyKept
    <3>4. QED  BY <3>1, <3>2, <3>3, Zenon DEF JobInv, ProgressInv, FirstReplyKept
  <2>3. QED  BY <2>1, <2>2, Zenon
<1>9. QED
  BY <1>1, <1>3, <1>4, <1>5, <1>7, <1>8, ZenonT(30) DEF JobInv, PlaceInv, ProgressInv

\* TakeJob moves the head of the queue into one worker's hands.
LEMMA TakeJobInv ==
    ASSUME TypeInv, JobInv, NEW w \in WorkerIds, TakeJob(w)
    PROVE  JobInv'
<1> DEFINE j == Head(queue)
<1>1. /\ wpc[w] = "idle" /\ queue # <<>> /\ queue' = Tail(queue)
      /\ wjob' = [wjob EXCEPT ![w] = {j}] /\ wpc' = [wpc EXCEPT ![w] = "taken"]
      /\ RunsKept /\ CallsKept /\ nextId' = nextId
  BY Zenon DEF TakeJob
<1>2. /\ wpc \in [WorkerIds -> WorkerStates] /\ wjob \in [WorkerIds -> SUBSET Jobs]
      /\ wjob'[w] = {j} /\ wpc'[w] = "taken"
      /\ \A y \in WorkerIds : y # w => wjob'[y] = wjob[y] /\ wpc'[y] = wpc[y]
  BY <1>1 DEF TypeInv, StateOK
<1>3. j \in Jobs /\ j \in Queued /\ Queued' = Queued \ {j} /\ QueuedOnce'
  <2>1. queue \in Seq(Jobs) /\ QueuedOnce
    BY DEF TypeInv, StateOK, JobInv, PlaceInv
  <2>2. QED  BY <1>1, <2>1, Dequeue, Zenon DEF Queued
<1> HIDE DEF j
<1>4. \A y \in WorkerIds : j \notin wjob[y]
  BY <1>3 DEF JobInv, PlaceInv, QueuedNotHeld
<1>5. (IdsFresh /\ HoldersWork /\ HeldOnce /\ QueuedNotHeld)'
  BY <1>1, <1>2, <1>3, <1>4, ZenonT(30) DEF JobInv, PlaceInv, IdsFresh, HoldersWork,
                                HeldOnce, QueuedNotHeld
<1>6. GivenUpIsCanceled'
  BY <1>1, <1>2, <1>3, Zenon DEF JobInv, GivenUpIsCanceled
<1>7. (ResultIsFinal /\ FirstReplyKept /\ AtMostOnce /\ MainReplyWins)'
  BY <1>1 DEF JobInv, ProgressInv, ResultIsFinal, FirstReplyKept, AtMostOnce,
              MainReplyWins
<1>8. RefusedNowhere'
  BY <1>1, <1>2, <1>3, ZenonT(30) DEF JobInv, ProgressInv, RefusedNowhere
<1>9. (NotQueuedYet /\ QueuedUntouched /\ TakenUntouched)'
  BY <1>1, <1>2, <1>3, SMTT(30) DEF JobInv, ProgressInv, NotQueuedYet, QueuedUntouched,
                          TakenUntouched, Unanswered
<1>10. QED
  BY <1>3, <1>5, <1>6, <1>7, <1>8, <1>9, ZenonT(30) DEF JobInv, PlaceInv, ProgressInv

\* StartJob: the only step that runs a job's source.
LEMMA StartJobInv ==
    ASSUME TypeInv, JobInv, NEW w \in WorkerIds, StartJob(w)
    PROVE  JobInv'
<1>1. PICK j \in wjob[w] : ~canceled[j] /\ runs' = [runs EXCEPT ![j] = @ + 1]
  BY Zenon DEF StartJob
<1>2. /\ wpc[w] = "taken" /\ wpc' = [wpc EXCEPT ![w] = "run"]
      /\ wjob' = wjob /\ queue' = queue /\ settled' = settled /\ CallsKept
      /\ nextId' = nextId
  BY Zenon DEF StartJob
<1>3. /\ j \in Jobs /\ runs \in [Jobs -> Nat]
      /\ wpc \in [WorkerIds -> WorkerStates] /\ wjob \in [WorkerIds -> SUBSET Jobs]
      /\ wpc'[w] = "run" /\ \A y \in WorkerIds : y # w => wpc'[y] = wpc[y]
  BY <1>1, <1>2, Zenon DEF TypeInv, StateOK
<1>4. Queued' = Queued /\ QueuedOnce'
  BY <1>2, QueueKept, Zenon DEF JobInv, PlaceInv
<1>5. /\ j \notin Queued /\ \A y \in WorkerIds : j \in wjob[y] => y = w
  BY <1>1, <1>3 DEF JobInv, PlaceInv, QueuedNotHeld, HeldOnce
<1>6. runs[j] = 0 /\ runs'[j] = 1 /\ \A k \in Jobs : k # j => runs'[k] = runs[k]
  <2>1. runs[j] = 0
    BY <1>1, <1>2, Zenon DEF JobInv, ProgressInv, TakenUntouched
  <2>2. QED  BY <1>1, <1>3, <2>1, SMTT(30)
<1>7. (IdsFresh /\ HoldersWork /\ HeldOnce /\ QueuedNotHeld)'
  BY <1>2, <1>3, <1>4, Zenon DEF JobInv, PlaceInv, IdsFresh, HoldersWork, HeldOnce,
                          QueuedNotHeld
<1>8. GivenUpIsCanceled'
  BY <1>2, <1>3, <1>4, ZenonT(30) DEF JobInv, GivenUpIsCanceled
<1>9. (ResultIsFinal /\ FirstReplyKept /\ MainReplyWins)'
  BY <1>2 DEF JobInv, ProgressInv, ResultIsFinal, FirstReplyKept, MainReplyWins
<1>10. AtMostOnce'
  BY <1>6, SMTT(30) DEF JobInv, ProgressInv, AtMostOnce
<1>11. (RefusedNowhere /\ NotQueuedYet)'
  BY <1>1, <1>2, <1>4, <1>6, Zenon DEF JobInv, ProgressInv, RefusedNowhere, NotQueuedYet
<1>12. QueuedUntouched'
  BY <1>2, <1>4, <1>5, <1>6, ZenonT(30) DEF JobInv, ProgressInv, QueuedUntouched, Unanswered,
                                Queued
<1>13. TakenUntouched'
  BY <1>2, <1>3, <1>5, <1>6, SMTT(30) DEF JobInv, ProgressInv, TakenUntouched, Unanswered
<1>14. QED
  BY <1>4, <1>7, <1>8, <1>9, <1>10, <1>11, <1>12, <1>13, ZenonT(30)
  DEF JobInv, PlaceInv, ProgressInv

\* MainReplies: the main export settles and answers first.
LEMMA MainRepliesInv ==
    ASSUME TypeInv, JobInv, NEW w \in WorkerIds, NEW v \in {"ok", "failed"},
           MainReplies(w, v)
    PROVE  JobInv'
<1>1. PICK j \in wjob[w] : SendReply(j, v) /\ settled' = [settled EXCEPT ![j] = v]
  BY Zenon DEF MainReplies
<1>2. /\ wpc[w] = "run" /\ wpc' = [wpc EXCEPT ![w] = "tail"]
      /\ wjob' = wjob /\ queue' = queue /\ runs' = runs /\ nextId' = nextId
      /\ cpc' = cpc /\ canceled' = canceled /\ result' = result
  BY Zenon DEF MainReplies
<1>3. /\ j \in Jobs /\ settled \in [Jobs -> {"none", "ok", "failed"}]
      /\ wpc \in [WorkerIds -> WorkerStates] /\ wjob \in [WorkerIds -> SUBSET Jobs]
      /\ wpc'[w] = "tail" /\ \A y \in WorkerIds : y # w => wpc'[y] = wpc[y]
  BY <1>1, <1>2, Zenon DEF TypeInv, StateOK
<1>4. Queued' = Queued /\ QueuedOnce'
  BY <1>2, QueueKept, Zenon DEF JobInv, PlaceInv
<1>5. j \notin Queued /\ \A y \in WorkerIds : j \in wjob[y] => y = w
  BY <1>1, <1>3, Zenon DEF JobInv, PlaceInv, QueuedNotHeld, HeldOnce
<1>6. /\ \A k \in Jobs : k # j => reply'[k] = reply[k] /\ settled'[k] = settled[k]
      /\ settled'[j] = v
      /\ cpc[j] = "returned" => reply'[j] = reply[j]
      /\ cpc[j] # "returned" => reply'[j] = {v}
  <2>1. /\ \A k \in Jobs : k # j => reply'[k] = reply[k]
        /\ cpc[j] = "returned" => reply'[j] = reply[j]
        /\ cpc[j] # "returned" => reply'[j] = {v}
    BY <1>1, <1>3, SendReplyEffect, Zenon
  <2>2. QED  BY <1>1, <1>3, <2>1, Zenon
<1>7. Unanswered(j)
  BY <1>1, <1>2, Zenon DEF JobInv, ProgressInv, TakenUntouched
<1>8. (IdsFresh /\ HoldersWork /\ HeldOnce /\ QueuedNotHeld)'
  BY <1>2, <1>3, <1>4, Zenon DEF JobInv, PlaceInv, IdsFresh, HoldersWork, HeldOnce,
                          QueuedNotHeld
<1>9. GivenUpIsCanceled'
  BY <1>2, <1>3, <1>4, Zenon DEF JobInv, GivenUpIsCanceled
<1>10. (ResultIsFinal /\ RefusedNowhere /\ AtMostOnce)'
  BY <1>2, <1>4, Zenon DEF JobInv, ProgressInv, ResultIsFinal, RefusedNowhere, AtMostOnce
<1>11. NotQueuedYet'
  BY <1>1, <1>2, <1>4, <1>6, Zenon DEF JobInv, ProgressInv, NotQueuedYet
<1>12. QueuedUntouched'
  BY <1>2, <1>4, <1>5, <1>6, ZenonT(30) DEF JobInv, ProgressInv, QueuedUntouched, Unanswered,
                                Queued
<1>13. TakenUntouched'
  BY <1>2, <1>3, <1>5, <1>6, SMTT(30) DEF JobInv, ProgressInv, TakenUntouched, Unanswered
<1>14. FirstReplyKept'
  BY <1>2, <1>6, <1>7, Zenon DEF JobInv, ProgressInv, FirstReplyKept, Unanswered
<1>15. MainReplyWins'
  BY <1>2, <1>6, <1>7, Zenon
  DEF JobInv, ProgressInv, MainReplyWins, Unanswered, ReplyValues
<1>16. QED
  BY <1>4, <1>8, <1>9, <1>10, <1>11, <1>12, <1>13, <1>14, <1>15, ZenonT(30)
  DEF JobInv, PlaceInv, ProgressInv

\* JobPanics: the unwinding worker still holds its job.
LEMMA JobPanicsInv ==
    ASSUME TypeInv, JobInv, NEW w \in WorkerIds, JobPanics(w)
    PROVE  JobInv'
<1>1. /\ wpc[w] \in {"run", "tail"} /\ wpc' = [wpc EXCEPT ![w] = "panicked"]
      /\ JobsKept /\ nextId' = nextId
  BY Zenon DEF JobPanics
<1>2. Queued' = Queued /\ QueuedOnce'
  BY <1>1, QueueKept, Zenon DEF JobInv, PlaceInv
<1>3. /\ wpc \in [WorkerIds -> WorkerStates] /\ wpc'[w] = "panicked"
      /\ \A y \in WorkerIds : y # w => wpc'[y] = wpc[y]
  BY <1>1, Zenon DEF TypeInv, StateOK
<1>4. (IdsFresh /\ HoldersWork /\ HeldOnce /\ QueuedNotHeld)'
  BY <1>1, <1>2, <1>3, Zenon DEF JobInv, PlaceInv, IdsFresh, HoldersWork, HeldOnce,
                          QueuedNotHeld
<1>5. ProgressInv'
  <2>1. (ResultIsFinal /\ FirstReplyKept /\ AtMostOnce /\ MainReplyWins)'
    BY <1>1, Zenon DEF JobInv, ProgressInv, ResultIsFinal, FirstReplyKept,
                          AtMostOnce, MainReplyWins
  <2>2. (RefusedNowhere /\ NotQueuedYet)'
    BY <1>1, <1>2, Zenon DEF JobInv, ProgressInv, RefusedNowhere, NotQueuedYet
  <2>3. QueuedUntouched'
    BY <1>1, <1>2, Zenon DEF JobInv, ProgressInv, QueuedUntouched, Unanswered
  <2>4. TakenUntouched'
    BY <1>1, <1>3, Zenon DEF JobInv, ProgressInv, TakenUntouched, Unanswered
  <2>5. QED  BY <2>1, <2>2, <2>3, <2>4, ZenonT(30) DEF ProgressInv
<1>6. GivenUpIsCanceled'
  BY <1>1, <1>2, <1>3, Zenon DEF JobInv, GivenUpIsCanceled
<1>7. QED  BY <1>2, <1>4, <1>5, <1>6, ZenonT(30) DEF JobInv, PlaceInv

\* The steps of a worker thread.
LEMMA WorkerJobInv ==
    ASSUME TypeInv, JobInv, NEW w \in WorkerIds, WorkerStep(w) \/ WorkerFault(w)
    PROVE  JobInv'
<1>1. CASE \/ WorkerInitOk(w) \/ WorkerInitFails(w) \/ WorkerShutdown(w)
           \/ ReportLost(w) \/ SendExit(w) \/ ThreadEnds(w)
  <2>1. /\ wpc[w] \in {"starting", "idle", "lost", "exit", "ending"}
        /\ \E x \in WorkerStates : wpc' = [wpc EXCEPT ![w] = x]
    BY <1>1, Zenon DEF WorkerInitOk, WorkerInitFails, WorkerShutdown, ReportLost, SendExit,
                ThreadEnds, WorkerStates
  <2>2. JobsKept /\ nextId' = nextId
    BY <1>1, Zenon DEF WorkerInitOk, WorkerInitFails, WorkerShutdown, ReportLost,
                       SendExit, ThreadEnds
  <2>3. PICK x : wpc' = [wpc EXCEPT ![w] = x]
    BY <2>1, Zenon
  <2>4. wpc[w] \notin HoldStates /\ wpc[w] # "none"
    BY <2>1
  <2>5. QED  BY <2>2, <2>3, <2>4, WorkerMoves, ZenonT(30)
<1>2. CASE LoopPanics(w)
  <2>1. Releases(w, "lost", 0, "failed")
    BY <1>2, Zenon DEF LoopPanics, Releases
  <2>2. QED  BY <2>1, Release, Zenon
<1>3. CASE TailDone(w)
  <2>1. Releases(w, "idle", 0, "failed")
    BY <1>3, Zenon DEF TailDone, Releases
  <2>2. QED  BY <2>1, Release
<1>4. CASE SkipCanceled(w)
  <2>1. \E j \in wjob[w] : Releases(w, "idle", j, "canceled")
    BY <1>4, Zenon DEF SkipCanceled, Releases
  <2>2. QED  BY <2>1, Release, Zenon
<1>5. CASE MainNotReplied(w)
  <2>1. \E j \in wjob[w] : Releases(w, "idle", j, "failed")
    BY <1>5, Zenon DEF MainNotReplied, Releases
  <2>2. QED  BY <2>1, Release, Zenon
<1>6. CASE ReportPanic(w)
  <2>1. \E j \in wjob[w] : Releases(w, "exit", j, "panic")
    BY <1>6, Zenon DEF ReportPanic, Releases
  <2>2. QED  BY <2>1, Release, Zenon
<1>7. QED
  BY ZenonT(30), <1>1, <1>2, <1>3, <1>4, <1>5, <1>6, TakeJobInv, StartJobInv, MainRepliesInv,
     JobPanicsInv DEF WorkerStep, WorkerFault

(***************************************************************************)
(* Calls.                                                                  *)
(***************************************************************************)

\* A step of a call that moves no job.
JobsStay == queue' = queue /\ wpc' = wpc /\ wjob' = wjob /\ RunsKept /\ nextId' = nextId
USE DEF JobsStay

GoesTo(j, pc) ==
    /\ JobsStay /\ cpc' = [cpc EXCEPT ![j] = pc]
    /\ canceled' = canceled /\ reply' = reply /\ result' = result

\* A call goes on to its next step, not yet having returned.
LEMMA GoesOn ==
    ASSUME TypeInv, JobInv, NEW j \in Jobs, NEW pc \in CallStates, GoesTo(j, pc),
           pc # "returned", cpc[j] # "returned",
           pc \in BeforeQueue => cpc[j] \in BeforeQueue
    PROVE  JobInv'
<1> USE DEF GoesTo
<1>1. Queued' = Queued /\ QueuedOnce'
  BY QueueKept DEF JobInv, PlaceInv
<1>2. /\ cpc \in [Jobs -> CallStates] /\ cpc'[j] = pc
      /\ \A k \in Jobs : k # j => cpc'[k] = cpc[k]
  BY DEF TypeInv, StateOK
<1>3. (IdsFresh /\ HoldersWork /\ HeldOnce /\ QueuedNotHeld)'
  BY <1>1, Zenon DEF JobInv, PlaceInv, IdsFresh, HoldersWork, HeldOnce, QueuedNotHeld
<1>4. ProgressInv'
  BY <1>1, <1>2, SMTT(30) DEF JobInv, ProgressInv, NotQueuedYet, QueuedUntouched,
                    TakenUntouched, Unanswered, ResultIsFinal, RefusedNowhere,
                    FirstReplyKept, AtMostOnce, MainReplyWins
<1>5. GivenUpIsCanceled'
  BY <1>1, <1>2, Zenon DEF JobInv, GivenUpIsCanceled
<1>6. QED  BY <1>1, <1>3, <1>4, <1>5, Zenon DEF JobInv, PlaceInv

\* A call returns r: it may only give a reply it received, refuse a job it
\* did not queue, and leave a waiting job behind if it canceled it.
LEMMA Returns ==
    ASSUME TypeInv, FlagsOK, JobInv, NEW j \in Jobs, NEW r \in Results,
           Return(j, r), cpc[j] # "returned",
           r \in ReplyValues => r \in reply[j],
           r \in Refused => cpc[j] \in BeforeQueue,
           \/ canceled' = [canceled EXCEPT ![j] = TRUE]
           \/ /\ canceled' = canceled
              /\ \/ cpc[j] \in BeforeQueue \/ reply[j] # {}
                 \/ j \notin Queued /\ \A w \in WorkerIds : j \notin wjob[w],
           JobsStay
    PROVE  JobInv'
<1>1. Queued' = Queued /\ QueuedOnce'
  BY QueueKept, Zenon DEF JobInv, PlaceInv
<1>2. /\ cpc'[j] = "returned" /\ result'[j] = r /\ reply'[j] = {}
      /\ \A k \in Jobs : k # j => /\ cpc'[k] = cpc[k] /\ result'[k] = result[k]
                                  /\ reply'[k] = reply[k]
  BY DEF TypeInv, StateOK, Return
<1>3. (IdsFresh /\ HoldersWork /\ HeldOnce /\ QueuedNotHeld)'
  BY <1>1, Zenon DEF JobInv, PlaceInv, IdsFresh, HoldersWork, HeldOnce, QueuedNotHeld
<1>4. NotQueuedYet'
  BY <1>1, <1>2, Zenon DEF JobInv, ProgressInv, NotQueuedYet, BeforeQueue
<1>5. QueuedUntouched'
  BY <1>1, <1>2, Zenon DEF JobInv, ProgressInv, QueuedUntouched, Unanswered, Queued
<1>6. TakenUntouched'
  <2>1. wjob \in [WorkerIds -> SUBSET Jobs]
    BY DEF TypeInv, StateOK
  <2>2. QED  BY <1>2, <2>1, ZenonT(30) DEF JobInv, ProgressInv, TakenUntouched, Unanswered
<1>7. (ResultIsFinal /\ AtMostOnce)'
  BY <1>2, Zenon DEF JobInv, ProgressInv, ResultIsFinal, AtMostOnce
<1>8. RefusedNowhere'
  BY <1>1, <1>2, Zenon DEF JobInv, ProgressInv, NotQueuedYet, RefusedNowhere
<1>9. (FirstReplyKept /\ MainReplyWins)'
  <2>1. FirstReplyKept'
    BY <1>2, SMTT(30) DEF JobInv, ProgressInv, FirstReplyKept
  <2>2. settled[j] # "none" => reply[j] = {settled[j]}
    BY Zenon DEF JobInv, ProgressInv, FirstReplyKept
  <2>3. "ok" \in reply[j] => settled[j] = "ok"
    BY Zenon DEF JobInv, ProgressInv, FirstReplyKept
  <2>4. MainReplyWins'
    BY <1>2, <2>2, <2>3, Zenon DEF JobInv, ProgressInv, MainReplyWins, ReplyValues
  <2>5. QED  BY <2>1, <2>4, Zenon
<1>10. GivenUpIsCanceled'
  <2>1. /\ \A k \in Jobs : k # j => canceled'[k] = canceled[k]
        /\ canceled' = [canceled EXCEPT ![j] = TRUE] => canceled'[j] = TRUE
    BY Zenon DEF FlagsOK
  <2>2. \/ canceled'[j] = TRUE
        \/ /\ j \notin Queued
           /\ \A w \in WorkerIds : ~(j \in wjob[w] /\ wpc[w] = "taken")
    BY <2>1 DEF JobInv, ProgressInv, NotQueuedYet, QueuedUntouched, TakenUntouched,
                Unanswered
  <2>3. QED  BY <1>1, <1>2, <2>1, <2>2, ZenonT(30) DEF JobInv, GivenUpIsCanceled
<1>11. QED
  BY <1>1, <1>3, <1>4, <1>5, <1>6, <1>7, <1>8, <1>9, <1>10, ZenonT(30)
  DEF JobInv, PlaceInv, ProgressInv

\* Enqueue puts the job of a call that has not returned into the channel.
LEMMA EnqueueInv ==
    ASSUME TypeInv, JobInv, NEW j \in Jobs, Enqueue(j)
    PROVE  JobInv'
<1>1. /\ cpc[j] = "enqueue" /\ cpc' = [cpc EXCEPT ![j] = "accepted"]
      /\ queue' = Append(queue, j) /\ wpc' = wpc /\ wjob' = wjob /\ RunsKept
      /\ nextId' = nextId /\ canceled' = canceled /\ reply' = reply
      /\ result' = result
  BY Zenon DEF Enqueue, Goto
<1>2. /\ cpc'[j] = "accepted" /\ \A k \in Jobs : k # j => cpc'[k] = cpc[k]
  BY <1>1, Zenon DEF TypeInv, StateOK
<1>3. /\ j \notin Queued /\ \A w \in WorkerIds : j \notin wjob[w]
      /\ runs[j] = 0 /\ settled[j] = "none" /\ reply[j] = {}
  BY <1>1 DEF JobInv, ProgressInv, NotQueuedYet, BeforeQueue
<1>4. result[j] = "none"
  BY <1>1 DEF JobInv, ProgressInv, ResultIsFinal
<1>5. Queued' = Queued \cup {j} /\ QueuedOnce'
  <2>1. queue \in Seq(Jobs) /\ QueuedOnce
    BY Zenon DEF TypeInv, StateOK, JobInv, PlaceInv
  <2>2. QED  BY <1>1, <1>3, <2>1, EnqueueLast, ZenonT(30)
<1>6. (IdsFresh /\ HoldersWork /\ HeldOnce /\ QueuedNotHeld)'
  BY <1>1, <1>3, <1>5, Zenon DEF JobInv, PlaceInv, IdsFresh, HoldersWork, HeldOnce,
                          QueuedNotHeld
<1>7. (NotQueuedYet /\ QueuedUntouched /\ TakenUntouched)'
  <2>1. NotQueuedYet'
    BY <1>1, <1>2, <1>5, ZenonT(30) DEF JobInv, ProgressInv, NotQueuedYet, BeforeQueue
  <2>2. QueuedUntouched'
    BY <1>1, <1>3, <1>4, <1>5, ZenonT(30)
    DEF JobInv, ProgressInv, QueuedUntouched, Unanswered, ReplyValues
  <2>3. TakenUntouched'
    BY <1>1, Zenon DEF JobInv, ProgressInv, TakenUntouched, Unanswered
  <2>4. QED  BY <2>1, <2>2, <2>3, Zenon
<1>8. (ResultIsFinal /\ RefusedNowhere)'
  BY <1>1, <1>2, <1>4, <1>5, ZenonT(30) DEF JobInv, ProgressInv, ResultIsFinal,
                                RefusedNowhere, Refused
<1>9. (FirstReplyKept /\ AtMostOnce /\ MainReplyWins)'
  BY <1>1, <1>2, <1>3, ZenonT(30) DEF JobInv, ProgressInv, FirstReplyKept, AtMostOnce,
                          MainReplyWins
<1>10. GivenUpIsCanceled'
  BY <1>1, <1>2, <1>5, ZenonT(30) DEF JobInv, GivenUpIsCanceled
<1>11. QED
  BY <1>5, <1>6, <1>7, <1>8, <1>9, <1>10, ZenonT(30) DEF JobInv, PlaceInv, ProgressInv

\* The steps of a call.
LEMMA CallJobInv ==
    ASSUME TypeInv, FlagsOK, JobInv, NEW j \in Jobs,
           Call(j, "run") \/ Call(j, "try") \/ CallStep(j) \/ DeadlinePasses(j)
    PROVE  JobInv'
<1> USE DEF BeforeQueue, CallStates
<1>1. CASE Call(j, "run") \/ Call(j, "try")
  <2>1. cpc[j] = "start" /\ JobsStay /\ canceled' = canceled
    BY <1>1, Zenon DEF Call
  <2>2. Return(j, "pool_closed") \/ GoesTo(j, "blocked")
    BY <1>1, <2>1, ZenonT(30) DEF Call, GoesTo
  <2>3. QED  BY <2>1, <2>2, GoesOn, Returns, ZenonT(30) DEF Results, ReplyValues, Refused
<1>2. CASE CallCheckBlocked(j)
  <2>1. cpc[j] = "blocked" /\ (GoesTo(j, "reap") \/ GoesTo(j, "deadline"))
    BY <1>2, Zenon DEF CallCheckBlocked, Goto, GoesTo
  <2>2. QED  BY <2>1, GoesOn
<1>3. CASE CallReap(j)
  <2>1. cpc[j] = "reap" /\ (GoesTo(j, "count") \/ GoesTo(j, "remove"))
    BY <1>3, Zenon DEF CallReap, Goto, GoesTo
  <2>2. QED  BY <2>1, GoesOn
<1>4. CASE CallRemove(j)
  <2>1. cpc[j] = "remove" /\ GoesTo(j, "count")
    BY <1>4, ZenonT(30) DEF CallRemove, Goto, GoesTo
  <2>2. QED  BY <2>1, GoesOn, Zenon
<1>5. CASE CallCount(j)
  <2>1. cpc[j] = "count" /\ JobsStay /\ canceled' = canceled
    BY <1>5, Zenon DEF CallCount
  <2>2. Return(j, "unavailable") \/ GoesTo(j, "deadline")
    BY <1>5, <2>1, Zenon DEF CallCount, Goto, GoesTo
  <2>3. QED  BY <2>1, <2>2, GoesOn, Returns, ZenonT(30) DEF Results, ReplyValues, Refused
<1>6. CASE CallDeadline(j)
  <2>1. cpc[j] = "deadline" /\ (GoesTo(j, "precheck") \/ GoesTo(j, "enqueue"))
    BY <1>6, ZenonT(30) DEF CallDeadline, Goto, GoesTo
  <2>2. QED  BY <2>1, GoesOn, Zenon
<1>7. CASE CallDeadlineOverflows(j)
  <2>1. /\ cpc[j] = "deadline" /\ Return(j, "runtime_pool")
        /\ JobsStay /\ canceled' = canceled
    BY <1>7, ZenonT(30) DEF CallDeadlineOverflows
  <2>2. QED  BY <2>1, Returns, Zenon DEF Results, ReplyValues, Refused
<1>8. CASE CallPrecheck(j)
  <2>1. cpc[j] = "precheck" /\ JobsStay
    BY <1>8, Zenon DEF CallPrecheck
  <2>2. \/ Return(j, "run_timeout") /\ canceled' = [canceled EXCEPT ![j] = TRUE]
        \/ GoesTo(j, "enqueue")
    BY <1>8, <2>1, ZenonT(30) DEF CallPrecheck, GoesTo
  <2>3. QED  BY <2>1, <2>2, GoesOn, Returns, ZenonT(30) DEF Results, ReplyValues, Refused
<1>9. CASE EnqueueTimesOut(j)
  <2>1. /\ cpc[j] = "enqueue" /\ JobsStay
        /\ \/ Return(j, "run_timeout") /\ canceled' = [canceled EXCEPT ![j] = TRUE]
           \/ Return(j, "queue_timeout") /\ canceled' = canceled
    BY <1>9, ZenonT(30) DEF EnqueueTimesOut
  <2>2. QED  BY <2>1, Returns DEF Results, ReplyValues, Refused
<1>10. CASE EnqueueRefused(j)
  <2>1. /\ cpc[j] = "enqueue" /\ Return(j, "queue_full")
        /\ JobsStay /\ canceled' = canceled
    BY <1>10, Zenon DEF EnqueueRefused
  <2>2. QED  BY <2>1, Returns, Zenon DEF Results, ReplyValues, Refused
<1>11. CASE CallCheckRemaining(j)
  <2>1. cpc[j] = "accepted" /\ (GoesTo(j, "cancel") \/ GoesTo(j, "await"))
    BY <1>11, ZenonT(30) DEF CallCheckRemaining, Goto, GoesTo
  <2>2. QED  BY <2>1, GoesOn, Zenon
<1>12. CASE ReceiveReply(j)
  <2>1. PICK v \in reply[j] : Return(j, v)
    BY <1>12, ZenonT(30) DEF ReceiveReply
  <2>2. cpc[j] = "await" /\ JobsStay /\ canceled' = canceled
    BY <1>12, ZenonT(30) DEF ReceiveReply
  <2>3. v \in ReplyValues
    BY <2>1 DEF TypeInv, StateOK
  <2>4. v \in Results /\ v \notin Refused
    BY <2>3, Zenon DEF Results, ReplyValues, Refused
  <2>5. QED  BY <2>1, <2>2, <2>4, Returns, ZenonT(30)
<1>13. CASE ReceiveTimesOut(j)
  <2>1. cpc[j] = "await" /\ GoesTo(j, "cancel")
    BY <1>13, ZenonT(30) DEF ReceiveTimesOut, Goto, GoesTo
  <2>2. QED  BY <2>1, GoesOn, Zenon
<1>14. CASE CancelJob(j)
  <2>1. /\ cpc[j] = "cancel" /\ Return(j, "run_timeout")
        /\ JobsStay /\ canceled' = [canceled EXCEPT ![j] = TRUE]
    BY <1>14, Zenon DEF CancelJob
  <2>2. QED  BY <2>1, Returns, Zenon DEF Results, ReplyValues, Refused
<1>15. CASE ReplyDropped(j)
  <2>1. /\ cpc[j] = "await" /\ Return(j, "unavailable")
        /\ JobsStay /\ canceled' = canceled
    BY <1>15, ZenonT(30) DEF ReplyDropped
  <2>2. j \notin Queued /\ \A w \in WorkerIds : j \notin wjob[w]
    BY <1>15 DEF ReplyDropped, SenderAlive, Queued, InQueue
  <2>3. QED  BY <2>1, <2>2, Returns, ZenonT(30) DEF Results, ReplyValues, Refused
<1>16. CASE DeadlinePasses(j)
  <2>1. JobsKept /\ wpc' = wpc /\ nextId' = nextId
    BY <1>16, Zenon DEF DeadlinePasses
  <2>2. nextId' \in {nextId, nextId + 1}
    BY <2>1, Zenon
  <2>3. QED  BY <2>1, <2>2, QuietStep, Zenon
<1>17. QED
  BY ZenonT(30), <1>1, <1>2, <1>3, <1>4, <1>5, <1>6, <1>7, <1>8, <1>9, <1>10, <1>11, <1>12,
     <1>13, <1>14, <1>15, <1>16, EnqueueInv DEF CallStep

\* Every step keeps the job invariant.
LEMMA NextJobInv == TypeInv /\ FlagsOK /\ JobInv /\ [Next]_vars => JobInv'
<1> SUFFICES ASSUME TypeInv, FlagsOK, JobInv, [Next]_vars PROVE JobInv'
  OBVIOUS
<1>1. CASE UNCHANGED vars
  <2>1. JobsKept /\ wpc' = wpc /\ nextId' = nextId
    BY <1>1, Zenon DEF vars
  <2>2. nextId' \in {nextId, nextId + 1}
    BY <2>1, Zenon
  <2>3. QED  BY <2>1, <2>2, QuietStep, Zenon
<1>2. QED
  BY <1>1, SpawnJobInv, OwnerJobInv, SupJobInv, WorkerJobInv, CallJobInv, ZenonT(30) DEF Next

\* The job invariant holds throughout.
LEMMA AlwaysJobInv == Spec => []JobInv
<1>1. TypeOK => FlagsOK
  BY DEF TypeOK
<1>2. QED
  BY <1>1, InitJobInv, NextJobInv, AlwaysTypeInv, TypeCorrect, PTL DEF Spec

\* No job is evaluated twice, whatever is restarted or retried.
THEOREM JobsRunAtMostOnce == Spec => []AtMostOnce
<1>1. JobInv => AtMostOnce
  BY Zenon DEF JobInv, ProgressInv
<1>2. QED  BY <1>1, AlwaysJobInv, PTL

\* A call that run or run_nonblocking_enqueue refused left no job behind.
THEOREM RefusedCallsLeaveNothing == Spec => []RefusedLeavesNothing
<1>1. JobInv => RefusedLeavesNothing
  BY Zenon DEF JobInv, ProgressInv, RefusedNowhere, Refused, RefusedLeavesNothing,
         Queued, Held
<1>2. QED  BY <1>1, AlwaysJobInv, PTL

\* A later panic never replaces the main export's reply.
THEOREM MainReplyAlwaysWins == Spec => []MainReplyWins
<1>1. JobInv => MainReplyWins
  BY DEF JobInv, ProgressInv
<1>2. QED  BY <1>1, AlwaysJobInv, PTL

\* StartJob is the only step that counts a run.
LEMMA OnlyStartJobRuns ==
    ASSUME [Next]_vars
    PROVE  runs' = runs \/ \E w \in WorkerIds : StartJob(w)
<1>1. CASE UNCHANGED vars
  BY <1>1, Zenon DEF vars
<1>2. CASE SpawnStep \/ SpawnThreadFails
  BY <1>2, Zenon DEF SpawnStep, SpawnThread, SpawnInsert, SpawnReady, SpawnNotReady,
                     SpawnJoin, SpawnThreadFails
<1>3. CASE BuildSupervisor \/ BuildSupervisorFails \/ BeginDrop \/ TeardownStep
  BY <1>3, Zenon DEF BuildSupervisor, BuildSupervisorFails, BeginDrop, TeardownStep,
                     MarkClosed, DrainJob, SignalWorkers, SignalSupervisor,
                     JoinSupervisor, JoinWorkers
<1>4. CASE SupStep \/ WindowElapses
  BY <1>4, ZenonT(30) DEF SupStep, SupShutdown, SupExitEvent, SupJoin, SupTick,
                     SupCheckClosed, ReconcileCheckClosed, ReconcileReap,
                     ReconcileRemove, ReconcileCount, ReconcileAttempt,
                     ReconcileDone, WindowElapses
<1>5. ASSUME NEW w \in WorkerIds, WorkerStep(w) \/ WorkerFault(w), ~StartJob(w)
      PROVE  runs' = runs
  BY <1>5, ZenonT(30) DEF WorkerStep, WorkerFault, WorkerInitOk, WorkerInitFails,
                     WorkerShutdown, TakeJob, SkipCanceled, LoopPanics,
                     MainReplies, MainNotReplied, TailDone, JobPanics,
                     ReportPanic, ReportLost, SendExit, ThreadEnds
<1>6. ASSUME NEW j \in Jobs,
             Call(j, "run") \/ Call(j, "try") \/ CallStep(j) \/ DeadlinePasses(j)
      PROVE  runs' = runs
  BY <1>6, Zenon DEF Call, CallStep, CallCheckBlocked, CallReap, CallRemove,
                     CallCount, CallDeadline, CallDeadlineOverflows,
                     CallPrecheck, Enqueue, EnqueueTimesOut, EnqueueRefused,
                     CallCheckRemaining, ReceiveReply, ReceiveTimesOut,
                     CancelJob, ReplyDropped, DeadlinePasses
<1>7. QED  BY <1>1, <1>2, <1>3, <1>4, <1>5, <1>6, ZenonT(30) DEF Next

\* No job is started on behalf of a call that has returned.
THEOREM NothingStartsAfterReturn == Spec => NoStartAfterReturn
<1>1. TypeInv /\ JobInv /\ [Next]_vars
        => [\A j \in Jobs : runs'[j] # runs[j] => cpc[j] # "returned"]_vars
  <2> SUFFICES ASSUME TypeInv, JobInv, [Next]_vars,
                      NEW j \in Jobs, runs'[j] # runs[j]
               PROVE  cpc[j] # "returned"
    OBVIOUS
  <2>1. PICK w \in WorkerIds : StartJob(w)
    BY OnlyStartJobRuns
  <2>2. PICK k \in wjob[w] : ~canceled[k] /\ runs' = [runs EXCEPT ![k] = @ + 1]
    BY <2>1, Zenon DEF StartJob
  <2>3. wpc[w] = "taken"
    BY <2>1, Zenon DEF StartJob
  <2>4. k = j
    BY <2>2 DEF TypeInv, StateOK
  <2>5. QED  BY <2>2, <2>3, <2>4, Zenon DEF JobInv, GivenUpIsCanceled
<1>2. QED  BY <1>1, AlwaysTypeInv, AlwaysJobInv, PTL DEF Spec, NoStartAfterReturn
====
