----------------------------- MODULE WorkerPool -----------------------------
(***************************************************************************)
(* The worker pool of mechanics-core (src/src/internal/pool/): the calls   *)
(* of MechanicsPool::run and run_nonblocking_enqueue, the bounded job      *)
(* queue, the worker threads, the supervisor that replaces lost workers    *)
(* under the restart guard, the construction of the pool, and its Drop.    *)
(*                                                                         *)
(* One call is one element of Jobs: every call creates its own job, reply  *)
(* channel and cancellation flag, so a call and its job share an identity. *)
(* Every lock region and every channel operation is one step; what runs    *)
(* between two of them is merged into the step that follows it.            *)
(***************************************************************************)
EXTENDS Integers, Sequences, FiniteSets

CONSTANTS
    Jobs,           \* the calls that may be made on the pool
    WorkerCount,    \* desired_worker_count
    QueueCapacity,  \* capacity of the bounded job channel
    MaxRestarts,    \* max_restarts_in_window of the restart guard
    MaxFaults,      \* bound: worker panics and failed startups
    MaxSpawns       \* bound: worker ids handed out over the pool's life

ASSUME JobsFinite == IsFiniteSet(Jobs)
ASSUME WorkerCountPositive == WorkerCount \in Nat \ {0}
ASSUME QueueCapacityPositive == QueueCapacity \in Nat \ {0}
ASSUME MaxRestartsPositive == MaxRestarts \in Nat \ {0}
ASSUME BoundsNat == MaxFaults \in Nat /\ MaxSpawns \in Nat

VARIABLES
    owner,      \* control of the thread in new() and, later, in drop()
    closed,     \* shared.closed
    blocked,    \* shared.restart_blocked
    map,        \* keys of shared.workers, the handle map behind the RwLock
    nextId,     \* shared.next_worker_id
    queue,      \* the bounded job channel
    exits,      \* the unbounded exit-event channel
    attempts,   \* restart_guard: remembered restart attempts
    expired,    \* how many of them have left the window by now
    faults,     \* environment: faults that have happened
    spc,        \* control of the spawn_worker call in progress, if any
    sid,        \* worker id of that call
    missing,    \* iterations left of the loop that calls spawn_worker
    sup,        \* control of the supervisor thread
    joining,    \* handle (0 or 1) the supervisor took out of the map to join
    supFound,   \* finished ids the supervisor's reap collected
    wpc,        \* control of each worker thread
    wjob,       \* job (0 or 1) each worker holds
    ready,      \* what each worker sent on its ready channel
    shutdown,   \* workers whose shutdown channel holds a message
    runs,       \* history: how often each job's source was started
    settled,    \* history: what the main export of each job replied
    cpc,        \* control of each call
    mode,       \* which of the two entry points the call uses
    limited,    \* limited_by_run_timeout of the call
    passed,     \* the call's run deadline has passed
    canceled,   \* the job's cancellation flag
    found,      \* finished ids the call's reap collected
    reply,      \* the job's reply channel (capacity 1)
    result      \* what the call returned

poolVars == <<closed, blocked, map, nextId>>
guardVars == <<attempts, expired>>
spawnVars == <<spc, sid, missing>>
supVars == <<sup, joining, supFound>>
workerVars == <<wpc, wjob, ready, shutdown, runs, settled>>
callVars == <<cpc, mode, limited, passed, canceled, found, result>>
vars == <<owner, poolVars, queue, exits, guardVars, faults, spawnVars,
          supVars, workerVars, callVars, reply>>

WorkerIds == 0..(MaxSpawns - 1)

OwnerStates == {"building", "open", "close", "drain", "stop_sup",
                "join_sup", "join_workers", "gone"}
SpawnStates == {"idle", "insert", "ready", "join"}
SupStates == {"none", "select", "join", "closed", "reconcile", "reap",
              "remove", "count", "loop", "spawn", "done"}
WorkerStates == {"none", "starting", "idle", "taken", "run", "tail",
                 "panicked", "lost", "exit", "ending", "finished"}
CallStates == {"start", "blocked", "reap", "remove", "count", "deadline",
               "precheck", "enqueue", "accepted", "await", "cancel",
               "returned"}
ReplyValues == {"ok", "failed", "panic", "canceled"}
Results == ReplyValues \cup {"run_timeout", "queue_timeout", "queue_full",
                             "unavailable", "pool_closed", "runtime_pool"}

(***************************************************************************)
(* Threads.                                                                *)
(***************************************************************************)

\* Mutant: every thread that is not waiting for a job counts as finished.
FinishedMutBusy(w) == wpc[w] # "idle"

\* is_finished() of a worker's join handle.
Finished(w) == wpc[w] = "finished"

\* Threads that exist and have not left their job loop.
Serving == {w \in WorkerIds :
                wpc[w] \in {"starting", "idle", "taken", "run", "tail",
                            "panicked"}}

\* The caller still holds the receiving end of its reply channel.
Receiving(j) == cpc[j] # "returned"

\* Reply senders of j live in the queued message and in the worker that
\* holds the job.
SenderAlive(j) ==
    \/ \E i \in DOMAIN queue : queue[i] = j
    \/ \E w \in WorkerIds : j \in wjob[w]

\* Mutant: a full channel is overwritten.
SendReplyMutOverwrite(j, v) ==
    IF Receiving(j)
    THEN reply' = [reply EXCEPT ![j] = {v}]
    ELSE UNCHANGED reply

\* A send on the bounded(1) reply channel: it blocks while the channel is
\* full, and is dropped once the caller has gone.
SendReply(j, v) ==
    IF Receiving(j)
    THEN reply[j] = {} /\ reply' = [reply EXCEPT ![j] = {v}]
    ELSE UNCHANGED reply

-----------------------------------------------------------------------------
Init ==
    /\ owner = "building"
    /\ closed = FALSE
    /\ blocked = FALSE
    /\ map = {}
    /\ nextId = 0
    /\ queue = <<>>
    /\ exits = <<>>
    /\ attempts = 0 /\ expired = 0
    /\ faults = 0
    /\ spc = "idle"
    /\ sid = 0
    /\ missing = WorkerCount
    /\ sup = "none"
    /\ joining = {}
    /\ supFound = {}
    /\ wpc = [w \in WorkerIds |-> "none"]
    /\ wjob = [w \in WorkerIds |-> {}]
    /\ ready = [w \in WorkerIds |-> "none"]
    /\ shutdown = {}
    /\ runs = [j \in Jobs |-> 0]
    /\ settled = [j \in Jobs |-> "none"]
    /\ cpc = [j \in Jobs |-> "start"]
    /\ mode = [j \in Jobs |-> "run"]
    /\ limited = [j \in Jobs |-> FALSE]
    /\ passed = [j \in Jobs |-> FALSE]
    /\ canceled = [j \in Jobs |-> FALSE]
    /\ found = [j \in Jobs |-> {}]
    /\ reply = [j \in Jobs |-> {}]
    /\ result = [j \in Jobs |-> "none"]

-----------------------------------------------------------------------------
(***************************************************************************)
(* spawn_worker, called by new() before the supervisor exists and by the   *)
(* supervisor afterwards: never by both, so one call is in progress at a   *)
(* time.                                                                   *)
(***************************************************************************)

\* A fault of the environment: a panic, or a thread or runtime that cannot
\* be created.
Fault == faults < MaxFaults /\ faults' = faults + 1

SpawnRequested ==
    /\ spc = "idle"
    /\ \/ owner = "building" /\ missing > 0
       \/ sup = "spawn"

\* What the caller of spawn_worker does with Ok: next iteration of its loop.
SpawnReturnsOk ==
    /\ spc' = "idle"
    /\ missing' = missing - 1
    /\ sup' = IF sup = "spawn" THEN "loop" ELSE sup
    /\ UNCHANGED owner

\* What the caller does with Err: reconcile_workers blocks restarts and
\* returns to the supervisor's select; new() returns, dropping the
\* uncommitted PoolConstructor.
SpawnReturnsErr ==
    /\ spc' = "idle"
    /\ missing' = 0
    /\ IF sup = "spawn"
       THEN blocked' = TRUE /\ sup' = "select" /\ UNCHANGED owner
       ELSE owner' = "close" /\ UNCHANGED <<blocked, sup>>

SpawnThread ==
    /\ SpawnRequested
    /\ nextId < MaxSpawns
    /\ nextId' = nextId + 1
    /\ sid' = nextId
    /\ wpc' = [wpc EXCEPT ![nextId] = "starting"]
    /\ spc' = "insert"
    /\ UNCHANGED <<owner, closed, blocked, map, queue, exits, guardVars, faults,
                   missing, supVars, wjob, ready, shutdown, runs, settled,
                   callVars, reply>>

\* thread::Builder::spawn fails: the id is spent, nothing else happened.
SpawnThreadFails ==
    /\ SpawnRequested
    /\ nextId < MaxSpawns
    /\ Fault
    /\ nextId' = nextId + 1
    /\ SpawnReturnsErr
    /\ UNCHANGED <<closed, map, queue, exits, guardVars, sid, joining, supFound,
                   workerVars, callVars, reply>>

SpawnInsert ==
    /\ spc = "insert"
    /\ map' = map \cup {sid}
    /\ spc' = "ready"
    /\ UNCHANGED <<owner, closed, blocked, nextId, queue, exits, guardVars,
                   faults, sid, missing, supVars, workerVars, callVars, reply>>

SpawnReady ==
    /\ spc = "ready"
    /\ ready[sid] = "ok"
    /\ blocked' = FALSE
    /\ SpawnReturnsOk
    /\ UNCHANGED <<closed, map, nextId, queue, exits, guardVars, faults, sid,
                   joining, supFound, workerVars, callVars, reply>>

\* remove_worker_handle: a concurrent reap may have taken the handle already,
\* in which case there is nothing to join.
SpawnNotReady ==
    /\ spc = "ready"
    /\ ready[sid] = "err"
    /\ map' = map \ {sid}
    /\ IF sid \in map
       THEN spc' = "join" /\ UNCHANGED <<owner, blocked, missing, sup>>
       ELSE SpawnReturnsErr
    /\ UNCHANGED <<closed, nextId, queue, exits, guardVars, faults, sid,
                   joining, supFound, workerVars, callVars, reply>>

SpawnJoin ==
    /\ spc = "join"
    /\ Finished(sid)
    /\ SpawnReturnsErr
    /\ UNCHANGED <<closed, map, nextId, queue, exits, guardVars, faults, sid,
                   joining, supFound, workerVars, callVars, reply>>

-----------------------------------------------------------------------------
(***************************************************************************)
(* Construction and teardown.  Dropping the uncommitted PoolConstructor    *)
(* and dropping the pool run the same steps; the former has no supervisor  *)
(* (sup = "none").                                                         *)
(***************************************************************************)

\* All workers are up: the supervisor thread starts and new() returns.
BuildSupervisor ==
    /\ owner = "building" /\ spc = "idle" /\ missing = 0
    /\ sup' = "select"
    /\ owner' = "open"
    /\ UNCHANGED <<poolVars, queue, exits, guardVars, faults, spawnVars, joining,
                   supFound, workerVars, callVars, reply>>

\* The supervisor thread cannot be created.
BuildSupervisorFails ==
    /\ owner = "building" /\ spc = "idle" /\ missing = 0
    /\ Fault
    /\ owner' = "close"
    /\ UNCHANGED <<poolVars, queue, exits, guardVars, spawnVars, supVars,
                   workerVars, callVars, reply>>

\* drop takes &mut self, so no call is in progress when it starts.
BeginDrop ==
    /\ owner = "open"
    /\ \A j \in Jobs : cpc[j] \in {"start", "returned"}
    /\ owner' = "close"
    /\ UNCHANGED <<poolVars, queue, exits, guardVars, faults, spawnVars, supVars,
                   workerVars, callVars, reply>>

MarkClosed ==
    /\ owner = "close"
    /\ closed' = TRUE
    /\ owner' = "drain"
    /\ UNCHANGED <<blocked, map, nextId, queue, exits, guardVars, faults,
                   spawnVars, supVars, workerVars, callVars, reply>>

DrainJob ==
    /\ owner = "drain"
    /\ queue # <<>>
    /\ queue' = Tail(queue)
    /\ SendReply(Head(queue), "canceled")
    /\ UNCHANGED <<owner, poolVars, exits, guardVars, faults, spawnVars, supVars,
                   workerVars, callVars>>

\* Mutant: the workers are not told to stop.
SignalWorkersMutSilent ==
    /\ owner = "drain"
    /\ queue = <<>>
    /\ owner' = "stop_sup"
    /\ UNCHANGED <<poolVars, queue, exits, guardVars, faults, spawnVars, supVars,
                   workerVars, callVars, reply>>

\* request_shutdown on every handle, under the read lock.
SignalWorkers ==
    /\ owner = "drain"
    /\ queue = <<>>
    /\ shutdown' = shutdown \cup map
    /\ owner' = "stop_sup"
    /\ UNCHANGED <<poolVars, queue, exits, guardVars, faults, spawnVars, supVars,
                   wpc, wjob, ready, runs, settled, callVars, reply>>

SignalSupervisor ==
    /\ owner = "stop_sup"
    /\ owner' = "join_sup"
    /\ UNCHANGED <<poolVars, queue, exits, guardVars, faults, spawnVars, supVars,
                   workerVars, callVars, reply>>

JoinSupervisor ==
    /\ owner = "join_sup"
    /\ sup \in {"none", "done"}
    /\ owner' = "join_workers"
    /\ UNCHANGED <<poolVars, queue, exits, guardVars, faults, spawnVars, supVars,
                   workerVars, callVars, reply>>

\* Drains the map under the write lock and joins every handle.
JoinWorkers ==
    /\ owner = "join_workers"
    /\ \A w \in map : Finished(w)
    /\ map' = {}
    /\ owner' = "gone"
    /\ UNCHANGED <<closed, blocked, nextId, queue, exits, guardVars, faults,
                   spawnVars, supVars, workerVars, callVars, reply>>

-----------------------------------------------------------------------------
(***************************************************************************)
(* The supervisor.                                                         *)
(***************************************************************************)

\* The restart guard, as the supervisor sees it.
Guard == INSTANCE RestartRate

WindowElapses ==
    /\ Guard!WindowElapses
    /\ UNCHANGED <<owner, poolVars, queue, exits, faults, spawnVars, supVars,
                   workerVars, callVars, reply>>

SupShutdown ==
    /\ sup = "select"
    /\ owner = "join_sup"
    /\ sup' = "done"
    /\ UNCHANGED <<owner, poolVars, queue, exits, guardVars, faults, spawnVars,
                   joining, supFound, workerVars, callVars, reply>>

\* Mutant: the handle is dropped, which detaches the thread.
SupExitEventMutDetach ==
    /\ sup = "select"
    /\ exits # <<>>
    /\ exits' = Tail(exits)
    /\ map' = map \ {Head(exits)}
    /\ joining' = {}
    /\ sup' = "join"
    /\ UNCHANGED <<owner, closed, blocked, nextId, queue, guardVars, faults,
                   spawnVars, supFound, workerVars, callVars, reply>>

\* An exit event: take the handle out of the map, if it is still there, and
\* go on to join it.
SupExitEvent ==
    /\ sup = "select"
    /\ exits # <<>>
    /\ exits' = Tail(exits)
    /\ map' = map \ {Head(exits)}
    /\ joining' = map \cap {Head(exits)}
    /\ sup' = "join"
    /\ UNCHANGED <<owner, closed, blocked, nextId, queue, guardVars, faults,
                   spawnVars, supFound, workerVars, callVars, reply>>

SupJoin ==
    /\ sup = "join"
    /\ \A w \in joining : Finished(w)
    /\ joining' = {}
    /\ sup' = "closed"
    /\ UNCHANGED <<owner, poolVars, queue, exits, guardVars, faults, spawnVars,
                   supFound, workerVars, callVars, reply>>

\* Mutant: without a tick, only exit events wake the supervisor.
SupTickMutNone == FALSE

SupTick ==
    /\ sup = "select"
    /\ sup' = "closed"
    /\ UNCHANGED <<owner, poolVars, queue, exits, guardVars, faults, spawnVars,
                   joining, supFound, workerVars, callVars, reply>>

\* The supervisor's own look at closed, after every event.
SupCheckClosed ==
    /\ sup = "closed"
    /\ sup' = IF closed THEN "done" ELSE "reconcile"
    /\ UNCHANGED <<owner, poolVars, queue, exits, guardVars, faults, spawnVars,
                   joining, supFound, workerVars, callVars, reply>>

\* reconcile_workers looks again; from here on closed is not read.
ReconcileCheckClosed ==
    /\ sup = "reconcile"
    /\ sup' = IF closed THEN "select" ELSE "reap"
    /\ UNCHANGED <<owner, poolVars, queue, exits, guardVars, faults, spawnVars,
                   joining, supFound, workerVars, callVars, reply>>

ReconcileReap ==
    /\ sup = "reap"
    /\ supFound' = {w \in map : Finished(w)}
    /\ sup' = IF supFound' = {} THEN "count" ELSE "remove"
    /\ UNCHANGED <<owner, poolVars, queue, exits, guardVars, faults, spawnVars,
                   joining, workerVars, callVars, reply>>

ReconcileRemove ==
    /\ sup = "remove"
    /\ map' = map \ supFound
    /\ supFound' = {}
    /\ sup' = "count"
    /\ UNCHANGED <<owner, closed, blocked, nextId, queue, exits, guardVars,
                   faults, spawnVars, joining, workerVars, callVars, reply>>

\* Mutant: off by one, the last worker is not missed.
ReconcileCountMutSpare ==
    /\ sup = "count"
    /\ LET live == Cardinality(map) + 1
       IN  IF live >= WorkerCount
           THEN /\ blocked' = FALSE
                /\ sup' = "select"
                /\ UNCHANGED missing
           ELSE /\ missing' = WorkerCount - live
                /\ sup' = "loop"
                /\ UNCHANGED blocked
    /\ UNCHANGED <<owner, closed, map, nextId, queue, exits, guardVars, faults,
                   spc, sid, joining, supFound, workerVars, callVars, reply>>

ReconcileCount ==
    /\ sup = "count"
    /\ LET live == Cardinality(map)
       IN  IF live >= WorkerCount
           THEN /\ blocked' = FALSE
                /\ sup' = "select"
                /\ UNCHANGED missing
           ELSE /\ missing' = WorkerCount - live
                /\ sup' = "loop"
                /\ UNCHANGED blocked
    /\ UNCHANGED <<owner, closed, map, nextId, queue, exits, guardVars, faults,
                   spc, sid, joining, supFound, workerVars, callVars, reply>>

\* One iteration of the respawn loop, up to the call of spawn_worker.
ReconcileAttempt ==
    /\ sup = "loop"
    /\ missing > 0
    /\ Guard!RecordRestartAttempt
    /\ IF Guard!AllowRestart
       THEN sup' = "spawn" /\ UNCHANGED <<blocked, missing>>
       ELSE sup' = "select" /\ blocked' = TRUE /\ missing' = 0
    /\ UNCHANGED <<owner, closed, map, nextId, queue, exits, faults, spc, sid,
                   joining, supFound, workerVars, callVars, reply>>

ReconcileDone ==
    /\ sup = "loop"
    /\ missing = 0
    /\ sup' = "select"
    /\ UNCHANGED <<owner, poolVars, queue, exits, guardVars, faults, spawnVars,
                   joining, supFound, workerVars, callVars, reply>>

-----------------------------------------------------------------------------
(***************************************************************************)
(* A worker thread.                                                        *)
(***************************************************************************)

WorkerInitOk(w) ==
    /\ wpc[w] = "starting"
    /\ ready' = [ready EXCEPT ![w] = "ok"]
    /\ wpc' = [wpc EXCEPT ![w] = "idle"]
    /\ UNCHANGED <<owner, poolVars, queue, exits, guardVars, faults, spawnVars,
                   supVars, wjob, shutdown, runs, settled, callVars, reply>>

\* The runtime cannot be created, or the thread panics on the way.
WorkerInitFails(w) ==
    /\ wpc[w] = "starting"
    /\ Fault
    /\ ready' = [ready EXCEPT ![w] = "err"]
    /\ wpc' = [wpc EXCEPT ![w] = "exit"]
    /\ UNCHANGED <<owner, poolVars, queue, exits, guardVars, spawnVars, supVars,
                   wjob, shutdown, runs, settled, callVars, reply>>

WorkerShutdown(w) ==
    /\ wpc[w] = "idle"
    /\ w \in shutdown
    /\ shutdown' = shutdown \ {w}
    /\ wpc' = [wpc EXCEPT ![w] = "exit"]
    /\ UNCHANGED <<owner, poolVars, queue, exits, guardVars, faults, spawnVars,
                   supVars, wjob, ready, runs, settled, callVars, reply>>

TakeJob(w) ==
    /\ wpc[w] = "idle"
    /\ queue # <<>>
    /\ queue' = Tail(queue)
    /\ wjob' = [wjob EXCEPT ![w] = {Head(queue)}]
    /\ wpc' = [wpc EXCEPT ![w] = "taken"]
    /\ UNCHANGED <<owner, poolVars, exits, guardVars, faults, spawnVars, supVars,
                   ready, shutdown, runs, settled, callVars, reply>>

SkipCanceled(w) ==
    /\ wpc[w] = "taken"
    /\ \E j \in wjob[w] : canceled[j] /\ SendReply(j, "canceled")
    /\ wjob' = [wjob EXCEPT ![w] = {}]
    /\ wpc' = [wpc EXCEPT ![w] = "idle"]
    /\ UNCHANGED <<owner, poolVars, queue, exits, guardVars, faults, spawnVars,
                   supVars, ready, shutdown, runs, settled, callVars>>

StartJob(w) ==
    /\ wpc[w] = "taken"
    /\ \E j \in wjob[w] : /\ ~canceled[j]
                          /\ runs' = [runs EXCEPT ![j] = @ + 1]
    /\ wpc' = [wpc EXCEPT ![w] = "run"]
    /\ UNCHANGED <<owner, poolVars, queue, exits, guardVars, faults, spawnVars,
                   supVars, wjob, ready, shutdown, settled, callVars, reply>>

\* A panic of the loop itself, outside the inner catch_unwind: the installed
\* metrics recorder is called there.  The reply sender is dropped unused.
LoopPanics(w) ==
    /\ wpc[w] = "taken"
    /\ Fault
    /\ wjob' = [wjob EXCEPT ![w] = {}]
    /\ wpc' = [wpc EXCEPT ![w] = "lost"]
    /\ UNCHANGED <<owner, poolVars, queue, exits, guardVars, spawnVars, supVars,
                   ready, shutdown, runs, settled, callVars, reply>>

\* The outer catch_unwind's Err arm sends on the bounded(1) ready channel once
\* more: the send waits while the first message has not been received.
ReportLost(w) ==
    /\ wpc[w] = "lost"
    /\ ~(spc \in {"insert", "ready"} /\ sid = w)
    /\ wpc' = [wpc EXCEPT ![w] = "exit"]
    /\ UNCHANGED <<owner, poolVars, queue, exits, guardVars, faults, spawnVars,
                   supVars, wjob, ready, shutdown, runs, settled, callVars,
                   reply>>

\* The main export settled: its result goes out through early_reply and the
\* worker keeps polling what the job left behind.
MainReplies(w, v) ==
    /\ wpc[w] = "run"
    /\ \E j \in wjob[w] : /\ SendReply(j, v)
                          /\ settled' = [settled EXCEPT ![j] = v]
    /\ wpc' = [wpc EXCEPT ![w] = "tail"]
    /\ UNCHANGED <<owner, poolVars, queue, exits, guardVars, faults, spawnVars,
                   supVars, wjob, ready, shutdown, runs, callVars>>

\* RunSourceOutcome::MainNotReplied(err).
MainNotReplied(w) ==
    /\ wpc[w] = "run"
    /\ \E j \in wjob[w] : SendReply(j, "failed")
    /\ wjob' = [wjob EXCEPT ![w] = {}]
    /\ wpc' = [wpc EXCEPT ![w] = "idle"]
    /\ UNCHANGED <<owner, poolVars, queue, exits, guardVars, faults, spawnVars,
                   supVars, ready, shutdown, runs, settled, callVars>>

\* RunSourceOutcome::MainReplied: nothing is left to send.
TailDone(w) ==
    /\ wpc[w] = "tail"
    /\ wjob' = [wjob EXCEPT ![w] = {}]
    /\ wpc' = [wpc EXCEPT ![w] = "idle"]
    /\ UNCHANGED <<owner, poolVars, queue, exits, guardVars, faults, spawnVars,
                   supVars, ready, shutdown, runs, settled, callVars, reply>>

JobPanics(w) ==
    /\ wpc[w] \in {"run", "tail"}
    /\ Fault
    /\ wpc' = [wpc EXCEPT ![w] = "panicked"]
    /\ UNCHANGED <<owner, poolVars, queue, exits, guardVars, spawnVars, supVars,
                   wjob, ready, shutdown, runs, settled, callVars, reply>>

\* Mutant: the job of a panicked worker is queued again.
ReportPanicMutRequeue(w) ==
    /\ wpc[w] = "panicked"
    /\ \E j \in wjob[w] : queue' = Append(queue, j)
    /\ wjob' = [wjob EXCEPT ![w] = {}]
    /\ wpc' = [wpc EXCEPT ![w] = "exit"]
    /\ UNCHANGED <<owner, poolVars, exits, guardVars, faults, spawnVars, supVars,
                   ready, shutdown, runs, settled, callVars, reply>>

\* The inner catch_unwind's Err arm.  After an early reply the send waits for
\* the caller to make room or to leave.
ReportPanic(w) ==
    /\ wpc[w] = "panicked"
    /\ \E j \in wjob[w] : SendReply(j, "panic")
    /\ wjob' = [wjob EXCEPT ![w] = {}]
    /\ wpc' = [wpc EXCEPT ![w] = "exit"]
    /\ UNCHANGED <<owner, poolVars, queue, exits, guardVars, faults, spawnVars,
                   supVars, ready, shutdown, runs, settled, callVars>>

SendExit(w) ==
    /\ wpc[w] = "exit"
    /\ exits' = Append(exits, w)
    /\ wpc' = [wpc EXCEPT ![w] = "ending"]
    /\ UNCHANGED <<owner, poolVars, queue, guardVars, faults, spawnVars, supVars,
                   wjob, ready, shutdown, runs, settled, callVars, reply>>

ThreadEnds(w) ==
    /\ wpc[w] = "ending"
    /\ wpc' = [wpc EXCEPT ![w] = "finished"]
    /\ UNCHANGED <<owner, poolVars, queue, exits, guardVars, faults, spawnVars,
                   supVars, wjob, ready, shutdown, runs, settled, callVars,
                   reply>>

-----------------------------------------------------------------------------
(***************************************************************************)
(* A call of run (mode "run") or run_nonblocking_enqueue (mode "try").     *)
(* The shared state owns both ends of the job channel, so a send on it     *)
(* never finds it disconnected.                                            *)
(***************************************************************************)

CallKeeps == <<owner, poolVars, exits, guardVars, faults, spawnVars, supVars,
               workerVars>>

\* The call returns r: its locals and its end of the reply channel go.
Return(j, r) ==
    /\ cpc' = [cpc EXCEPT ![j] = "returned"]
    /\ result' = [result EXCEPT ![j] = r]
    /\ reply' = [reply EXCEPT ![j] = {}]
    /\ mode' = [mode EXCEPT ![j] = "run"]
    /\ limited' = [limited EXCEPT ![j] = FALSE]
    /\ passed' = [passed EXCEPT ![j] = FALSE]

Goto(j, pc) ==
    /\ cpc' = [cpc EXCEPT ![j] = pc]
    /\ UNCHANGED <<result, reply, mode, limited, passed>>

\* The pool is only dropped when no call is in progress, so a call that
\* starts finds it open.
Call(j, m) ==
    /\ cpc[j] = "start"
    /\ owner = "open"
    /\ IF closed
       THEN Return(j, "pool_closed")
       ELSE /\ cpc' = [cpc EXCEPT ![j] = "blocked"]
            /\ mode' = [mode EXCEPT ![j] = m]
            /\ UNCHANGED <<result, reply, limited, passed>>
    /\ UNCHANGED <<CallKeeps, queue, canceled, found>>

CallCheckBlocked(j) ==
    /\ cpc[j] = "blocked"
    /\ Goto(j, IF blocked THEN "reap" ELSE "deadline")
    /\ UNCHANGED <<CallKeeps, queue, canceled, found>>

\* Mutant: the reap collects running threads as well.
CallReapMutAll(j) ==
    /\ cpc[j] = "reap"
    /\ found' = [found EXCEPT ![j] = map]
    /\ Goto(j, IF found'[j] = {} THEN "count" ELSE "remove")
    /\ UNCHANGED <<CallKeeps, queue, canceled>>

\* live_workers, as the supervisor calls it: collect, remove, count.
CallReap(j) ==
    /\ cpc[j] = "reap"
    /\ found' = [found EXCEPT ![j] = {w \in map : Finished(w)}]
    /\ Goto(j, IF found'[j] = {} THEN "count" ELSE "remove")
    /\ UNCHANGED <<CallKeeps, queue, canceled>>

CallRemove(j) ==
    /\ cpc[j] = "remove"
    /\ map' = map \ found[j]
    /\ found' = [found EXCEPT ![j] = {}]
    /\ Goto(j, "count")
    /\ UNCHANGED <<owner, closed, blocked, nextId, exits, guardVars, faults,
                   spawnVars, supVars, workerVars, queue, canceled>>

CallCount(j) ==
    /\ cpc[j] = "count"
    /\ IF map = {} THEN Return(j, "unavailable") ELSE Goto(j, "deadline")
    /\ UNCHANGED <<CallKeeps, queue, canceled, found>>

CallDeadline(j) ==
    /\ cpc[j] = "deadline"
    /\ Goto(j, IF mode[j] = "run" THEN "precheck" ELSE "enqueue")
    /\ UNCHANGED <<CallKeeps, queue, canceled, found>>

\* deadline_from_timeout: the job's run_timeout does not fit the clock.
CallDeadlineOverflows(j) ==
    /\ cpc[j] = "deadline"
    /\ Return(j, "runtime_pool")
    /\ UNCHANGED <<CallKeeps, queue, canceled, found>>

\* Time passes: the deadline of a call that has one is reached.
DeadlinePasses(j) ==
    /\ cpc[j] \in {"precheck", "enqueue", "accepted", "await"}
    /\ ~passed[j]
    /\ passed' = [passed EXCEPT ![j] = TRUE]
    /\ UNCHANGED <<CallKeeps, queue, cpc, mode, limited, canceled, found, result,
                   reply>>

\* Which of enqueue_timeout and the remaining run budget is the shorter
\* depends on the configuration and on the clock.
CallPrecheck(j) ==
    /\ cpc[j] = "precheck"
    /\ IF passed[j]
       THEN /\ canceled' = [canceled EXCEPT ![j] = TRUE]
            /\ Return(j, "run_timeout")
       ELSE /\ \E b \in BOOLEAN : limited' = [limited EXCEPT ![j] = b]
            /\ cpc' = [cpc EXCEPT ![j] = "enqueue"]
            /\ UNCHANGED <<result, reply, mode, passed, canceled>>
    /\ UNCHANGED <<CallKeeps, queue, found>>

Enqueue(j) ==
    /\ cpc[j] = "enqueue"
    /\ Len(queue) < QueueCapacity
    /\ queue' = Append(queue, j)
    /\ Goto(j, "accepted")
    /\ UNCHANGED <<CallKeeps, canceled, found>>

\* Mutant: the message of a timed-out send stays queued.
EnqueueTimesOutMutKeeps(j) ==
    /\ cpc[j] = "enqueue"
    /\ mode[j] = "run"
    /\ Len(queue) >= QueueCapacity
    /\ limited[j] => passed[j]
    /\ Return(j, IF limited[j] THEN "run_timeout" ELSE "queue_timeout")
    /\ canceled' = [canceled EXCEPT ![j] = limited[j]]
    /\ queue' = Append(queue, j)
    /\ UNCHANGED <<CallKeeps, found>>

\* send_timeout gives up on a full queue: at the run deadline if that is what
\* limits the wait, at enqueue_timeout, some time before it, otherwise.
EnqueueTimesOut(j) ==
    /\ cpc[j] = "enqueue"
    /\ mode[j] = "run"
    /\ Len(queue) >= QueueCapacity
    /\ IF limited[j]
       THEN /\ passed[j]
            /\ canceled' = [canceled EXCEPT ![j] = TRUE]
            /\ Return(j, "run_timeout")
       ELSE /\ Return(j, "queue_timeout")
            /\ UNCHANGED canceled
    /\ UNCHANGED <<CallKeeps, queue, found>>

\* try_send finds the queue full.
EnqueueRefused(j) ==
    /\ cpc[j] = "enqueue"
    /\ mode[j] = "try"
    /\ Len(queue) >= QueueCapacity
    /\ Return(j, "queue_full")
    /\ UNCHANGED <<CallKeeps, queue, canceled, found>>

CallCheckRemaining(j) ==
    /\ cpc[j] = "accepted"
    /\ Goto(j, IF passed[j] THEN "cancel" ELSE "await")
    /\ UNCHANGED <<CallKeeps, queue, canceled, found>>

ReceiveReply(j) ==
    /\ cpc[j] = "await"
    /\ \E v \in reply[j] : Return(j, v)
    /\ UNCHANGED <<CallKeeps, queue, canceled, found>>

\* Mutant: recv instead of recv_timeout.
ReceiveTimesOutMutNever(j) == FALSE

\* recv_timeout finds the channel empty at the deadline; the flag is stored
\* in a later step.
ReceiveTimesOut(j) ==
    /\ cpc[j] = "await"
    /\ passed[j]
    /\ reply[j] = {}
    /\ Goto(j, "cancel")
    /\ UNCHANGED <<CallKeeps, queue, canceled, found>>

\* Mutant: the cancellation flag is not stored.
CancelJobMutForgets(j) ==
    /\ cpc[j] = "cancel"
    /\ Return(j, "run_timeout")
    /\ UNCHANGED <<CallKeeps, queue, canceled, found>>

CancelJob(j) ==
    /\ cpc[j] = "cancel"
    /\ canceled' = [canceled EXCEPT ![j] = TRUE]
    /\ Return(j, "run_timeout")
    /\ UNCHANGED <<CallKeeps, queue, found>>

\* Every reply sender is gone and nothing was sent.
ReplyDropped(j) ==
    /\ cpc[j] = "await"
    /\ reply[j] = {}
    /\ ~SenderAlive(j)
    /\ Return(j, "unavailable")
    /\ UNCHANGED <<CallKeeps, queue, canceled, found>>

-----------------------------------------------------------------------------
SpawnStep ==
    \/ SpawnThread \/ SpawnInsert \/ SpawnReady \/ SpawnNotReady \/ SpawnJoin

TeardownStep ==
    \/ MarkClosed \/ DrainJob \/ SignalWorkers \/ SignalSupervisor
    \/ JoinSupervisor \/ JoinWorkers

SupStep ==
    \/ SupShutdown \/ SupExitEvent \/ SupJoin \/ SupTick \/ SupCheckClosed
    \/ ReconcileCheckClosed \/ ReconcileReap \/ ReconcileRemove
    \/ ReconcileCount \/ ReconcileAttempt \/ ReconcileDone

WorkerStep(w) ==
    \/ WorkerInitOk(w) \/ WorkerShutdown(w) \/ TakeJob(w) \/ SkipCanceled(w)
    \/ StartJob(w) \/ MainReplies(w, "ok") \/ MainReplies(w, "failed")
    \/ MainNotReplied(w) \/ TailDone(w) \/ ReportPanic(w) \/ ReportLost(w)
    \/ SendExit(w) \/ ThreadEnds(w)

WorkerFault(w) == WorkerInitFails(w) \/ LoopPanics(w) \/ JobPanics(w)

CallStep(j) ==
    \/ CallCheckBlocked(j) \/ CallReap(j) \/ CallRemove(j) \/ CallCount(j)
    \/ CallDeadline(j) \/ CallDeadlineOverflows(j) \/ CallPrecheck(j)
    \/ Enqueue(j) \/ EnqueueTimesOut(j) \/ EnqueueRefused(j)
    \/ CallCheckRemaining(j) \/ ReceiveReply(j) \/ ReceiveTimesOut(j)
    \/ CancelJob(j) \/ ReplyDropped(j)

Next ==
    \/ SpawnStep \/ SpawnThreadFails
    \/ BuildSupervisor \/ BuildSupervisorFails
    \/ BeginDrop \/ TeardownStep
    \/ SupStep \/ WindowElapses
    \/ \E w \in WorkerIds : WorkerStep(w) \/ WorkerFault(w)
    \/ \E j \in Jobs : \/ Call(j, "run") \/ Call(j, "try")
                       \/ CallStep(j) \/ DeadlinePasses(j)

Spec == Init /\ [][Next]_vars

(***************************************************************************)
(* Fairness: every thread of the pool keeps running (the OS schedules it), *)
(* a started job ends (the execution limits stop it), clocks advance.      *)
(* Nothing makes a client call or drop the pool, or a fault happen.        *)
(***************************************************************************)
CallerFairness ==
    \A j \in Jobs : WF_vars(CallStep(j)) /\ WF_vars(DeadlinePasses(j))

PoolFairness ==
    /\ WF_vars(SpawnStep)
    /\ WF_vars(BuildSupervisor)
    /\ WF_vars(TeardownStep)
    /\ WF_vars(SupStep)
    /\ WF_vars(WindowElapses)
    /\ \A w \in WorkerIds : WF_vars(WorkerStep(w))

FairSpec == Spec /\ CallerFairness /\ PoolFairness

-----------------------------------------------------------------------------
\* The types of the flags.
FlagsOK ==
    /\ closed \in BOOLEAN
    /\ blocked \in BOOLEAN
    /\ limited \in [Jobs -> BOOLEAN]
    /\ passed \in [Jobs -> BOOLEAN]
    /\ canceled \in [Jobs -> BOOLEAN]

\* The types of everything else; the restart guard never remembers more than
\* MaxRestarts attempts, and never more workers are missing than there
\* should be.
StateOK ==
    /\ owner \in OwnerStates
    /\ map \in SUBSET WorkerIds
    /\ nextId \in 0..MaxSpawns
    /\ queue \in Seq(Jobs)
    /\ exits \in Seq(WorkerIds)
    /\ attempts \in 0..MaxRestarts
    /\ expired \in 0..attempts
    /\ faults \in 0..MaxFaults
    /\ spc \in SpawnStates
    /\ sid \in Nat
    /\ missing \in 0..WorkerCount
    /\ sup \in SupStates
    /\ joining \in SUBSET WorkerIds
    /\ supFound \in SUBSET WorkerIds
    /\ wpc \in [WorkerIds -> WorkerStates]
    /\ wjob \in [WorkerIds -> SUBSET Jobs]
    /\ ready \in [WorkerIds -> {"none", "ok", "err"}]
    /\ shutdown \in SUBSET WorkerIds
    /\ runs \in [Jobs -> Nat]
    /\ settled \in [Jobs -> {"none", "ok", "failed"}]
    /\ cpc \in [Jobs -> CallStates]
    /\ mode \in [Jobs -> {"run", "try"}]
    /\ found \in [Jobs -> SUBSET WorkerIds]
    /\ reply \in [Jobs -> SUBSET ReplyValues]
    /\ result \in [Jobs -> Results \cup {"none"}]

\* The type invariant of the pool's shared state, threads and calls.
TypeOK == FlagsOK /\ StateOK

-----------------------------------------------------------------------------
(***************************************************************************)
(* Safety.                                                                 *)
(***************************************************************************)

InQueue(j) == \E i \in DOMAIN queue : queue[i] = j

Held(j) == \E w \in WorkerIds : j \in wjob[w]

\* A job's source is evaluated at most once, whatever panics, restarts,
\* timeouts and concurrent workers do: a lost worker's job is not retried
\* (the worker loop, shared.rs, owns the message it received).
AtMostOnce == \A j \in Jobs : runs[j] <= 1

\* A call refused before its job was queued (QueueFull, QueueTimeout, an
\* unrepresentable deadline) leaves nothing behind: the job is not queued,
\* not held by a worker and has not run (run, run_nonblocking_enqueue).
RefusedLeavesNothing ==
    \A j \in Jobs :
        result[j] \in {"queue_full", "queue_timeout", "runtime_pool"}
            => ~InQueue(j) /\ ~Held(j) /\ runs[j] = 0

\* The first reply is the one the caller gets: once the main export has
\* replied, a panic while the worker polls the job's leftovers cannot turn
\* the call's outcome into WorkerPanic, and Ok only ever comes from the main
\* export (early_reply against the catch_unwind arm, shared.rs).
MainReplyWins ==
    \A j \in Jobs :
        /\ settled[j] # "none" /\ result[j] \in ReplyValues
               => result[j] = settled[j]
        /\ result[j] = "ok" => settled[j] = "ok"

\* At most desired_worker_count threads ever execute jobs at once, and the
\* handle map never outgrows it, although callers, the supervisor's events
\* and its reconcile loop remove and add handles concurrently and the loop
\* counts only once (reconcile_workers, reap_finished_workers).
BoundedWorkers ==
    /\ Cardinality(Serving) <= WorkerCount
    /\ Cardinality(map) <= WorkerCount

\* Every thread that has not finished can still be stopped and joined: its
\* handle is in the map, with the spawn_worker call that made it, or with the
\* supervisor that is joining it.  Callers, the supervisor and a failed spawn
\* take handles out of the map at the same time and none detaches a running
\* thread (reap_finished_workers, remove_worker_handle, the exit-event arm).
HandlesAccountedFor ==
    \A w \in WorkerIds :
        wpc[w] \notin {"none", "finished"}
            => \/ w \in map \cup joining
               \/ spc \in {"insert", "join"} /\ sid = w

\* When drop (of the pool, or of the guard of a failed construction) is
\* over, no thread of the pool is left and no job is queued (drop_impl.rs,
\* constructor.rs).
CleanTeardown ==
    owner = "gone" =>
        /\ \A w \in WorkerIds : wpc[w] \in {"none", "finished"}
        /\ sup \in {"none", "done"}
        /\ queue = <<>>

\* No job passes the worker's cancellation check after its call has
\* returned: whoever gave up on a queued job has canceled it first
\* (canceled.store before every RunTimeout return, is_canceled in the loop).
NoStartAfterReturn ==
    [][\A j \in Jobs : runs'[j] # runs[j] => cpc[j] # "returned"]_vars

-----------------------------------------------------------------------------
(***************************************************************************)
(* Liveness.                                                               *)
(***************************************************************************)

\* Every call returns, even if no worker and no supervisor ever runs again
\* (the timeouts of run and run_nonblocking_enqueue).
EveryCallReturns ==
    \A j \in Jobs : (cpc[j] # "start") ~> (cpc[j] = "returned")

\* A pool that lost workers gets them all back once faults stop, although
\* the restart guard may refuse for a while and no further exit event comes
\* (the supervisor's tick, api.rs).
PoolRecovers ==
    (owner = "open" /\ Cardinality(Serving) < WorkerCount)
        ~> (owner # "open" \/ Cardinality(Serving) = WorkerCount)

\* As long as the pool's threads run, no job stays in the queue forever,
\* abandoned ones included: lost workers are replaced and the worker loop
\* receives canceled jobs too (shared.rs).
QueueDrains ==
    PoolFairness => \A j \in Jobs : InQueue(j) ~> ~InQueue(j)

\* A drop whose close flag is seen by the supervisor's checks finishes:
\* workers and supervisor are all told to stop and are joined (drop_impl.rs,
\* is_closed in the supervisor and in reconcile_workers).
DropCompletesWhenSeen ==
    (owner = "drain" /\ sup \in {"none", "select", "join", "closed", "reconcile"})
        ~> (owner = "gone")

\* Every drop finishes: workers and supervisor observe the closed pool and
\* are joined, as docs/behavior.md has it under Shutdown (drop_impl.rs).
DropCompletes == (owner = "close") ~> (owner = "gone")
====
