---------------------------- MODULE PoolMetrics ----------------------------
(***************************************************************************)
(* The metrics of the worker pool (pool/metrics.rs) and the places that    *)
(* record them.  A gauge is set with a value that was read earlier: the    *)
(* read (or the atomic update) and the publication are two steps, and      *)
(* other threads run between them.  The number of tracked workers is the   *)
(* exception: it is published while the lock of the handle map is held.    *)
(*                                                                         *)
(* The pool is reduced to what its metrics see: calls that enqueue and     *)
(* wait, workers that take and run jobs, the supervisor that replaces      *)
(* workers that are gone, and the teardown.  WorkerPool has the rest,      *)
(* among it the worker that is inserted while the pool closes.             *)
(***************************************************************************)
EXTENDS Integers, Sequences, FiniteSets

CONSTANTS
    Calls,      \* the calls made on the pool
    Workers,    \* the worker ids handed out over the pool's life
    FirstIds,   \* those of the workers that new() starts
    Capacity    \* the capacity of the job queue

VARIABLES
    owner,      \* control of the thread that drops the pool
    queue,      \* the calls whose jobs are in the job channel
    map,        \* keys of the handle map
    busy,       \* shared.busy_workers
    cpc,        \* control of each call
    canceled,   \* the cancellation flag of each job
    reply,      \* the reply channel of each call
    wpc,        \* control of each worker
    wjob,       \* the job (0 or 1) each worker holds
    lost,       \* workers whose loop a panic has ended, until they exit
    seen,       \* the value each thread is about to publish
    depthGauge, \* mechanics_jobs_queue_depth
    totalGauge, \* mechanics_pool_workers_total
    busyGauge,  \* mechanics_pool_workers_busy
    accepted,   \* mechanics_jobs_accepted_total
    completed   \* mechanics_jobs_completed_total, by outcome

callVars == <<cpc, canceled>>
workerVars == <<wpc, wjob, lost>>
counters == <<accepted, completed>>
gauges == <<depthGauge, totalGauge, busyGauge>>
vars == <<owner, queue, map, busy, callVars, reply, workerVars, seen, gauges, counters>>

\* The threads that publish what they read.
Threads == Calls \cup Workers \cup {"owner"}

\* desired_worker_count.
Desired == Cardinality(FirstIds)

ASSUME MetricsAssumption ==
    /\ IsFiniteSet(Calls) /\ IsFiniteSet(Workers)
    /\ FirstIds \subseteq Workers /\ FirstIds # {}
    /\ Capacity \in Nat \ {0}
    /\ "owner" \notin Calls \cup Workers /\ Calls \cap Workers = {}

Outcomes == {"ok", "failed", "timeout", "cancelled"}

\* The results a worker sends: Ok, or an error of this kind.
Results == {"Ok", "Execution", "Panic", "Canceled"}

OutcomeOf(kind) ==
    CASE kind = "Ok" -> "ok"
      [] kind \in {"RunTimeout", "QueueTimeout"} -> "timeout"
      [] kind = "Canceled" -> "cancelled"
      [] OTHER -> "failed"

Init ==
    /\ owner = "open"
    /\ queue = <<>>
    /\ map = FirstIds
    /\ busy = 0
    /\ cpc = [c \in Calls |-> "start"]
    /\ canceled = [c \in Calls |-> FALSE]
    /\ reply = [c \in Calls |-> "none"]
    /\ wpc = [w \in Workers |-> IF w \in FirstIds THEN "idle" ELSE "none"]
    /\ wjob = [w \in Workers |-> {}]
    /\ lost = {}
    /\ seen = [t \in Threads |-> 0]
    /\ depthGauge = 0 /\ totalGauge = Desired /\ busyGauge = 0
    /\ accepted = 0
    /\ completed = [o \in Outcomes |-> 0]

-----------------------------------------------------------------------------
(* A call, from the send on the job channel on.                            *)

Goto(c, pc) == cpc' = [cpc EXCEPT ![c] = pc]

Sees(t, n) == seen' = [seen EXCEPT ![t] = n]

\* A published value is not needed any more.
record_queue_depth(t) == depthGauge' = seen[t] /\ Sees(t, 0)

Send(c) ==
    /\ owner = "open" /\ cpc[c] = "start"
    /\ Len(queue) < Capacity
    /\ queue' = Append(queue, c)
    /\ Goto(c, "sent")
    /\ UNCHANGED <<owner, map, busy, canceled, reply, workerVars, seen, gauges, counters>>

\* The queue is or stays full, or the run deadline passes first: the job was
\* never accepted.
SendFails(c) ==
    /\ owner = "open" /\ cpc[c] = "start"
    /\ Goto(c, "returned")
    /\ UNCHANGED <<owner, queue, map, busy, canceled, reply, workerVars, seen, gauges,
                   counters>>

ReadDepth(c) ==
    /\ cpc[c] = "sent"
    /\ Sees(c, Len(queue))
    /\ Goto(c, "read")
    /\ UNCHANGED <<owner, queue, map, busy, canceled, reply, workerVars, gauges, counters>>

record_job_accepted(c) ==
    /\ cpc[c] = "read"
    /\ accepted' = accepted + 1
    /\ record_queue_depth(c)
    /\ Goto(c, "await")
    /\ UNCHANGED <<owner, queue, map, busy, canceled, reply, workerVars, totalGauge,
                   busyGauge, completed>>

record_job_completed(outcome) == completed' = [completed EXCEPT ![outcome] = @ + 1]

Receive(c) ==
    /\ cpc[c] = "await" /\ reply[c] # "none"
    /\ record_job_completed(OutcomeOf(reply[c]))
    /\ reply' = [reply EXCEPT ![c] = "none"]
    /\ Goto(c, "returned")
    /\ UNCHANGED <<owner, queue, map, busy, canceled, workerVars, seen, gauges, accepted>>

\* The run deadline has passed, before or during the wait for the reply; the
\* receiver is dropped with what it may hold.
TimesOut(c) ==
    /\ cpc[c] = "await"
    /\ canceled' = [canceled EXCEPT ![c] = TRUE]
    /\ record_job_completed("timeout")
    /\ reply' = [reply EXCEPT ![c] = "none"]
    /\ Goto(c, "returned")
    /\ UNCHANGED <<owner, queue, map, busy, workerVars, seen, gauges, accepted>>

\* Every sender of the reply channel is gone and nothing was sent.
SendersGone(c) ==
    /\ reply[c] = "none"
    /\ \A i \in DOMAIN queue : queue[i] # c
    /\ \A w \in Workers : c \notin wjob[w]

\* Mutant: the job without an answer is not counted.
WorkerGoneMutUncounted(c) ==
    /\ cpc[c] = "await" /\ SendersGone(c)
    /\ Goto(c, "returned")
    /\ UNCHANGED <<owner, queue, map, busy, canceled, reply, workerVars, seen, gauges,
                   counters>>

WorkerGone(c) ==
    /\ cpc[c] = "await" /\ SendersGone(c)
    /\ record_job_completed("failed")
    /\ Goto(c, "returned")
    /\ UNCHANGED <<owner, queue, map, busy, canceled, reply, workerVars, seen, gauges,
                   accepted>>

-----------------------------------------------------------------------------
(* A worker.                                                               *)

GotoW(w, pc) == wpc' = [wpc EXCEPT ![w] = pc]

\* A send to a caller that has returned is lost.
SendReply(c, result) ==
    IF cpc[c] = "returned" THEN UNCHANGED reply ELSE reply' = [reply EXCEPT ![c] = result]

Take(w) ==
    /\ wpc[w] = "idle" /\ queue # <<>>
    /\ queue' = Tail(queue)
    /\ wjob' = [wjob EXCEPT ![w] = {Head(queue)}]
    /\ GotoW(w, "took")
    /\ UNCHANGED <<owner, map, busy, callVars, reply, lost, seen, gauges, counters>>

ReadLen(w) ==
    /\ wpc[w] = "took"
    /\ Sees(w, Len(queue))
    /\ GotoW(w, "read")
    /\ UNCHANGED <<owner, queue, map, busy, callVars, reply, wjob, lost, gauges, counters>>

PublishLen(w) ==
    /\ wpc[w] = "read"
    /\ record_queue_depth(w)
    /\ GotoW(w, "check")
    /\ UNCHANGED <<owner, queue, map, busy, callVars, reply, wjob, lost, totalGauge,
                   busyGauge, counters>>

\* is_canceled(): the job is answered without being run.
SkipCanceled(w) ==
    /\ wpc[w] = "check"
    /\ \E c \in wjob[w] : canceled[c] /\ SendReply(c, "Canceled")
    /\ wjob' = [wjob EXCEPT ![w] = {}]
    /\ GotoW(w, "idle")
    /\ UNCHANGED <<owner, queue, map, busy, callVars, lost, seen, gauges, counters>>

\* A panic outside the run of the job: the job is dropped with its sender.
LoseJob(w) ==
    /\ wpc[w] = "check"
    /\ wjob' = [wjob EXCEPT ![w] = {}]
    /\ GotoW(w, "exit")
    /\ UNCHANGED <<owner, queue, map, busy, callVars, reply, lost, seen, gauges, counters>>

\* WorkerBusyGuard::start, up to the publication.
StartBusy(w) ==
    /\ wpc[w] = "check"
    /\ \A c \in wjob[w] : ~canceled[c]
    /\ busy' = busy + 1
    /\ Sees(w, busy')
    /\ GotoW(w, "up")
    /\ UNCHANGED <<owner, queue, map, callVars, reply, wjob, lost, gauges, counters>>

record_pool_workers_busy(w) == busyGauge' = seen[w] /\ Sees(w, 0)

PublishUp(w) ==
    /\ wpc[w] = "up"
    /\ record_pool_workers_busy(w)
    /\ GotoW(w, "run")
    /\ UNCHANGED <<owner, queue, map, busy, callVars, reply, wjob, lost, depthGauge,
                   totalGauge, counters>>

\* The job is run and its result sent; a panic is sent too and ends the loop.
\* A panic of the tail, after the main result was sent, ends it as well, and
\* its report does not reach the caller.
RunJob(w) ==
    /\ wpc[w] = "run"
    /\ \E c \in wjob[w], r \in {"Ok", "Execution", "Panic"} :
          /\ SendReply(c, r)
          /\ lost' \in {lost \cup {w}} \cup (IF r = "Panic" THEN {} ELSE {lost})
    /\ wjob' = [wjob EXCEPT ![w] = {}]
    /\ GotoW(w, "drop")
    /\ UNCHANGED <<owner, queue, map, busy, callVars, seen, gauges, counters>>

\* Mutant: the guard of a worker that panicked is not dropped.
EndBusyMutLeak(w) ==
    /\ wpc[w] = "drop"
    /\ busy' = IF w \in lost THEN busy ELSE busy - 1
    /\ Sees(w, busy')
    /\ GotoW(w, "down")
    /\ UNCHANGED <<owner, queue, map, callVars, reply, wjob, lost, gauges, counters>>

\* WorkerBusyGuard's drop, after the reply was sent, up to the publication.
EndBusy(w) ==
    /\ wpc[w] = "drop"
    /\ busy' = IF busy = 0 THEN 0 ELSE busy - 1
    /\ Sees(w, busy')
    /\ GotoW(w, "down")
    /\ UNCHANGED <<owner, queue, map, callVars, reply, wjob, lost, gauges, counters>>

PublishDown(w) ==
    /\ wpc[w] = "down"
    /\ record_pool_workers_busy(w)
    /\ GotoW(w, IF w \in lost THEN "exit" ELSE "idle")
    /\ lost' = lost \ {w}
    /\ UNCHANGED <<owner, queue, map, busy, callVars, reply, wjob, depthGauge, totalGauge,
                   counters>>

\* The shutdown message of an idle worker.
Shutdown(w) ==
    /\ wpc[w] = "idle" /\ owner \in {"stop", "join"}
    /\ GotoW(w, "exit")
    /\ UNCHANGED <<owner, queue, map, busy, callVars, reply, wjob, lost, seen, gauges,
                   counters>>

-----------------------------------------------------------------------------
(* The handle map: the supervisor, and the calls that reap.                *)

\* Mutant: the removal is not recorded.
RemoveHandleMutSilent(w) ==
    /\ owner # "join" /\ w \in map /\ wpc[w] = "exit"
    /\ map' = map \ {w}
    /\ UNCHANGED <<owner, queue, busy, callVars, reply, workerVars, seen, gauges, counters>>

\* The map is changed and the gauge set under one write lock.
RemoveHandle(w) ==
    /\ owner # "join" /\ w \in map /\ wpc[w] = "exit"
    /\ map' = map \ {w}
    /\ totalGauge' = Cardinality(map')
    /\ UNCHANGED <<owner, queue, busy, callVars, reply, workerVars, seen, depthGauge,
                   busyGauge, counters>>

\* A worker whose runtime cannot be built ends at once, and its handle is
\* removed again.
SpawnWorker(w) ==
    /\ owner = "open" /\ wpc[w] = "none" /\ Cardinality(map) < Desired
    /\ map' = map \cup {w}
    /\ totalGauge' = Cardinality(map')
    /\ GotoW(w, "idle") \/ GotoW(w, "exit")
    /\ UNCHANGED <<owner, queue, busy, callVars, reply, wjob, lost, seen, depthGauge,
                   busyGauge, counters>>

-----------------------------------------------------------------------------
(* Drop.  It needs the pool for itself: no call is in progress.            *)

GotoO(pc) == owner' = pc

Close ==
    /\ owner = "open" /\ \A c \in Calls : cpc[c] \in {"start", "returned"}
    /\ GotoO("drain")
    /\ UNCHANGED <<queue, map, busy, callVars, reply, workerVars, seen, gauges, counters>>

\* Nobody waits for the reply that is sent to a drained job.
DrainOne ==
    /\ owner = "drain" /\ queue # <<>>
    /\ queue' = Tail(queue)
    /\ GotoO("drained")
    /\ UNCHANGED <<map, busy, callVars, reply, workerVars, seen, gauges, counters>>

DrainRead ==
    /\ owner = "drained"
    /\ Sees("owner", Len(queue))
    /\ GotoO("read")
    /\ UNCHANGED <<queue, map, busy, callVars, reply, workerVars, gauges, counters>>

DrainPublish ==
    /\ owner = "read"
    /\ record_queue_depth("owner")
    /\ GotoO("drain")
    /\ UNCHANGED <<queue, map, busy, callVars, reply, workerVars, totalGauge, busyGauge,
                   counters>>

RequestShutdown ==
    /\ owner = "drain" /\ queue = <<>>
    /\ GotoO("stop")
    /\ UNCHANGED <<queue, map, busy, callVars, reply, workerVars, seen, gauges, counters>>

\* The supervisor has ended: nobody else changes the map from here on.
JoinSupervisor ==
    /\ owner = "stop"
    /\ GotoO("join")
    /\ UNCHANGED <<queue, map, busy, callVars, reply, workerVars, seen, gauges, counters>>

JoinWorkers ==
    /\ owner = "join" /\ \A w \in map : wpc[w] = "exit"
    /\ map' = {}
    /\ totalGauge' = 0
    /\ GotoO("gone")
    /\ UNCHANGED <<queue, busy, callVars, reply, workerVars, seen, depthGauge, busyGauge,
                   counters>>

Call(c) == \/ Send(c) \/ SendFails(c) \/ ReadDepth(c) \/ record_job_accepted(c)
           \/ Receive(c) \/ TimesOut(c) \/ WorkerGone(c)
Worker(w) == \/ Take(w) \/ ReadLen(w) \/ PublishLen(w) \/ SkipCanceled(w) \/ LoseJob(w)
             \/ StartBusy(w) \/ PublishUp(w) \/ RunJob(w) \/ EndBusy(w) \/ PublishDown(w)
             \/ Shutdown(w)
Supervisor == \E w \in Workers : RemoveHandle(w) \/ SpawnWorker(w)
Owner == \/ Close \/ DrainOne \/ DrainRead \/ DrainPublish \/ RequestShutdown
         \/ JoinSupervisor \/ JoinWorkers

Next == (\E c \in Calls : Call(c)) \/ (\E w \in Workers : Worker(w)) \/ Supervisor \/ Owner

Spec == Init /\ [][Next]_vars

-----------------------------------------------------------------------------
(* Properties.                                                             *)

\* The counter behind the busy gauge is the number of workers that hold a
\* guard, also after panics, and every one of them is still tracked: so the
\* count never exceeds the number of tracked workers.
BusyCountsGuards ==
    LET holders == {w \in Workers : wpc[w] \in {"up", "run", "drop"}}
    IN busy = Cardinality(holders) /\ holders \subseteq map

\* Every job counted as accepted is counted as completed exactly once, with
\* one outcome, when its call returns; at the end the two totals agree.  No
\* outcome is "cancelled": the flag is set only by a call that returns RunTimeout
\* and counts its job as timed out, so nobody receives the Canceled reply.
AcceptedOrCompleted ==
    LET total == completed["ok"] + completed["failed"] + completed["timeout"]
                    + completed["cancelled"]
        waiting == {c \in Calls : cpc[c] = "await"}
    IN accepted = total + Cardinality(waiting) /\ completed["cancelled"] = 0

\* The gauge of tracked workers is the size of the handle map in every state
\* in which the map's lock is free, whichever threads spawned, reaped or
\* removed workers, and is zero once the pool is gone.
WorkersTotalIsExact == totalGauge = Cardinality(map)
=============================================================================
