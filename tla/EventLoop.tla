------------------------------ MODULE EventLoop ------------------------------
(***************************************************************************)
(* Queue (src/src/internal/executor.rs): the job executor behind one Boa   *)
(* context.  A single thread runs the loop; the JavaScript it calls may    *)
(* enqueue jobs of every kind, cancel timers and settle the main promise   *)
(* before it returns or throws, and the clock moves all the while.         *)
(*                                                                         *)
(* What a job does is a choice made while it is called, so jobs of one     *)
(* kind are interchangeable and a queue of them is its length.  Instants   *)
(* are whole milliseconds, as the code rounds them.                        *)
(***************************************************************************)
EXTENDS Integers, Sequences, FiniteSets

CONSTANTS
    MaxInstant,  \* the last JsInstant: u64::MAX milliseconds
    Delays,      \* the delays a timer can be given
    MaxJobs      \* bound: jobs of one kind a script keeps queued

ASSUME MaxInstantPositive == MaxInstant \in Nat \ {0}
ASSUME DelaysNat == Delays \subseteq Nat
ASSUME MaxJobsNat == MaxJobs \in Nat

Instants == 1..MaxInstant

VARIABLES
    now,           \* context.clock()
    deadline,      \* self.deadline, 0 for None
    promise_jobs,  \* how many promise jobs are queued
    async_jobs,    \* how many async jobs are queued, not yet started
    generic_jobs,  \* queue of "job", or an error job: "range", "type"
    timeout_jobs,  \* live timers per instant
    cancelled,     \* cancelled timers per instant, still in the map
    group,         \* in-flight futures of the running loop
    pc,            \* where the loop is, "off" when none runs
    until,         \* whether the loop was given a should_stop
    stopped,       \* on_stop has been called
    wake,          \* when the current wait gives up
    due,           \* timers taken by this turn and not called yet
    batch,         \* promise jobs taken by this turn and not called yet
    call,          \* the JavaScript being executed, "none" for none
    exit,          \* how the last loop returned
    main,          \* the default export's promise
    reply,         \* what early_reply was given
    fired          \* history: the instant of the last timer called

queues == <<promise_jobs, async_jobs, generic_jobs, timeout_jobs, cancelled>>
locals == <<group, stopped, wake, due, batch>>
loopVars == <<now, deadline, queues, locals, pc, until, call, exit, main,
              reply, fired>>

NoTimers == [at \in Instants |-> 0]

Init ==
    /\ now = 1 /\ deadline = 0
    /\ promise_jobs = 0 /\ async_jobs = 0 /\ generic_jobs = <<>>
    /\ timeout_jobs = NoTimers /\ cancelled = NoTimers
    /\ group = 0 /\ stopped = FALSE /\ wake = 0 /\ due = NoTimers /\ batch = 0
    /\ pc = "off" /\ until = FALSE /\ call = "none" /\ exit = "none"
    /\ main = "none" /\ reply = "none" /\ fired = 0

Tick ==
    /\ now < MaxInstant
    /\ now' = now + 1
    /\ UNCHANGED <<deadline, queues, locals, pc, until, call, exit, main,
                   reply, fired>>

-----------------------------------------------------------------------------
(* Helpers of the loop *)

\* Mutant: nothing ends the loop but quiescence.
deadline_exceededMutNever == FALSE

deadline_exceeded == deadline # 0 /\ now >= deadline

Keys(f) == {at \in Instants : f[at] > 0}

\* Mutant: timers come out latest first.
FirstKeyMutLast(f) == CHOOSE at \in Keys(f) : \A b \in Keys(f) : b <= at

FirstKey(f) == CHOOSE at \in Keys(f) : \A b \in Keys(f) : at <= b

\* The BTreeMap of timers: cancelled ones stay in it until the next drain.
TimerMap == [at \in Instants |-> timeout_jobs[at] + cancelled[at]]

HasTimer == Keys(TimerMap) # {}

next_timeout_at == FirstKey(TimerMap)

has_due_timeout_job == HasTimer /\ next_timeout_at <= now

\* The instant until which the loop may wait: the first timer or the deadline,
\* whichever comes first (sleep_dur and wait_budget, as an instant).
WaitUntil ==
    LET ends == (IF HasTimer THEN {next_timeout_at} ELSE {})
                    \cup (IF deadline # 0 THEN {deadline} ELSE {})
    IN  CHOOSE t \in ends : \A u \in ends : t <= u

SyncReady == promise_jobs > 0 \/ generic_jobs # <<>>

\* Returning from the loop drops its futures and what the turn had taken.
Exit(how) ==
    /\ pc' = "off" /\ exit' = how
    /\ group' = 0 /\ due' = NoTimers /\ batch' = 0 /\ stopped' = FALSE
    /\ wake' = 0

-----------------------------------------------------------------------------
(* run_jobs_async_until_then_to_quiescence *)

\* The loop is entered with should_stop = "main has settled" or "never".
StartLoop(watchMain) ==
    /\ pc' = "top" /\ until' = watchMain /\ exit' = "none"
    /\ UNCHANGED locals

\* Mutant: the loop forgets that on_stop has been called.
ShouldStopMutAgain == until /\ main # "pending"

\* Mutant: only a fulfilled main is seen.
ShouldStopMutFulfilled == until /\ ~stopped /\ main = "fulfilled"

ShouldStop == until /\ ~stopped /\ main # "pending"

\* on_stop: a rejected main is reported at once, a fulfilled one is converted
\* to JSON first, which may call toJSON functions of the script.
OnStop ==
    /\ pc = "top" /\ call = "none" /\ ShouldStop
    /\ IF main = "fulfilled"
       THEN call' = "convert" /\ UNCHANGED <<stopped, reply>>
       ELSE call' = call /\ stopped' = TRUE /\ reply' = "err"
    /\ UNCHANGED <<now, deadline, queues, group, wake, due, batch, pc, until,
                   exit, main, fired>>

\* The conversion ends and early_reply is called with its result.
Converted ==
    /\ call = "convert"
    /\ call' = "none" /\ stopped' = TRUE
    /\ reply' \in {"ok", "err"}
    /\ UNCHANGED <<now, deadline, queues, group, wake, due, batch, pc, until,
                   exit, main, fired>>

\* Top of a turn: the deadline, the start of the async jobs, quiescence.
Turn ==
    /\ pc = "top" /\ call = "none" /\ ~ShouldStop
    /\ IF deadline_exceeded
       THEN Exit("deadline") /\ UNCHANGED async_jobs
       ELSE /\ async_jobs' = 0
            /\ IF group + async_jobs = 0 /\ ~SyncReady /\ ~HasTimer
               THEN Exit("complete")
               ELSE /\ group' = group + async_jobs /\ pc' = "wait"
                    /\ UNCHANGED <<stopped, wake, due, batch, exit>>
    /\ UNCHANGED <<now, deadline, promise_jobs, generic_jobs, timeout_jobs,
                   cancelled, until, call, main, reply, fired>>

\* The loop sleeps when it has timers only, waits for a future when it has
\* nothing else to run, and goes on at once otherwise.
Wait ==
    /\ pc = "wait"
    /\ IF SyncReady \/ has_due_timeout_job \/ WaitUntil <= now
       THEN pc' = "check" /\ UNCHANGED wake
       ELSE pc' = (IF group = 0 THEN "sleep" ELSE "await") /\ wake' = WaitUntil
    /\ UNCHANGED <<now, deadline, queues, group, stopped, due, batch, until,
                   call, exit, main, reply, fired>>

\* The sleep or the timeout around group.next() elapses.
Woken ==
    /\ pc \in {"sleep", "await"} /\ call = "none" /\ now >= wake
    /\ pc' = "check" /\ wake' = 0
    /\ UNCHANGED <<now, deadline, queues, group, stopped, due, batch, until,
                   call, exit, main, reply, fired>>

\* group.next() polls a future, which may run JavaScript.
Poll ==
    /\ pc = "await" /\ call = "none" /\ group > 0
    /\ call' = "poll"
    /\ UNCHANGED <<now, deadline, queues, locals, pc, until, exit, main,
                   reply, fired>>

\* After the wait the deadline is looked at again; should_stop is not.
CheckAgain ==
    /\ pc = "check"
    /\ IF deadline_exceeded
       THEN Exit("deadline")
       ELSE pc' = "drain" /\ UNCHANGED <<locals, exit>>
    /\ UNCHANGED <<now, deadline, queues, until, call, main, reply, fired>>

Due(at) == at <= now

\* drain_timeout_jobs, up to the calls: cancelled timers leave the map and
\* every due one is taken.
DrainTimeoutJobs ==
    /\ pc = "drain"
    /\ due' = [at \in Instants |-> IF Due(at) THEN timeout_jobs[at] ELSE 0]
    /\ timeout_jobs' =
           [at \in Instants |-> IF Due(at) THEN 0 ELSE timeout_jobs[at]]
    /\ cancelled' = NoTimers
    /\ pc' = "timers"
    /\ UNCHANGED <<now, deadline, promise_jobs, async_jobs, generic_jobs,
                   group, stopped, wake, batch, until, call, exit, main,
                   reply, fired>>

CallTimer ==
    /\ pc = "timers" /\ call = "none" /\ Keys(due) # {}
    /\ due' = [due EXCEPT ![FirstKey(due)] = @ - 1]
    /\ fired' = FirstKey(due)
    /\ call' = "timer"
    /\ UNCHANGED <<now, deadline, queues, group, stopped, wake, batch, pc,
                   until, exit, main, reply>>

\* One generic job per turn.  An error job throws as soon as it is called, and
\* the error leaves the loop.
CallGeneric ==
    /\ pc = "timers" /\ call = "none" /\ Keys(due) = {}
    /\ generic_jobs # <<>>
    /\ generic_jobs' = Tail(generic_jobs)
    /\ IF Head(generic_jobs) = "job"
       THEN call' = "generic" /\ pc' = "take" /\ UNCHANGED <<locals, exit>>
       ELSE call' = call /\ Exit(Head(generic_jobs))
    /\ UNCHANGED <<now, deadline, promise_jobs, async_jobs, timeout_jobs,
                   cancelled, until, main, reply, fired>>

TakePromiseJobs ==
    /\ call = "none"
    /\ \/ pc = "take"
       \/ pc = "timers" /\ Keys(due) = {} /\ generic_jobs = <<>>
    /\ batch' = promise_jobs /\ promise_jobs' = 0
    /\ pc' = "promises"
    /\ UNCHANGED <<now, deadline, async_jobs, generic_jobs, timeout_jobs,
                   cancelled, group, stopped, wake, due, until, call, exit,
                   main, reply, fired>>

\* The turn ends with a yield, back to the top of the loop.
CallPromiseJob ==
    /\ pc = "promises" /\ call = "none"
    /\ IF batch > 0
       THEN call' = "promise" /\ batch' = batch - 1 /\ pc' = pc
       ELSE call' = call /\ batch' = batch /\ pc' = "top"
    /\ UNCHANGED <<now, deadline, queues, group, stopped, wake, due, until,
                   exit, main, reply, fired>>

LoopCalls == {"timer", "generic", "promise", "poll"}

\* A job returns to the loop.  A polled future is ready or still pending, and
\* a pending one gives way to a timeout that has elapsed.
Return ==
    /\ call \in LoopCalls
    /\ call' = "none"
    /\ \/ call # "poll" /\ UNCHANGED <<group, pc, wake>>
       \/ call = "poll" /\ now < wake /\ UNCHANGED <<group, pc, wake>>
       \/ /\ call = "poll" /\ pc' = "check" /\ wake' = 0
          /\ \/ group' = group - 1
             \/ now >= wake /\ UNCHANGED group
    /\ UNCHANGED <<now, deadline, queues, stopped, due, batch, until, exit,
                   main, reply, fired>>

\* A job throws, or a future is ready with an error: the loop returns it.
Throw ==
    /\ call \in LoopCalls
    /\ call' = "none" /\ Exit("error")
    /\ UNCHANGED <<now, deadline, queues, until, main, reply, fired>>

LoopStep ==
    \/ OnStop \/ Turn \/ Wait \/ Woken \/ Poll \/ CheckAgain
    \/ DrainTimeoutJobs \/ CallTimer \/ CallGeneric \/ TakePromiseJobs
    \/ CallPromiseJob

-----------------------------------------------------------------------------
(* What running JavaScript does to the queues: enqueue_job *)

EnqueuePromiseJob ==
    /\ promise_jobs < MaxJobs
    /\ promise_jobs' = promise_jobs + 1
    /\ UNCHANGED <<async_jobs, generic_jobs, timeout_jobs, cancelled>>

EnqueueAsyncJob ==
    /\ async_jobs + group < MaxJobs
    /\ async_jobs' = async_jobs + 1
    /\ UNCHANGED <<promise_jobs, generic_jobs, timeout_jobs, cancelled>>

\* A generic job, or a job of a kind the executor does not know, which is
\* queued as a generic job that throws a TypeError.
EnqueueGenericJob(kind) ==
    /\ Len(generic_jobs) < MaxJobs
    /\ generic_jobs' = Append(generic_jobs, kind)
    /\ UNCHANGED <<promise_jobs, async_jobs, timeout_jobs, cancelled>>

\* A timer whose instant does not fit is queued as a generic job that throws a
\* RangeError.
EnqueueTimeoutJob(delay) ==
    IF now + delay > MaxInstant
    THEN EnqueueGenericJob("range")
    ELSE /\ TimerMap[now + delay] < MaxJobs
         /\ timeout_jobs' = [timeout_jobs EXCEPT ![now + delay] = @ + 1]
         /\ UNCHANGED <<promise_jobs, async_jobs, generic_jobs, cancelled>>

CancelTimer(at) ==
    /\ timeout_jobs[at] > 0
    /\ timeout_jobs' = [timeout_jobs EXCEPT ![at] = @ - 1]
    /\ cancelled' = [cancelled EXCEPT ![at] = @ + 1]
    /\ UNCHANGED <<promise_jobs, async_jobs, generic_jobs>>

ScriptEnqueues ==
    /\ call # "none"
    /\ \/ EnqueuePromiseJob
       \/ EnqueueAsyncJob
       \/ EnqueueGenericJob("job")
       \/ EnqueueGenericJob("type")
       \/ \E delay \in Delays : EnqueueTimeoutJob(delay)
       \/ \E at \in Instants : CancelTimer(at)
    /\ UNCHANGED <<now, deadline, locals, pc, until, call, exit, main, reply,
                   fired>>

\* Mutant: clear_all forgets the timers.
ClearAllMutTimers ==
    /\ promise_jobs' = 0 /\ async_jobs' = 0 /\ generic_jobs' = <<>>
    /\ UNCHANGED <<timeout_jobs, cancelled>>

\* clear_all
ClearAll ==
    /\ promise_jobs' = 0 /\ async_jobs' = 0 /\ generic_jobs' = <<>>
    /\ timeout_jobs' = NoTimers /\ cancelled' = NoTimers
=============================================================================
