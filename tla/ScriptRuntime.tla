---------------------------- MODULE ScriptRuntime ----------------------------
(***************************************************************************)
(* RuntimeInternal (src/src/internal/runtime.rs): one worker's runtime,    *)
(* which runs one job after the other on the same context, the same job    *)
(* queues and the same host hooks.                                         *)
(***************************************************************************)
EXTENDS EventLoop

CONSTANTS
    MaxExecutionTime,  \* execution_limits.max_execution_time
    MaxRejections      \* bound: unhandled rejections counted at once

ASSUME MaxExecutionTimePositive == MaxExecutionTime \in Nat \ {0}
ASSUME MaxRejectionsNat == MaxRejections \in Nat

VARIABLES
    rpc,          \* where run_source_with_early_reply is
    module_eval,  \* the promise of load_link_evaluate
    rejections,   \* hooks.pending_unhandled_rejections
    realm,        \* the realm the context is in: "host" or "job"
    state_data,   \* whether the job's MechanicsState is in the context
    result,       \* of the inner closure: "none", "ok", or why it failed
    outcome       \* the RunSourceOutcome of the last run

runVars == <<rpc, module_eval, rejections, realm, state_data, result, outcome>>
vars == <<loopVars, runVars>>

RInit ==
    /\ Init
    /\ rpc = "idle" /\ module_eval = "none" /\ rejections = 0
    /\ realm = "host" /\ state_data = FALSE
    /\ result = "none" /\ outcome = "none"

-----------------------------------------------------------------------------
(* run_source_with_early_reply *)

\* An endpoint that cannot be prepared, a deadline that does not fit
\* (compute_deadline) or a realm that cannot be created: the run ends before
\* anything of it is installed.
Refuse ==
    /\ rpc = "idle"
    /\ rejections' = 0 /\ outcome' = "MainNotReplied" /\ reply' = "none"
    /\ main' = "none"
    /\ UNCHANGED <<now, deadline, queues, locals, pc, until, call, exit,
                   fired, rpc, module_eval, realm, state_data, result>>

Begin ==
    /\ rpc = "idle" /\ now + MaxExecutionTime <= MaxInstant
    /\ rejections' = 0 /\ realm' = "job"
    /\ deadline' = now + MaxExecutionTime /\ state_data' = TRUE
    /\ rpc' = "parse" /\ outcome' = "none" /\ reply' = "none" /\ main' = "none"
    /\ UNCHANGED <<now, queues, locals, pc, until, call, exit, fired,
                   module_eval, result>>

Fail(why) == rpc' = "cleanup" /\ result' = why

Parse ==
    /\ rpc = "parse"
    /\ \/ Fail("syntax") /\ UNCHANGED <<call, module_eval>>
       \/ rpc' = "module" /\ call' = "module" /\ module_eval' = "pending"
          /\ UNCHANGED result
    /\ UNCHANGED <<now, deadline, queues, locals, pc, until, exit, main,
                   reply, fired, rejections, realm, state_data, outcome>>

\* load_link_evaluate returns its promise and run_jobs drives the loop.
ModuleReturns ==
    /\ rpc = "module" /\ call = "module"
    /\ call' = "none" /\ rpc' = "module_loop" /\ StartLoop(FALSE)
    /\ UNCHANGED <<now, deadline, queues, main, reply, fired, module_eval,
                   rejections, realm, state_data, result, outcome>>

\* The checks between module evaluation and the call of the default export,
\* the first failing one deciding the error.
ModuleError ==
    CASE exit \in {"error", "range", "type"} -> exit
      [] exit = "deadline"          -> "timeout"
      [] module_eval = "pending"    -> "module_pending"
      [] module_eval = "rejected"   -> "module_rejected"
      [] rejections > 0             -> "unhandled"
      [] OTHER                      -> "none"

ModuleDone ==
    /\ rpc = "module_loop" /\ pc = "off"
    /\ \/ ModuleError # "none" /\ Fail(ModuleError)
          /\ UNCHANGED <<call, main>>
       \/ \* the argument or the default export cannot be used
          ModuleError = "none" /\ Fail("export") /\ UNCHANGED <<call, main>>
       \/ ModuleError = "none" /\ rpc' = "main" /\ call' = "main"
          /\ main' = "pending" /\ UNCHANGED result
    /\ UNCHANGED <<now, deadline, queues, locals, pc, until, exit, reply,
                   fired, module_eval, rejections, realm, state_data, outcome>>

\* main returns a promise, in the state it has by then, or a plain value,
\* which is wrapped in a resolved one; or it throws.
MainReturns ==
    /\ rpc = "main" /\ call = "main"
    /\ call' = "none" /\ rpc' = "main_loop" /\ StartLoop(TRUE)
    /\ main' \in {main} \cup (IF main = "pending" THEN {"fulfilled"} ELSE {})
    /\ UNCHANGED <<now, deadline, queues, reply, fired, module_eval,
                   rejections, realm, state_data, result, outcome>>

MainThrows ==
    /\ rpc = "main" /\ call = "main"
    /\ call' = "none" /\ Fail("main_threw") /\ main' = "none"
    /\ UNCHANGED <<now, deadline, queues, locals, pc, until, exit, reply,
                   fired, module_eval, rejections, realm, state_data, outcome>>

MainLoopDone ==
    /\ rpc = "main_loop" /\ pc = "off"
    /\ Fail(CASE exit \in {"error", "range", "type"} -> exit
              [] reply = "none" /\ main = "pending"  -> "main_pending"
              [] OTHER                               -> "ok")
    /\ UNCHANGED <<loopVars, module_eval, rejections, realm, state_data,
                   outcome>>

\* Mutant: an error of the tail is reported although main has been answered.
OutcomeMutTailError == IF reply # "none" /\ result = "ok"
                       THEN "MainReplied" ELSE "MainNotReplied"

\* The match on (result, main_replied).
Outcome == IF reply # "none" THEN "MainReplied" ELSE "MainNotReplied"

\* The cleanup after the closure, and the end of the function's locals.
Cleanup ==
    /\ rpc = "cleanup"
    /\ state_data' = FALSE /\ deadline' = 0 /\ ClearAll /\ rejections' = 0
    /\ realm' = "host"
    /\ rpc' = "idle" /\ outcome' = Outcome
    /\ until' = FALSE /\ exit' = "none" /\ module_eval' = "none"
    /\ result' = "none" /\ fired' = 0
    /\ UNCHANGED <<now, locals, pc, call, main, reply>>

-----------------------------------------------------------------------------
(* The script *)

\* The promise awaited at this stage settles.
Settle ==
    /\ call # "none"
    /\ \/ rpc \in {"module", "module_loop"} /\ module_eval = "pending"
          /\ module_eval' \in {"fulfilled", "rejected"} /\ UNCHANGED main
       \/ rpc \in {"main", "main_loop"} /\ main = "pending"
          /\ main' \in {"fulfilled", "rejected"} /\ UNCHANGED module_eval
    /\ UNCHANGED <<now, deadline, queues, locals, pc, until, call, exit,
                   reply, fired, rpc, rejections, realm, state_data, result,
                   outcome>>

\* promise_rejection_tracker, with its saturating arithmetic.
TrackRejection ==
    /\ call # "none"
    /\ \/ rejections < MaxRejections /\ rejections' = rejections + 1
       \/ rejections' = IF rejections = 0 THEN 0 ELSE rejections - 1
    /\ UNCHANGED <<loopVars, rpc, module_eval, realm, state_data, result,
                   outcome>>

JSReturns ==
    \/ ModuleReturns \/ MainReturns \/ MainThrows
    \/ (Return \/ Throw \/ Converted) /\ UNCHANGED runVars

RunStep ==
    \/ Parse \/ ModuleDone \/ MainLoopDone \/ Cleanup
    \/ LoopStep /\ UNCHANGED runVars

Next ==
    \/ Refuse \/ Begin
    \/ RunStep
    \/ JSReturns
    \/ Settle \/ TrackRejection
    \/ (ScriptEnqueues \/ Tick) /\ UNCHANGED runVars

Spec == RInit /\ [][Next]_vars

\* The thread keeps running, a JavaScript call comes back (loops, recursion and
\* the stack are bounded by the runtime limits) and time passes.
FairSpec ==
    /\ Spec
    /\ WF_vars(RunStep)
    /\ WF_vars(JSReturns)
    /\ WF_vars(Tick /\ UNCHANGED runVars)

-----------------------------------------------------------------------------
(* Properties *)

\* Between two jobs the runtime holds nothing of the last one: no queued job,
\* no taken job or future, no deadline, no endpoint state, no counted
\* rejection, and the context is back in its own realm
\* (runtime.rs:450-454), whichever way the run ended.
CleanBetweenRuns ==
    rpc = "idle" =>
        /\ promise_jobs = 0 /\ async_jobs = 0 /\ generic_jobs = <<>>
        /\ timeout_jobs = NoTimers /\ cancelled = NoTimers
        /\ group = 0 /\ due = NoTimers /\ batch = 0
        /\ deadline = 0 /\ ~state_data /\ rejections = 0 /\ realm = "host"
        /\ pc = "off" /\ call = "none"

\* A finished run is MainReplied exactly when early_reply was called, and it
\* was called with main's own result: an "ok" only for a fulfilled main, an
\* error only for a settled one, whatever the tail did afterwards
\* (runtime.rs:385-430 and 459-486).
ReplyIsMainResult ==
    /\ rpc = "idle" => ((outcome = "MainReplied") <=> (reply # "none"))
    /\ reply = "ok" => main = "fulfilled"
    /\ reply = "err" => main \in {"fulfilled", "rejected"}

\* Timers are called in the order of their instants, and none before its
\* instant has come, over all turns of a run (executor.rs:162-188).
TimersInOrder ==
    [][call' = "timer" /\ call # "timer" =>
           fired <= fired' /\ fired' <= now]_vars

\* Every run comes to its end, even if its jobs queue new jobs for ever: the
\* deadline stops it (executor.rs:229-236 and 317-324).
RunEnds == (rpc # "idle") ~> (rpc = "idle")

\* The runtime implements the contract its worker relies on.
stageOf == IF rpc = "idle" THEN "idle"
           ELSE IF reply = "none" THEN "running" ELSE "tail"

resultOf == IF reply # "none" THEN reply
            ELSE IF outcome = "none" THEN "none" ELSE "not_replied"

Contract == INSTANCE JobRun WITH stage <- stageOf, result <- resultOf

ImplementsJobRun == Contract!Spec

\* A main that settled goes unreported only when the run was cut short: a loop
\* that ran until nothing was left to do has looked at main after its last job
\* and called early_reply, for a rejected main too (executor.rs:221-249).  At
\* the deadline, or when a job throws, the result may be lost.
QuietRunReplies ==
    rpc = "cleanup" /\ exit = "complete" /\ main \in {"fulfilled", "rejected"}
        => reply # "none"
=============================================================================
