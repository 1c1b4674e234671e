-------------------------- MODULE ScriptRuntimeProofs --------------------------
(***************************************************************************)
(* Proofs about ScriptRuntime, for every execution time, every set of      *)
(* timer delays and every bound: what a run leaves behind, what it         *)
(* replies, that it keeps the contract of JobRun, and the order of timers. *)
(***************************************************************************)
EXTENDS ScriptRuntime, TLAPS, WellFoundedInduction

\* Which part of the runtime is in control: a loop runs only inside the two
\* calls of run_jobs, and JavaScript runs only where the runtime or the loop
\* called it.
ControlInv ==
    /\ rpc \in {"idle", "parse", "module", "module_loop", "main", "main_loop", "cleanup"}
    /\ pc # "off" => rpc \in {"module_loop", "main_loop"}
    /\ rpc = "module_loop" /\ pc # "off" => ~until
    /\ \/ call = "none"
       \/ call = "module" /\ rpc = "module"
       \/ call = "main" /\ rpc = "main"
       \/ call = "convert" /\ rpc = "main_loop" /\ pc = "top"
       \/ call \in LoopCalls /\ pc \in {"await", "timers", "take", "promises"}

\* A loop that has returned has dropped its locals, and what is installed for
\* a run is there only during it.
CleanInv ==
    /\ pc = "off" => /\ group = 0 /\ due = NoTimers /\ batch = 0
                     /\ ~stopped
    /\ rpc = "idle" =>
        /\ promise_jobs = 0 /\ async_jobs = 0 /\ generic_jobs = <<>>
        /\ timeout_jobs = NoTimers /\ cancelled = NoTimers
        /\ deadline = 0 /\ state_data = FALSE /\ rejections = 0 /\ realm = "host"

\* The reply and the promise of main move together, and the loop remembers
\* with its stopped flag that the reply has been sent.
ReplyInv ==
    /\ reply \in {"none", "ok", "err"}
    /\ reply = "ok" => main = "fulfilled"
    /\ reply = "err" => main \in {"fulfilled", "rejected"}
    /\ rpc \in {"main", "main_loop"} => main \in {"pending", "fulfilled", "rejected"}
    /\ rpc \in {"parse", "module", "module_loop", "main"} => reply = "none"
    /\ rpc = "main_loop" /\ pc # "off" /\ ~stopped => reply = "none"
    /\ call = "convert" => ~stopped /\ main = "fulfilled"
    /\ rpc # "idle" => outcome = "none"
    /\ rpc = "idle" => /\ outcome = "MainReplied" <=> reply # "none"
                       /\ outcome \in {"none", "MainReplied", "MainNotReplied"}

\* The loop of main watches it, has replied once it is stopped, and does not
\* run out of work with a settled main it has not replied for.
SeenInv ==
    /\ rpc \in {"parse", "module", "module_loop"} => main = "none"
    /\ rpc = "main_loop" => until
    /\ rpc = "main_loop" /\ pc # "off" /\ stopped => reply # "none"
    /\ /\ rpc \in {"main_loop", "cleanup"} /\ pc = "off" /\ exit = "complete"
       /\ main \in {"fulfilled", "rejected"}
       => reply # "none"

-----------------------------------------------------------------------------
\* Every step keeps the control.
LEMMA ControlStep == ControlInv /\ [Next]_vars => ControlInv'
<1> SUFFICES ASSUME ControlInv, [Next]_vars PROVE ControlInv'
  OBVIOUS
<1> USE DEF ControlInv, LoopCalls
<1>1. CASE Refuse
  BY <1>1, Zenon DEF Refuse, locals
<1>2. CASE Begin
  BY <1>2, Zenon DEF Begin, locals
<1>3. CASE Parse
  BY <1>3, Zenon DEF Parse, Fail, locals
<1>4. CASE ModuleDone
  BY <1>4, Zenon DEF ModuleDone, Fail, locals
<1>5. CASE MainLoopDone
  BY <1>5, Zenon DEF MainLoopDone, Fail, locals, queues, loopVars
<1>6. CASE Cleanup
  BY <1>6, Zenon DEF Cleanup, ClearAll, Outcome, locals
<1>7. CASE OnStop /\ UNCHANGED runVars
  BY <1>7, Zenon DEF OnStop, ShouldStop, locals, runVars
<1>8. CASE Turn /\ UNCHANGED runVars
  BY <1>8, Zenon DEF Turn, Exit, locals, runVars
<1>9. CASE Wait /\ UNCHANGED runVars
  BY <1>9, Zenon DEF Wait, locals, runVars
<1>10. CASE Woken /\ UNCHANGED runVars
  BY <1>10, Zenon DEF Woken, locals, runVars
<1>11. CASE Poll /\ UNCHANGED runVars
  BY <1>11, Zenon DEF Poll, locals, runVars
<1>12. CASE CheckAgain /\ UNCHANGED runVars
  BY <1>12, Zenon DEF CheckAgain, Exit, locals, runVars
<1>13. CASE DrainTimeoutJobs /\ UNCHANGED runVars
  BY <1>13, Zenon DEF DrainTimeoutJobs, locals, runVars
<1>14. CASE CallTimer /\ UNCHANGED runVars
  BY <1>14, Zenon DEF CallTimer, locals, runVars
<1>15. CASE CallGeneric /\ UNCHANGED runVars
  BY <1>15, Zenon DEF CallGeneric, Exit, locals, runVars
<1>16. CASE TakePromiseJobs /\ UNCHANGED runVars
  BY <1>16, Zenon DEF TakePromiseJobs, locals, runVars
<1>17. CASE CallPromiseJob /\ UNCHANGED runVars
  BY <1>17, Zenon DEF CallPromiseJob, locals, runVars
<1>18. CASE ModuleReturns
  BY <1>18, Zenon DEF ModuleReturns, StartLoop, locals
<1>19. CASE MainReturns
  BY <1>19, Zenon DEF MainReturns, StartLoop, locals
<1>20. CASE MainThrows
  BY <1>20, Zenon DEF MainThrows, Fail, locals
<1>21. CASE Return /\ UNCHANGED runVars
  BY <1>21, Zenon DEF Return, locals, runVars
<1>22. CASE Throw /\ UNCHANGED runVars
  BY <1>22, Zenon DEF Throw, Exit, locals, runVars
<1>23. CASE Converted /\ UNCHANGED runVars
  BY <1>23, Zenon DEF Converted, locals, runVars
<1>24. CASE Settle
  BY <1>24, Zenon DEF Settle, locals
<1>25. CASE TrackRejection
  BY <1>25, Zenon DEF TrackRejection, locals, queues, loopVars
<1>26. CASE ScriptEnqueues /\ UNCHANGED runVars
  BY <1>26, Zenon DEF ScriptEnqueues, locals, runVars
<1>27. CASE Tick /\ UNCHANGED runVars
  BY <1>27, Zenon DEF Tick, locals, runVars
<1>28. CASE UNCHANGED vars
  BY <1>28, Zenon DEF vars, loopVars, locals, queues, runVars
<1>29. QED
  BY <1>1, <1>2, <1>3, <1>4, <1>5, <1>6, <1>7, <1>8, <1>9,
     <1>10, <1>11, <1>12, <1>13, <1>14, <1>15, <1>16, <1>17, <1>18,
     <1>19, <1>20, <1>21, <1>22, <1>23, <1>24, <1>25, <1>26, <1>27,
     <1>28, Zenon
     DEF Next, RunStep, LoopStep, JSReturns

\* Every step keeps the runtime clean.
LEMMA CleanStep == ControlInv /\ CleanInv /\ [Next]_vars => CleanInv'
<1> SUFFICES ASSUME ControlInv, CleanInv, [Next]_vars PROVE CleanInv'
  OBVIOUS
<1> USE DEF CleanInv
<1>1. CASE Refuse
  BY <1>1, Zenon DEF Refuse, locals, ControlInv, LoopCalls, queues
<1>2. CASE Begin
  BY <1>2, Zenon DEF Begin, locals, ControlInv, LoopCalls, queues
<1>3. CASE Parse
  BY <1>3, Zenon DEF Parse, Fail, locals, ControlInv, LoopCalls
<1>4. CASE ModuleDone
  BY <1>4, Zenon DEF ModuleDone, Fail, locals, ControlInv, LoopCalls
<1>5. CASE MainLoopDone
  BY <1>5, Zenon DEF MainLoopDone, Fail, locals, queues, loopVars, ControlInv, LoopCalls
<1>6. CASE Cleanup
  BY <1>6, Zenon DEF Cleanup, ClearAll, Outcome, locals, ControlInv, LoopCalls
<1>7. CASE OnStop /\ UNCHANGED runVars
  BY <1>7, Zenon DEF OnStop, ShouldStop, locals, runVars, ControlInv, LoopCalls, queues
<1>8. CASE Turn /\ UNCHANGED runVars
  BY <1>8, Zenon DEF Turn, Exit, locals, runVars, ControlInv, LoopCalls
<1>9. CASE Wait /\ UNCHANGED runVars
  BY <1>9, Zenon DEF Wait, locals, runVars, ControlInv, LoopCalls, queues
<1>10. CASE Woken /\ UNCHANGED runVars
  BY <1>10, Zenon DEF Woken, locals, runVars, ControlInv, LoopCalls, queues
<1>11. CASE Poll /\ UNCHANGED runVars
  BY <1>11, Zenon DEF Poll, locals, runVars, ControlInv, LoopCalls, queues
<1>12. CASE CheckAgain /\ UNCHANGED runVars
  BY <1>12, Zenon DEF CheckAgain, Exit, locals, runVars, ControlInv, LoopCalls
<1>13. CASE DrainTimeoutJobs /\ UNCHANGED runVars
  BY <1>13, Zenon DEF DrainTimeoutJobs, locals, runVars, ControlInv, LoopCalls
<1>14. CASE CallTimer /\ UNCHANGED runVars
  BY <1>14, Zenon DEF CallTimer, locals, runVars, ControlInv, LoopCalls
<1>15. CASE CallGeneric /\ UNCHANGED runVars
  BY <1>15, Zenon DEF CallGeneric, Exit, locals, runVars, ControlInv, LoopCalls
<1>16. CASE TakePromiseJobs /\ UNCHANGED runVars
  BY <1>16, Zenon DEF TakePromiseJobs, locals, runVars, ControlInv, LoopCalls
<1>17. CASE CallPromiseJob /\ UNCHANGED runVars
  BY <1>17, Zenon DEF CallPromiseJob, locals, runVars, ControlInv, LoopCalls
<1>18. CASE ModuleReturns
  BY <1>18, Zenon DEF ModuleReturns, StartLoop, locals, ControlInv, LoopCalls
<1>19. CASE MainReturns
  BY <1>19, Zenon DEF MainReturns, StartLoop, locals, ControlInv, LoopCalls
<1>20. CASE MainThrows
  BY <1>20, Zenon DEF MainThrows, Fail, locals, ControlInv, LoopCalls
<1>21. CASE Return /\ UNCHANGED runVars
  BY <1>21, Zenon DEF Return, locals, runVars, ControlInv, LoopCalls
<1>22. CASE Throw /\ UNCHANGED runVars
  BY <1>22, Zenon DEF Throw, Exit, locals, runVars, ControlInv, LoopCalls
<1>23. CASE Converted /\ UNCHANGED runVars
  BY <1>23, Zenon DEF Converted, locals, runVars, ControlInv, LoopCalls
<1>24. CASE Settle
  BY <1>24, Zenon DEF Settle, locals, ControlInv, LoopCalls
<1>25. CASE TrackRejection
  BY <1>25, Zenon DEF TrackRejection, locals, queues, loopVars, ControlInv, LoopCalls
<1>26. CASE ScriptEnqueues /\ UNCHANGED runVars
  BY <1>26, Zenon DEF ScriptEnqueues, locals, runVars, ControlInv, LoopCalls
<1>27. CASE Tick /\ UNCHANGED runVars
  BY <1>27, Zenon DEF Tick, locals, runVars, ControlInv, LoopCalls, queues
<1>28. CASE UNCHANGED vars
  BY <1>28, Zenon DEF vars, loopVars, locals, queues, runVars
<1>29. QED
  BY <1>1, <1>2, <1>3, <1>4, <1>5, <1>6, <1>7, <1>8, <1>9,
     <1>10, <1>11, <1>12, <1>13, <1>14, <1>15, <1>16, <1>17, <1>18,
     <1>19, <1>20, <1>21, <1>22, <1>23, <1>24, <1>25, <1>26, <1>27,
     <1>28, Zenon
     DEF Next, RunStep, LoopStep, JSReturns

\* Every step keeps the reply tied to main.
LEMMA ReplyStep == ControlInv /\ CleanInv /\ ReplyInv /\ [Next]_vars => ReplyInv'
<1> SUFFICES ASSUME ControlInv, CleanInv, ReplyInv, [Next]_vars PROVE ReplyInv'
  OBVIOUS
<1> USE DEF ReplyInv
<1>1. CASE Refuse
  BY <1>1, Zenon DEF Refuse, locals, ControlInv, CleanInv, LoopCalls
<1>2. CASE Begin
  BY <1>2, Zenon DEF Begin, locals, ControlInv, CleanInv, LoopCalls
<1>3. CASE Parse
  BY <1>3, Zenon DEF Parse, Fail, locals, ControlInv, CleanInv, LoopCalls
<1>4. CASE ModuleDone
  BY <1>4, Zenon DEF ModuleDone, Fail, locals, ControlInv, CleanInv, LoopCalls
<1>5. CASE MainLoopDone
  BY <1>5, Zenon DEF MainLoopDone, Fail, locals, queues, loopVars, ControlInv, CleanInv, LoopCalls
<1>6. CASE Cleanup
  BY <1>6, Zenon DEF Cleanup, ClearAll, Outcome, locals, ControlInv, CleanInv, LoopCalls
<1>7. CASE OnStop /\ UNCHANGED runVars
  BY <1>7, Zenon DEF OnStop, ShouldStop, locals, runVars, ControlInv, CleanInv, LoopCalls
<1>8. CASE Turn /\ UNCHANGED runVars
  BY <1>8, Zenon DEF Turn, Exit, locals, runVars, ControlInv, CleanInv, LoopCalls
<1>9. CASE Wait /\ UNCHANGED runVars
  BY <1>9, Zenon DEF Wait, locals, runVars, ControlInv, CleanInv, LoopCalls
<1>10. CASE Woken /\ UNCHANGED runVars
  BY <1>10, Zenon DEF Woken, locals, runVars, ControlInv, CleanInv, LoopCalls
<1>11. CASE Poll /\ UNCHANGED runVars
  BY <1>11, Zenon DEF Poll, locals, runVars, ControlInv, CleanInv, LoopCalls
<1>12. CASE CheckAgain /\ UNCHANGED runVars
  BY <1>12, Zenon DEF CheckAgain, Exit, locals, runVars, ControlInv, CleanInv, LoopCalls
<1>13. CASE DrainTimeoutJobs /\ UNCHANGED runVars
  BY <1>13, Zenon DEF DrainTimeoutJobs, locals, runVars, ControlInv, CleanInv, LoopCalls
<1>14. CASE CallTimer /\ UNCHANGED runVars
  BY <1>14, Zenon DEF CallTimer, locals, runVars, ControlInv, CleanInv, LoopCalls
<1>15. CASE CallGeneric /\ UNCHANGED runVars
  BY <1>15, Zenon DEF CallGeneric, Exit, locals, runVars, ControlInv, CleanInv, LoopCalls
<1>16. CASE TakePromiseJobs /\ UNCHANGED runVars
  BY <1>16, Zenon DEF TakePromiseJobs, locals, runVars, ControlInv, CleanInv, LoopCalls
<1>17. CASE CallPromiseJob /\ UNCHANGED runVars
  BY <1>17, Zenon DEF CallPromiseJob, locals, runVars, ControlInv, CleanInv, LoopCalls
<1>18. CASE ModuleReturns
  BY <1>18, Zenon DEF ModuleReturns, StartLoop, locals, ControlInv, CleanInv, LoopCalls
<1>19. CASE MainReturns
  BY <1>19, Zenon DEF MainReturns, StartLoop, locals, ControlInv, CleanInv, LoopCalls
<1>20. CASE MainThrows
  BY <1>20, Zenon DEF MainThrows, Fail, locals, ControlInv, CleanInv, LoopCalls
<1>21. CASE Return /\ UNCHANGED runVars
  BY <1>21, Zenon DEF Return, locals, runVars, ControlInv, CleanInv, LoopCalls
<1>22. CASE Throw /\ UNCHANGED runVars
  BY <1>22, Zenon DEF Throw, Exit, locals, runVars, ControlInv, CleanInv, LoopCalls
<1>23. CASE Converted /\ UNCHANGED runVars
  BY <1>23, Zenon DEF Converted, locals, runVars, ControlInv, CleanInv, LoopCalls
<1>24. CASE Settle
  BY <1>24, Zenon DEF Settle, locals, ControlInv, CleanInv, LoopCalls
<1>25. CASE TrackRejection
  BY <1>25, Zenon DEF TrackRejection, locals, queues, loopVars, ControlInv, CleanInv, LoopCalls
<1>26. CASE ScriptEnqueues /\ UNCHANGED runVars
  BY <1>26, Zenon DEF ScriptEnqueues, locals, runVars, ControlInv, CleanInv, LoopCalls
<1>27. CASE Tick /\ UNCHANGED runVars
  BY <1>27, Zenon DEF Tick, locals, runVars, ControlInv, CleanInv, LoopCalls
<1>28. CASE UNCHANGED vars
  BY <1>28, Zenon DEF vars, loopVars, locals, queues, runVars
<1>29. QED
  BY <1>1, <1>2, <1>3, <1>4, <1>5, <1>6, <1>7, <1>8, <1>9,
     <1>10, <1>11, <1>12, <1>13, <1>14, <1>15, <1>16, <1>17, <1>18,
     <1>19, <1>20, <1>21, <1>22, <1>23, <1>24, <1>25, <1>26, <1>27,
     <1>28, Zenon
     DEF Next, RunStep, LoopStep, JSReturns

\* The generic queue holds jobs and error jobs only.
GenericInv == generic_jobs \in Seq({"job", "range", "type"})

\* A step leaves the generic queue alone, empties it, takes its head or adds to
\* its end.
LEMMA GenericStep == GenericInv /\ [Next]_vars => GenericInv'
<1> SUFFICES ASSUME GenericInv, [Next]_vars PROVE GenericInv'
  OBVIOUS
<1>1. CASE ScriptEnqueues
  <2>1. \/ UNCHANGED generic_jobs
        \/ \E kind \in {"job", "range", "type"} :
               generic_jobs' = Append(generic_jobs, kind)
    BY <1>1, Zenon
       DEF ScriptEnqueues, EnqueuePromiseJob, EnqueueAsyncJob,
           EnqueueGenericJob, EnqueueTimeoutJob, CancelTimer
  <2>2. QED  BY <2>1, SMT DEF GenericInv
<1>2. CASE CallGeneric
  BY <1>2, SMT DEF GenericInv, CallGeneric
<1>3. CASE Cleanup
  BY <1>3, SMT DEF GenericInv, Cleanup, ClearAll
<1>4. CASE ~(ScriptEnqueues \/ CallGeneric \/ Cleanup)
  <2>1. UNCHANGED generic_jobs
    BY <1>4, Zenon
       DEF Next, RunStep, LoopStep, JSReturns, Refuse, Begin, Parse, ModuleDone,
           MainLoopDone, OnStop, Turn, Wait, Woken, Poll, CheckAgain,
           DrainTimeoutJobs, CallTimer, TakePromiseJobs, CallPromiseJob,
           ModuleReturns, MainReturns, MainThrows, Return, Throw, Converted,
           Settle, TrackRejection, Tick, vars, loopVars, queues
  <2>2. QED  BY <2>1 DEF GenericInv
<1>5. QED  BY <1>1, <1>2, <1>3, <1>4

\* Every step keeps a settled main from being missed.
LEMMA SeenStep ==
    ControlInv /\ CleanInv /\ GenericInv /\ SeenInv /\ [Next]_vars => SeenInv'
<1> SUFFICES ASSUME ControlInv, CleanInv, GenericInv, SeenInv, [Next]_vars PROVE SeenInv'
  OBVIOUS
<1> USE DEF SeenInv
<1>1. CASE Refuse
  BY <1>1, Zenon DEF Refuse, locals, ControlInv, CleanInv, LoopCalls
<1>2. CASE Begin
  BY <1>2, Zenon DEF Begin, locals, ControlInv, CleanInv, LoopCalls
<1>3. CASE Parse
  BY <1>3, Zenon DEF Parse, Fail, locals, ControlInv, CleanInv, LoopCalls
<1>4. CASE ModuleDone
  BY <1>4, Zenon DEF ModuleDone, Fail, locals, ControlInv, CleanInv, LoopCalls
<1>5. CASE MainLoopDone
  BY <1>5, Zenon DEF MainLoopDone, Fail, locals, queues, loopVars, ControlInv, CleanInv, LoopCalls
<1>6. CASE Cleanup
  BY <1>6, Zenon DEF Cleanup, ClearAll, Outcome, locals, ControlInv, CleanInv, LoopCalls
<1>7. CASE OnStop /\ UNCHANGED runVars
  BY <1>7, Zenon DEF OnStop, ShouldStop, locals, runVars, ControlInv, CleanInv, LoopCalls
<1>8. CASE Turn /\ UNCHANGED runVars
  BY <1>8, Zenon DEF Turn, ShouldStop, Exit, locals, runVars, ControlInv, CleanInv, LoopCalls
<1>9. CASE Wait /\ UNCHANGED runVars
  BY <1>9, Zenon DEF Wait, locals, runVars, ControlInv, CleanInv, LoopCalls
<1>10. CASE Woken /\ UNCHANGED runVars
  BY <1>10, Zenon DEF Woken, locals, runVars, ControlInv, CleanInv, LoopCalls
<1>11. CASE Poll /\ UNCHANGED runVars
  BY <1>11, Zenon DEF Poll, locals, runVars, ControlInv, CleanInv, LoopCalls
<1>12. CASE CheckAgain /\ UNCHANGED runVars
  BY <1>12, Zenon DEF CheckAgain, Exit, locals, runVars, ControlInv, CleanInv, LoopCalls
<1>13. CASE DrainTimeoutJobs /\ UNCHANGED runVars
  BY <1>13, Zenon DEF DrainTimeoutJobs, locals, runVars, ControlInv, CleanInv, LoopCalls
<1>14. CASE CallTimer /\ UNCHANGED runVars
  BY <1>14, Zenon DEF CallTimer, locals, runVars, ControlInv, CleanInv, LoopCalls
<1>15. CASE CallGeneric /\ UNCHANGED runVars
  <2>1. generic_jobs # <<>> => Head(generic_jobs) # "complete"
    BY SMT DEF GenericInv
  <2>2. QED
    BY <1>15, <2>1, Zenon DEF CallGeneric, Exit, locals, runVars, ControlInv
<1>16. CASE TakePromiseJobs /\ UNCHANGED runVars
  BY <1>16, Zenon DEF TakePromiseJobs, locals, runVars, ControlInv, CleanInv, LoopCalls
<1>17. CASE CallPromiseJob /\ UNCHANGED runVars
  BY <1>17, Zenon DEF CallPromiseJob, locals, runVars, ControlInv, CleanInv, LoopCalls
<1>18. CASE ModuleReturns
  BY <1>18, Zenon DEF ModuleReturns, StartLoop, locals, ControlInv, CleanInv, LoopCalls
<1>19. CASE MainReturns
  BY <1>19, Zenon DEF MainReturns, StartLoop, locals, ControlInv, CleanInv, LoopCalls
<1>20. CASE MainThrows
  BY <1>20, Zenon DEF MainThrows, Fail, locals, ControlInv, CleanInv, LoopCalls
<1>21. CASE Return /\ UNCHANGED runVars
  BY <1>21, Zenon DEF Return, locals, runVars, ControlInv, CleanInv, LoopCalls
<1>22. CASE Throw /\ UNCHANGED runVars
  BY <1>22, Zenon DEF Throw, Exit, locals, runVars, ControlInv, CleanInv, LoopCalls
<1>23. CASE Converted /\ UNCHANGED runVars
  BY <1>23, Zenon DEF Converted, locals, runVars, ControlInv, CleanInv, LoopCalls
<1>24. CASE Settle
  BY <1>24, Zenon DEF Settle, locals, ControlInv, CleanInv, LoopCalls
<1>25. CASE TrackRejection
  BY <1>25, Zenon DEF TrackRejection, locals, queues, loopVars, ControlInv, CleanInv, LoopCalls
<1>26. CASE ScriptEnqueues /\ UNCHANGED runVars
  BY <1>26, Zenon DEF ScriptEnqueues, locals, runVars, ControlInv, CleanInv, LoopCalls
<1>27. CASE Tick /\ UNCHANGED runVars
  BY <1>27, Zenon DEF Tick, locals, runVars, ControlInv, CleanInv, LoopCalls
<1>28. CASE UNCHANGED vars
  BY <1>28, Zenon DEF vars, loopVars, locals, queues, runVars
<1>29. QED
  BY <1>1, <1>2, <1>3, <1>4, <1>5, <1>6, <1>7, <1>8, <1>9,
     <1>10, <1>11, <1>12, <1>13, <1>14, <1>15, <1>16, <1>17, <1>18,
     <1>19, <1>20, <1>21, <1>22, <1>23, <1>24, <1>25, <1>26, <1>27,
     <1>28, Zenon
     DEF Next, RunStep, LoopStep, JSReturns

\* A runtime as RuntimeInternal::new leaves it satisfies the invariants.
LEMMA InitRunInv == RInit => ControlInv /\ CleanInv /\ ReplyInv /\ SeenInv
  BY Zenon DEF RInit, Init, ControlInv, CleanInv, ReplyInv, SeenInv

\* What is known of every state of the runtime.
RunInv == ControlInv /\ CleanInv /\ ReplyInv

\* The control, clean and reply invariants hold throughout.
LEMMA AlwaysRunInv == Spec => []RunInv
<1>1. RInit => RunInv
  BY InitRunInv DEF RunInv
<1>2. RunInv /\ [Next]_vars => RunInv'
  BY ControlStep, CleanStep, ReplyStep DEF RunInv
<1>3. QED  BY <1>1, <1>2, PTL DEF Spec

\* Nothing of a job survives its run (the cleanup of run_source).
THEOREM NothingSurvivesRun == Spec => []CleanBetweenRuns
<1>1. RunInv => CleanBetweenRuns
  BY Zenon DEF RunInv, ControlInv, CleanInv, CleanBetweenRuns, LoopCalls
<1>2. QED  BY AlwaysRunInv, <1>1, PTL

\* The reply is the result of main, and the outcome says whether it was sent.
THEOREM RunRepliesMainResult == Spec => []ReplyIsMainResult
<1>1. RunInv => ReplyIsMainResult
  BY Zenon DEF RunInv, ReplyInv, ReplyIsMainResult
<1>2. QED  BY AlwaysRunInv, <1>1, PTL

\* A loop of main that ran out of work has replied for a settled main.
THEOREM QuietRunsReply == Spec => []QuietRunReplies
<1>1. RInit => GenericInv /\ SeenInv
  <2>1. RInit => GenericInv
    BY SMT DEF RInit, Init, GenericInv
  <2>2. QED  BY <2>1, InitRunInv
<1>2. RunInv /\ GenericInv /\ SeenInv /\ [Next]_vars => GenericInv' /\ SeenInv'
  BY GenericStep, SeenStep DEF RunInv
<1>3. RunInv /\ SeenInv => QuietRunReplies
  BY Zenon DEF RunInv, ControlInv, SeenInv, QuietRunReplies
<1>4. QED  BY <1>1, <1>2, <1>3, AlwaysRunInv, PTL DEF Spec

-----------------------------------------------------------------------------
(* The runtime implements JobRun.                                          *)

\* A step starts a job, replies, ends a run, or changes nothing the worker sees.
LEMMA ContractStep == RunInv /\ [Next]_vars => [Contract!Next]_<<stageOf, resultOf>>
<1> SUFFICES ASSUME RunInv, [Next]_vars PROVE [Contract!Next]_<<stageOf, resultOf>>
  OBVIOUS
<1>1. CASE Refuse
  <2>1. Contract!MainNotReplied
    BY <1>1, Zenon DEF Refuse, stageOf, resultOf, Contract!MainNotReplied
  <2>2. QED  BY <2>1, Zenon DEF Contract!Next
<1>2. CASE Begin
  <2>1. Contract!StartJob
    BY <1>2, Zenon DEF Begin, stageOf, resultOf, Contract!StartJob
  <2>2. QED  BY <2>1, Zenon DEF Contract!Next
<1>3. CASE Parse
  <2>1. UNCHANGED <<stageOf, resultOf>>
    BY <1>3, Zenon DEF Parse, Fail, locals, stageOf, resultOf, RunInv, ControlInv, ReplyInv
  <2>2. QED  BY <2>1, Zenon
<1>4. CASE ModuleDone
  <2>1. UNCHANGED <<stageOf, resultOf>>
    BY <1>4, Zenon DEF ModuleDone, Fail, locals, stageOf, resultOf, RunInv, ControlInv, ReplyInv
  <2>2. QED  BY <2>1, Zenon
<1>5. CASE MainLoopDone
  <2>1. UNCHANGED <<stageOf, resultOf>>
    BY <1>5, Zenon DEF MainLoopDone, Fail, locals, queues, loopVars, stageOf, resultOf, RunInv, ControlInv, ReplyInv
  <2>2. QED  BY <2>1, Zenon
<1>6. CASE Cleanup
  <2>1. CASE reply = "none"
    <3>1. Contract!MainNotReplied
      BY <1>6, <2>1, Zenon DEF Cleanup, Outcome, stageOf, resultOf, Contract!MainNotReplied
    <3>2. QED  BY <3>1, Zenon DEF Contract!Next
  <2>2. CASE reply # "none"
    <3>1. Contract!TailDone
      BY <1>6, <2>2, Zenon DEF Cleanup, Outcome, stageOf, resultOf, Contract!TailDone
    <3>2. QED  BY <3>1, Zenon DEF Contract!Next
  <2>3. QED  BY <2>1, <2>2
<1>7. CASE OnStop /\ UNCHANGED runVars
  <2>1. rpc = "main_loop" /\ reply = "none"
    BY <1>7, Zenon DEF OnStop, ShouldStop, RunInv, ControlInv, ReplyInv
  <2>2. CASE reply' = reply
    <3>1. UNCHANGED <<stageOf, resultOf>>
      BY <1>7, <2>2, Zenon DEF OnStop, runVars, stageOf, resultOf
    <3>2. QED  BY <3>1, Zenon
  <2>3. CASE reply' = "err"
    <3>1. Contract!MainReplies("err")
      BY <1>7, <2>1, <2>3, Zenon DEF OnStop, runVars, stageOf, resultOf, Contract!MainReplies
    <3>2. QED  BY <3>1, Zenon DEF Contract!Next
  <2>4. QED  BY <1>7, <2>2, <2>3, Zenon DEF OnStop
<1>8. CASE Turn /\ UNCHANGED runVars
  <2>1. UNCHANGED <<stageOf, resultOf>>
    BY <1>8, Zenon DEF Turn, Exit, locals, runVars, stageOf, resultOf, RunInv, ControlInv, ReplyInv
  <2>2. QED  BY <2>1, Zenon
<1>9. CASE Wait /\ UNCHANGED runVars
  <2>1. UNCHANGED <<stageOf, resultOf>>
    BY <1>9, Zenon DEF Wait, locals, runVars, stageOf, resultOf, RunInv, ControlInv, ReplyInv
  <2>2. QED  BY <2>1, Zenon
<1>10. CASE Woken /\ UNCHANGED runVars
  <2>1. UNCHANGED <<stageOf, resultOf>>
    BY <1>10, Zenon DEF Woken, locals, runVars, stageOf, resultOf, RunInv, ControlInv, ReplyInv
  <2>2. QED  BY <2>1, Zenon
<1>11. CASE Poll /\ UNCHANGED runVars
  <2>1. UNCHANGED <<stageOf, resultOf>>
    BY <1>11, Zenon DEF Poll, locals, runVars, stageOf, resultOf, RunInv, ControlInv, ReplyInv
  <2>2. QED  BY <2>1, Zenon
<1>12. CASE CheckAgain /\ UNCHANGED runVars
  <2>1. UNCHANGED <<stageOf, resultOf>>
    BY <1>12, Zenon DEF CheckAgain, Exit, locals, runVars, stageOf, resultOf, RunInv, ControlInv, ReplyInv
  <2>2. QED  BY <2>1, Zenon
<1>13. CASE DrainTimeoutJobs /\ UNCHANGED runVars
  <2>1. UNCHANGED <<stageOf, resultOf>>
    BY <1>13, Zenon DEF DrainTimeoutJobs, locals, runVars, stageOf, resultOf, RunInv, ControlInv, ReplyInv
  <2>2. QED  BY <2>1, Zenon
<1>14. CASE CallTimer /\ UNCHANGED runVars
  <2>1. UNCHANGED <<stageOf, resultOf>>
    BY <1>14, Zenon DEF CallTimer, locals, runVars, stageOf, resultOf, RunInv, ControlInv, ReplyInv
  <2>2. QED  BY <2>1, Zenon
<1>15. CASE CallGeneric /\ UNCHANGED runVars
  <2>1. UNCHANGED <<stageOf, resultOf>>
    BY <1>15, Zenon DEF CallGeneric, Exit, locals, runVars, stageOf, resultOf, RunInv, ControlInv, ReplyInv
  <2>2. QED  BY <2>1, Zenon
<1>16. CASE TakePromiseJobs /\ UNCHANGED runVars
  <2>1. UNCHANGED <<stageOf, resultOf>>
    BY <1>16, Zenon DEF TakePromiseJobs, locals, runVars, stageOf, resultOf, RunInv, ControlInv, ReplyInv
  <2>2. QED  BY <2>1, Zenon
<1>17. CASE CallPromiseJob /\ UNCHANGED runVars
  <2>1. UNCHANGED <<stageOf, resultOf>>
    BY <1>17, Zenon DEF CallPromiseJob, locals, runVars, stageOf, resultOf, RunInv, ControlInv, ReplyInv
  <2>2. QED  BY <2>1, Zenon
<1>18. CASE ModuleReturns
  <2>1. UNCHANGED <<stageOf, resultOf>>
    BY <1>18, Zenon DEF ModuleReturns, StartLoop, locals, stageOf, resultOf, RunInv, ControlInv, ReplyInv
  <2>2. QED  BY <2>1, Zenon
<1>19. CASE MainReturns
  <2>1. UNCHANGED <<stageOf, resultOf>>
    BY <1>19, Zenon DEF MainReturns, StartLoop, locals, stageOf, resultOf, RunInv, ControlInv, ReplyInv
  <2>2. QED  BY <2>1, Zenon
<1>20. CASE MainThrows
  <2>1. UNCHANGED <<stageOf, resultOf>>
    BY <1>20, Zenon DEF MainThrows, Fail, locals, stageOf, resultOf, RunInv, ControlInv, ReplyInv
  <2>2. QED  BY <2>1, Zenon
<1>21. CASE Return /\ UNCHANGED runVars
  <2>1. UNCHANGED <<stageOf, resultOf>>
    BY <1>21, Zenon DEF Return, locals, runVars, stageOf, resultOf, RunInv, ControlInv, ReplyInv
  <2>2. QED  BY <2>1, Zenon
<1>22. CASE Throw /\ UNCHANGED runVars
  <2>1. UNCHANGED <<stageOf, resultOf>>
    BY <1>22, Zenon DEF Throw, Exit, locals, runVars, stageOf, resultOf, RunInv, ControlInv, ReplyInv
  <2>2. QED  BY <2>1, Zenon
<1>23. CASE Converted /\ UNCHANGED runVars
  <2>1. rpc = "main_loop" /\ reply = "none"
    BY <1>23, Zenon DEF Converted, LoopCalls, RunInv, ControlInv, ReplyInv
  <2>2. reply' \in {"ok", "err"} /\ UNCHANGED <<rpc, outcome>>
    BY <1>23, Zenon DEF Converted, runVars
  <2>3. Contract!MainReplies(reply')
    BY <2>1, <2>2, Zenon DEF stageOf, resultOf, Contract!MainReplies
  <2>4. Contract!MainReplies("ok") \/ Contract!MainReplies("err")
    BY <2>2, <2>3, Zenon
  <2>5. QED  BY <2>4, Zenon DEF Contract!Next
<1>24. CASE Settle
  <2>1. UNCHANGED <<stageOf, resultOf>>
    BY <1>24, Zenon DEF Settle, locals, stageOf, resultOf, RunInv, ControlInv, ReplyInv
  <2>2. QED  BY <2>1, Zenon
<1>25. CASE TrackRejection
  <2>1. UNCHANGED <<stageOf, resultOf>>
    BY <1>25, Zenon DEF TrackRejection, locals, queues, loopVars, stageOf, resultOf, RunInv, ControlInv, ReplyInv
  <2>2. QED  BY <2>1, Zenon
<1>26. CASE ScriptEnqueues /\ UNCHANGED runVars
  <2>1. UNCHANGED <<stageOf, resultOf>>
    BY <1>26, Zenon DEF ScriptEnqueues, locals, runVars, stageOf, resultOf, RunInv, ControlInv, ReplyInv
  <2>2. QED  BY <2>1, Zenon
<1>27. CASE Tick /\ UNCHANGED runVars
  <2>1. UNCHANGED <<stageOf, resultOf>>
    BY <1>27, Zenon DEF Tick, locals, runVars, stageOf, resultOf, RunInv, ControlInv, ReplyInv
  <2>2. QED  BY <2>1, Zenon
<1>28. CASE UNCHANGED vars
  <2>1. UNCHANGED <<stageOf, resultOf>>
    BY <1>28, Zenon DEF vars, loopVars, runVars, stageOf, resultOf
  <2>2. QED  BY <2>1, Zenon
<1>29. QED
  BY <1>1, <1>2, <1>3, <1>4, <1>5, <1>6, <1>7, <1>8, <1>9,
     <1>10, <1>11, <1>12, <1>13, <1>14, <1>15, <1>16, <1>17, <1>18,
     <1>19, <1>20, <1>21, <1>22, <1>23, <1>24, <1>25, <1>26, <1>27,
     <1>28, Zenon
     DEF Next, RunStep, LoopStep, JSReturns

\* The runtime keeps the contract its worker relies on: one reply at most, then
\* the tail, and a run without a reply says so.
THEOREM RuntimeImplementsContract == Spec => ImplementsJobRun
<1>1. RInit => Contract!Init
  BY Zenon DEF RInit, Init, Contract!Init, stageOf, resultOf
<1>2. QED  BY <1>1, AlwaysRunInv, ContractStep, PTL DEF Spec, ImplementsJobRun, Contract!Spec

(***************************************************************************)
(* Timers.                                                                 *)
(***************************************************************************)

\* A set of instants that is not empty has a first one.
LEMMA LeastInstant ==
    ASSUME NEW T \in SUBSET Nat, T # {}
    PROVE  \E m \in T : \A k \in T : m <= k
<1>1. PICK m \in T : \A k \in T : ~(<<k, m>> \in OpToRel(<, Nat))
  BY NatLessThanWellFounded, WFMin, Zenon
<1>2. ASSUME NEW k \in T, k < m PROVE FALSE
  <2>1. <<k, m>> \in Nat \X Nat /\ <<k, m>>[1] = k /\ <<k, m>>[2] = m
    OBVIOUS
  <2>2. QED  BY <1>1, <1>2, <2>1, Zenon DEF OpToRel
<1>3. \A k \in T : m <= k
  BY <1>2
<1>4. QED  BY <1>3

\* The first key of a map of timers is in the map and before all others.
LEMMA FirstKeyLeast ==
    ASSUME NEW f \in [Instants -> Nat], Keys(f) # {}
    PROVE  /\ FirstKey(f) \in Keys(f)
           /\ \A k \in Keys(f) : FirstKey(f) <= k
<1>1. Keys(f) \in SUBSET Nat
  BY MaxInstantPositive DEF Keys, Instants
<1>2. \E m \in Keys(f) : \A k \in Keys(f) : m <= k
  BY <1>1, LeastInstant, Zenon
<1>3. QED  BY <1>2, Zenon DEF FirstKey

TimerType ==
    /\ now \in Nat /\ fired \in Nat
    /\ timeout_jobs \in [Instants -> Nat] /\ due \in [Instants -> Nat]

\* What has been called comes before what was taken, and that before what is
\* still in the map: a timer is added at the present instant or later.
TimerOrder ==
    /\ fired <= now
    /\ \A k \in Keys(timeout_jobs) : fired <= k
    /\ \A d \in Keys(due) : /\ fired <= d /\ d <= now
                            /\ \A k \in Keys(timeout_jobs) : d <= k

TimerInv == TimerType /\ TimerOrder

\* An empty timer map has no keys.
LEMMA NoTimersEmpty == NoTimers \in [Instants -> Nat] /\ Keys(NoTimers) = {}
  BY DEF NoTimers, Keys

\* A step that leaves the clock and the timers alone, or drops what it took.
LEMMA QuietStep ==
    ASSUME TimerInv, UNCHANGED <<now, timeout_jobs, fired>>,
           due' \in {due, NoTimers}
    PROVE  TimerInv'
<1>1. CASE due' = due
  BY <1>1, Zenon DEF TimerInv, TimerType, TimerOrder, Keys
<1>2. CASE due' = NoTimers
  <2>1. TimerType'
    BY <1>2, NoTimersEmpty, Zenon DEF TimerInv, TimerType
  <2>2. Keys(due') = {}
    BY <1>2, NoTimersEmpty
  <2>3. Keys(timeout_jobs') = Keys(timeout_jobs) /\ Keys(due)' = {}
    BY <2>2, Zenon DEF Keys
  <2>4. TimerOrder'
    BY <2>2, <2>3, Zenon DEF TimerInv, TimerOrder, Keys
  <2>5. QED  BY <2>1, <2>4 DEF TimerInv
<1>3. QED  BY <1>1, <1>2

\* Timers may only be added from the present on; removing some is harmless.
LEMMA TimersAddedLater ==
    ASSUME TimerInv, UNCHANGED <<now, fired, due>>,
           timeout_jobs' \in [Instants -> Nat],
           \A k \in Keys(timeout_jobs') : k \in Keys(timeout_jobs) \/ now <= k
    PROVE  TimerInv'
<1>1. TimerType'
  BY Zenon DEF TimerInv, TimerType
<1>2. \A k \in Keys(timeout_jobs') : k \in Nat
  BY MaxInstantPositive DEF Keys, Instants
<1>3. \A d \in Keys(due) : d \in Nat /\ d <= now
  BY MaxInstantPositive DEF Keys, Instants, TimerInv, TimerOrder
<1>4. \A k \in Keys(timeout_jobs') : fired <= k
  BY <1>2 DEF TimerInv, TimerOrder, TimerType
<1>5. \A d \in Keys(due), k \in Keys(timeout_jobs') : d <= k
  BY <1>2, <1>3 DEF TimerInv, TimerOrder, TimerType
<1>6. TimerOrder'
  BY <1>4, <1>5, Zenon DEF TimerInv, TimerOrder, Keys
<1>7. QED  BY <1>1, <1>6 DEF TimerInv

\* enqueue_job adds a timer at the present instant or later.
LEMMA EnqueueKeepsTimers ==
    TimerInv /\ ScriptEnqueues => TimerInv'
<1> SUFFICES ASSUME TimerInv, ScriptEnqueues PROVE TimerInv'
  OBVIOUS
<1>0. UNCHANGED <<now, fired, due>>
  BY Zenon DEF ScriptEnqueues, locals
<1>1. CASE timeout_jobs' = timeout_jobs
  BY <1>0, <1>1, QuietStep, Zenon
<1>2. ASSUME NEW delay \in Delays, now + delay <= MaxInstant,
             timeout_jobs' = [timeout_jobs EXCEPT ![now + delay] = @ + 1]
      PROVE  TimerInv'
  <2>1. now + delay \in Nat /\ now <= now + delay
    BY DelaysNat DEF TimerInv, TimerType
  <2>2. timeout_jobs' \in [Instants -> Nat]
    <3>1. timeout_jobs \in [Instants -> Nat]
      BY DEF TimerInv, TimerType
    <3>2. ASSUME NEW at \in Instants PROVE timeout_jobs[at] + 1 \in Nat
      BY <3>1
    <3>3. QED  BY <1>2, <3>1, <3>2, Zenon
  <2>3. \A k \in Keys(timeout_jobs') : k \in Keys(timeout_jobs) \/ now <= k
    BY <1>2, <2>1 DEF TimerInv, TimerType, Keys
  <2>4. QED  BY <1>0, <2>2, <2>3, TimersAddedLater, Zenon
<1>3. ASSUME NEW at \in Instants, CancelTimer(at)
      PROVE  TimerInv'
  <2>2. timeout_jobs' \in [Instants -> Nat]
    BY <1>3 DEF CancelTimer, TimerInv, TimerType
  <2>3. \A k \in Keys(timeout_jobs') : k \in Keys(timeout_jobs) \/ now <= k
    BY <1>3 DEF CancelTimer, TimerInv, TimerType, Keys
  <2>4. QED  BY <1>0, <2>2, <2>3, TimersAddedLater, Zenon
<1>4. ASSUME NEW delay \in Delays, EnqueueTimeoutJob(delay) PROVE TimerInv'
  <2>1. CASE now + delay > MaxInstant
    BY <1>1, <1>4, <2>1, Zenon DEF EnqueueTimeoutJob, EnqueueGenericJob
  <2>2. CASE ~(now + delay > MaxInstant)
    <3>1. now + delay <= MaxInstant
      BY <2>2, DelaysNat, MaxInstantPositive DEF TimerInv, TimerType
    <3>2. QED  BY <1>2, <1>4, <2>2, <3>1, Zenon DEF EnqueueTimeoutJob
  <2>3. QED  BY <2>1, <2>2
<1>5. QED
  BY <1>1, <1>3, <1>4, Zenon DEF ScriptEnqueues, EnqueuePromiseJob,
     EnqueueAsyncJob, EnqueueGenericJob

\* The timer called is the earliest of those taken, and its instant has come.
LEMMA CallTimerFacts ==
    ASSUME TimerInv, CallTimer
    PROVE  /\ TimerInv'
           /\ fired <= fired' /\ fired' <= now
<1> DEFINE k == FirstKey(due)
<1>1. k \in Keys(due) /\ \A d \in Keys(due) : k <= d
  BY FirstKeyLeast, Zenon DEF CallTimer, TimerInv, TimerType
<1>2. k \in Nat /\ k \in Instants /\ fired <= k /\ k <= now
  BY <1>1, MaxInstantPositive DEF Keys, Instants, TimerInv, TimerOrder
<1>3. fired' = k /\ due' = [due EXCEPT ![k] = @ - 1]
      /\ UNCHANGED <<now, timeout_jobs>>
  BY Zenon DEF CallTimer, queues
<1> HIDE DEF k
<1>4. due' \in [Instants -> Nat]
  BY <1>1, <1>3 DEF Keys, TimerInv, TimerType
<1>5. \A d \in Keys(due') : d \in Keys(due)
  BY <1>1, <1>3 DEF Keys, TimerInv, TimerType
<1>6. TimerType'
  BY <1>2, <1>3, <1>4, Zenon DEF TimerInv, TimerType
<1>7. TimerOrder'
  BY <1>1, <1>2, <1>3, <1>5, Zenon DEF TimerInv, TimerOrder, Keys
<1>8. QED  BY <1>2, <1>3, <1>6, <1>7 DEF TimerInv

\* What drain_timeout_jobs takes comes before what it leaves.
LEMMA DrainKeepsTimers == TimerInv /\ DrainTimeoutJobs => TimerInv'
<1> SUFFICES ASSUME TimerInv, DrainTimeoutJobs PROVE TimerInv'
  OBVIOUS
<1>1. /\ due' = [at \in Instants |-> IF at <= now THEN timeout_jobs[at] ELSE 0]
      /\ timeout_jobs' = [at \in Instants |-> IF at <= now THEN 0 ELSE timeout_jobs[at]]
      /\ UNCHANGED <<now, fired>>
  BY Zenon DEF DrainTimeoutJobs, Due
<1>2. TimerType'
  BY <1>1 DEF TimerInv, TimerType
<1>3. \A d \in Keys(due') : d \in Keys(timeout_jobs) /\ d <= now
  BY <1>1 DEF Keys, TimerInv, TimerType
<1>4. \A k \in Keys(timeout_jobs') : k \in Keys(timeout_jobs) /\ ~(k <= now)
  BY <1>1 DEF Keys, TimerInv, TimerType
<1>5. \A k \in Instants : k \in Nat
  BY MaxInstantPositive DEF Instants
<1>6. \A d \in Keys(due'), k \in Keys(timeout_jobs') : d <= k
  BY <1>3, <1>4, <1>5 DEF Keys, TimerInv, TimerType
<1>7. TimerOrder'
  BY <1>1, <1>3, <1>4, <1>6, Zenon DEF TimerInv, TimerOrder, Keys
<1>8. QED  BY <1>2, <1>7 DEF TimerInv

\* Time only moves away from the timers already taken.
LEMMA TickKeepsTimers == TimerInv /\ Tick => TimerInv'
<1> SUFFICES ASSUME TimerInv, Tick PROVE TimerInv'
  OBVIOUS
<1>1. now' = now + 1 /\ UNCHANGED <<fired, timeout_jobs, due>>
  BY Zenon DEF Tick, queues, locals
<1>2. \A d \in Keys(due) : d \in Nat
  BY MaxInstantPositive DEF Keys, Instants
<1>3. fired <= now' /\ \A d \in Keys(due) : d <= now'
  BY <1>1, <1>2 DEF TimerInv, TimerType, TimerOrder
<1>4. TimerType'
  BY <1>1 DEF TimerInv, TimerType
<1>5. TimerOrder'
  BY <1>1, <1>3, Zenon DEF TimerInv, TimerOrder, Keys
<1>6. QED  BY <1>4, <1>5 DEF TimerInv

\* clear_all leaves no timer to order.
LEMMA CleanupKeepsTimers == TimerInv /\ Cleanup => TimerInv'
<1> SUFFICES ASSUME TimerInv, Cleanup PROVE TimerInv'
  OBVIOUS
<1>1. fired' = 0 /\ timeout_jobs' = NoTimers /\ UNCHANGED <<now, due>>
  BY Zenon DEF Cleanup, ClearAll, locals
<1>2. Keys(timeout_jobs') = {}
  BY <1>1, NoTimersEmpty
<1>3. TimerType'
  BY <1>1, NoTimersEmpty DEF TimerInv, TimerType
<1>4. \A d \in Keys(due) : d \in Nat
  BY MaxInstantPositive DEF Keys, Instants
<1>5. fired' <= now /\ \A d \in Keys(due) : fired' <= d
  BY <1>1, <1>4 DEF TimerInv, TimerType
<1>6. TimerOrder'
  BY <1>1, <1>2, <1>5, Zenon DEF TimerInv, TimerOrder, Keys
<1>7. QED  BY <1>3, <1>6 DEF TimerInv

\* Every step keeps the order of timers.
LEMMA TimerStep == TimerInv /\ [Next]_vars => TimerInv'
<1> SUFFICES ASSUME TimerInv, [Next]_vars PROVE TimerInv'
  OBVIOUS
<1>1. CASE Refuse
  BY <1>1, QuietStep, Zenon DEF Refuse, locals, queues
<1>2. CASE Begin
  BY <1>2, QuietStep, Zenon DEF Begin, locals, queues
<1>3. CASE Parse
  BY <1>3, QuietStep, Zenon DEF Parse, Fail, locals, queues
<1>4. CASE ModuleDone
  BY <1>4, QuietStep, Zenon DEF ModuleDone, Fail, locals, queues
<1>5. CASE MainLoopDone
  BY <1>5, QuietStep, Zenon DEF MainLoopDone, Fail, locals, queues, loopVars
<1>6. CASE Cleanup
  BY <1>6, CleanupKeepsTimers
<1>7. CASE OnStop /\ UNCHANGED runVars
  BY <1>7, QuietStep, Zenon DEF OnStop, ShouldStop, locals, runVars, queues
<1>8. CASE Turn /\ UNCHANGED runVars
  BY <1>8, QuietStep, Zenon DEF Turn, Exit, locals, runVars, queues
<1>9. CASE Wait /\ UNCHANGED runVars
  BY <1>9, QuietStep, Zenon DEF Wait, locals, runVars, queues
<1>10. CASE Woken /\ UNCHANGED runVars
  BY <1>10, QuietStep, Zenon DEF Woken, locals, runVars, queues
<1>11. CASE Poll /\ UNCHANGED runVars
  BY <1>11, QuietStep, Zenon DEF Poll, locals, runVars, queues
<1>12. CASE CheckAgain /\ UNCHANGED runVars
  BY <1>12, QuietStep, Zenon DEF CheckAgain, Exit, locals, runVars, queues
<1>13. CASE DrainTimeoutJobs /\ UNCHANGED runVars
  BY <1>13, DrainKeepsTimers
<1>14. CASE CallTimer /\ UNCHANGED runVars
  BY <1>14, CallTimerFacts
<1>15. CASE CallGeneric /\ UNCHANGED runVars
  BY <1>15, QuietStep, Zenon DEF CallGeneric, Exit, locals, runVars, queues
<1>16. CASE TakePromiseJobs /\ UNCHANGED runVars
  BY <1>16, QuietStep, Zenon DEF TakePromiseJobs, locals, runVars, queues
<1>17. CASE CallPromiseJob /\ UNCHANGED runVars
  BY <1>17, QuietStep, Zenon DEF CallPromiseJob, locals, runVars, queues
<1>18. CASE ModuleReturns
  BY <1>18, QuietStep, Zenon DEF ModuleReturns, StartLoop, locals, queues
<1>19. CASE MainReturns
  BY <1>19, QuietStep, Zenon DEF MainReturns, StartLoop, locals, queues
<1>20. CASE MainThrows
  BY <1>20, QuietStep, Zenon DEF MainThrows, Fail, locals, queues
<1>21. CASE Return /\ UNCHANGED runVars
  BY <1>21, QuietStep, Zenon DEF Return, locals, runVars, queues
<1>22. CASE Throw /\ UNCHANGED runVars
  BY <1>22, QuietStep, Zenon DEF Throw, Exit, locals, runVars, queues
<1>23. CASE Converted /\ UNCHANGED runVars
  BY <1>23, QuietStep, Zenon DEF Converted, locals, runVars, queues
<1>24. CASE Settle
  BY <1>24, QuietStep, Zenon DEF Settle, locals, queues
<1>25. CASE TrackRejection
  BY <1>25, QuietStep, Zenon DEF TrackRejection, locals, queues, loopVars
<1>26. CASE ScriptEnqueues /\ UNCHANGED runVars
  BY <1>26, EnqueueKeepsTimers
<1>27. CASE Tick /\ UNCHANGED runVars
  BY <1>27, TickKeepsTimers
<1>28. CASE UNCHANGED vars
  BY <1>28, QuietStep, Zenon DEF vars, loopVars, locals, queues
<1>29. QED
  BY <1>1, <1>2, <1>3, <1>4, <1>5, <1>6, <1>7, <1>8, <1>9,
     <1>10, <1>11, <1>12, <1>13, <1>14, <1>15, <1>16, <1>17, <1>18,
     <1>19, <1>20, <1>21, <1>22, <1>23, <1>24, <1>25, <1>26, <1>27,
     <1>28, Zenon
     DEF Next, RunStep, LoopStep, JSReturns

\* Only CallTimer calls a timer.
LEMMA FiredStep == TimerInv /\ [Next]_vars => (call' = "timer" /\ call # "timer" => fired <= fired' /\ fired' <= now)
<1> SUFFICES ASSUME TimerInv, [Next]_vars PROVE (call' = "timer" /\ call # "timer" => fired <= fired' /\ fired' <= now)
  OBVIOUS
<1>1. CASE Refuse
  BY <1>1, Zenon DEF Refuse, locals, loopVars
<1>2. CASE Begin
  BY <1>2, Zenon DEF Begin, locals, loopVars
<1>3. CASE Parse
  BY <1>3, Zenon DEF Parse, Fail, locals, loopVars
<1>4. CASE ModuleDone
  BY <1>4, Zenon DEF ModuleDone, Fail, locals, loopVars
<1>5. CASE MainLoopDone
  BY <1>5, Zenon DEF MainLoopDone, Fail, locals, queues, loopVars
<1>6. CASE Cleanup
  BY <1>6, Zenon DEF Cleanup, ClearAll, Outcome, locals, loopVars
<1>7. CASE OnStop /\ UNCHANGED runVars
  BY <1>7, Zenon DEF OnStop, ShouldStop, locals, runVars, loopVars
<1>8. CASE Turn /\ UNCHANGED runVars
  BY <1>8, Zenon DEF Turn, Exit, locals, runVars, loopVars
<1>9. CASE Wait /\ UNCHANGED runVars
  BY <1>9, Zenon DEF Wait, locals, runVars, loopVars
<1>10. CASE Woken /\ UNCHANGED runVars
  BY <1>10, Zenon DEF Woken, locals, runVars, loopVars
<1>11. CASE Poll /\ UNCHANGED runVars
  BY <1>11, Zenon DEF Poll, locals, runVars, loopVars
<1>12. CASE CheckAgain /\ UNCHANGED runVars
  BY <1>12, Zenon DEF CheckAgain, Exit, locals, runVars, loopVars
<1>13. CASE DrainTimeoutJobs /\ UNCHANGED runVars
  BY <1>13, Zenon DEF DrainTimeoutJobs, locals, runVars, loopVars
<1>14. CASE CallTimer /\ UNCHANGED runVars
  BY <1>14, CallTimerFacts
<1>15. CASE CallGeneric /\ UNCHANGED runVars
  BY <1>15, Zenon DEF CallGeneric, Exit, locals, runVars, loopVars
<1>16. CASE TakePromiseJobs /\ UNCHANGED runVars
  BY <1>16, Zenon DEF TakePromiseJobs, locals, runVars, loopVars
<1>17. CASE CallPromiseJob /\ UNCHANGED runVars
  BY <1>17, Zenon DEF CallPromiseJob, locals, runVars, loopVars
<1>18. CASE ModuleReturns
  BY <1>18, Zenon DEF ModuleReturns, StartLoop, locals, loopVars
<1>19. CASE MainReturns
  BY <1>19, Zenon DEF MainReturns, StartLoop, locals, loopVars
<1>20. CASE MainThrows
  BY <1>20, Zenon DEF MainThrows, Fail, locals, loopVars
<1>21. CASE Return /\ UNCHANGED runVars
  BY <1>21, Zenon DEF Return, locals, runVars, loopVars
<1>22. CASE Throw /\ UNCHANGED runVars
  BY <1>22, Zenon DEF Throw, Exit, locals, runVars, loopVars
<1>23. CASE Converted /\ UNCHANGED runVars
  BY <1>23, Zenon DEF Converted, locals, runVars, loopVars
<1>24. CASE Settle
  BY <1>24, Zenon DEF Settle, locals, loopVars
<1>25. CASE TrackRejection
  BY <1>25, Zenon DEF TrackRejection, locals, queues, loopVars
<1>26. CASE ScriptEnqueues /\ UNCHANGED runVars
  BY <1>26, Zenon DEF ScriptEnqueues, locals, runVars, loopVars
<1>27. CASE Tick /\ UNCHANGED runVars
  BY <1>27, Zenon DEF Tick, locals, runVars, loopVars
<1>28. CASE UNCHANGED vars
  BY <1>28, Zenon DEF vars, loopVars
<1>29. QED
  BY <1>1, <1>2, <1>3, <1>4, <1>5, <1>6, <1>7, <1>8, <1>9,
     <1>10, <1>11, <1>12, <1>13, <1>14, <1>15, <1>16, <1>17, <1>18,
     <1>19, <1>20, <1>21, <1>22, <1>23, <1>24, <1>25, <1>26, <1>27,
     <1>28, Zenon
     DEF Next, RunStep, LoopStep, JSReturns

\* Timers are called in order and never early, over all turns of a run
\* (drain_timeout_jobs).
THEOREM TimersFireInOrder == Spec => TimersInOrder
<1>1. RInit => TimerInv
  <2>1. RInit => /\ now = 1 /\ fired = 0
                 /\ timeout_jobs = NoTimers /\ due = NoTimers
    BY Zenon DEF RInit, Init
  <2>2. QED  BY <2>1, NoTimersEmpty DEF TimerInv, TimerType, TimerOrder
<1>2. TimerInv /\ [Next]_vars =>
          [call' = "timer" /\ call # "timer" =>
               fired <= fired' /\ fired' <= now]_vars
  BY FiredStep
<1>3. QED  BY <1>1, <1>2, TimerStep, PTL DEF Spec, TimersInOrder
=============================================================================
