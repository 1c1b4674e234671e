-------------------------------- MODULE JobRun --------------------------------
(***************************************************************************)
(* What a worker may rely on when it hands a job to its runtime: the main  *)
(* result is delivered at most once, the run then goes on to its end, and  *)
(* a run that ends without having delivered it says so.  The worker model  *)
(* (WorkerPool) takes exactly these steps for the script of a job.         *)
(***************************************************************************)
VARIABLES
    stage,   \* "idle", "running" or "tail"
    result   \* of the last run: "none", "ok", "err" or "not_replied"

Init == stage = "idle" /\ result = "none"

StartJob ==
    /\ stage = "idle"
    /\ stage' = "running" /\ result' = "none"

MainReplies(v) ==
    /\ stage = "running"
    /\ stage' = "tail" /\ result' = v

\* The run ends without a main result, before or after the script ran.
MainNotReplied ==
    /\ stage \in {"idle", "running"}
    /\ stage' = "idle" /\ result' = "not_replied"

TailDone ==
    /\ stage = "tail"
    /\ stage' = "idle" /\ UNCHANGED result

Next ==
    \/ StartJob \/ MainReplies("ok") \/ MainReplies("err")
    \/ MainNotReplied \/ TailDone

Spec == Init /\ [][Next]_<<stage, result>>
=============================================================================
