---------------------------- MODULE MCWorkerPool ----------------------------
EXTENDS WorkerPool, TLC

\* Calls are interchangeable.
JobSymmetry == Permutations(Jobs)

\* The state without the history variables, which no step reads.
WithoutHistory ==
    <<owner, poolVars, queue, exits, guardVars, faults, spawnVars, supVars,
      wpc, wjob, ready, shutdown, cpc, mode, limited, passed, canceled, found,
      reply>>

\* Bound: at most one call is in progress.
OneCallAtATime ==
    \A i, j \in Jobs :
        {cpc[i], cpc[j]} \cap {"start", "returned"} = {} => i = j

\* Bound: no call runs into its deadline.
NoDeadline == \A j \in Jobs : ~passed[j]

\* The pool used by a client that makes one call at a time, in a fixed order.
\* Only the client's threads are sure to run.
FirstCall == CHOOSE j \in Jobs : TRUE
InTurn ==
    /\ OneCallAtATime
    /\ \A j \in Jobs \ {FirstCall} : cpc[j] # "start" => cpc[FirstCall] = "returned"
InTurnSpec == Init /\ [][Next /\ InTurn']_vars /\ CallerFairness
====
