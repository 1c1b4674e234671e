----------------------------- MODULE RestartRate -----------------------------
(***************************************************************************)
(* What the restart guard promises its users, without a clock: it          *)
(* remembers a number of restart attempts, time makes some of them leave   *)
(* the window, and an attempt is admitted when fewer than MaxRestarts are  *)
(* left.  WorkerPool is built on this view; RestartGuard implements it.    *)
(***************************************************************************)
EXTENDS Integers

CONSTANT MaxRestarts  \* max_restarts_in_window

VARIABLES
    attempts,  \* remembered restart attempts
    expired    \* how many of them have left the window by now

rateVars == <<attempts, expired>>

Init == attempts = 0 /\ expired = 0

\* Time passes: some remembered attempts leave the window.
WindowElapses ==
    /\ \E k \in (expired + 1)..attempts : expired' = k
    /\ UNCHANGED attempts

\* Mutant: the comparison with max_restarts is off by one.
AllowRestartMutOffByOne == attempts - expired <= MaxRestarts

\* An attempt is admitted if what is left in the window is below the maximum.
AllowRestart == attempts - expired < MaxRestarts

\* allow_restart: forget what left the window, remember an admitted attempt.
RecordRestartAttempt ==
    /\ attempts' = (attempts - expired) + (IF AllowRestart THEN 1 ELSE 0)
    /\ expired' = 0

Next == WindowElapses \/ RecordRestartAttempt

Spec == Init /\ [][Next]_rateVars
====
