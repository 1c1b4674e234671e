----------------------------- MODULE RestartGuard -----------------------------
(***************************************************************************)
(* RestartGuard (src/src/internal/pool/restart_guard.rs): the deque of     *)
(* restart timestamps behind the supervisor's rate limit.  Only the        *)
(* supervisor calls allow_restart, with Instant::now(), which never goes   *)
(* back; stats() reads the length of the deque at any time.                *)
(***************************************************************************)
EXTENDS Integers, Sequences

CONSTANTS
    Window,       \* restart_window, in clock units
    MaxRestarts,  \* max_restarts_in_window
    MaxTime       \* bound: the clock stops here

ASSUME WindowNat == Window \in Nat
ASSUME MaxRestartsPositive == MaxRestarts \in Nat \ {0}
ASSUME MaxTimeNat == MaxTime \in Nat

VARIABLES
    now,        \* the monotonic clock
    restarts,   \* the deque, oldest first
    answer,     \* what allow_restart returned at this instant, if called
    admitted    \* history: every admitted timestamp

guardVars == <<now, restarts, answer, admitted>>

GuardInit ==
    /\ now = 0
    /\ restarts = <<>>
    /\ answer = "none"
    /\ admitted = <<>>

Tick ==
    /\ now < MaxTime
    /\ now' = now + 1
    /\ answer' = "none"
    /\ UNCHANGED <<restarts, admitted>>

\* Mutant: an attempt leaves the window one unit too early.
OutsideMutInclusive(s, k, t) == t - s[k] >= Window

\* The test of the pop loop: s[k] is out of the window at time t.
Outside(s, k, t) == t - s[k] > Window

\* How many timestamps the pop loop removes: it stops at the first one that
\* is still in the window, or when the deque is empty.
Popped(s, t) ==
    CHOOSE n \in 0..Len(s) :
        /\ \A k \in 1..n : Outside(s, k, t)
        /\ n < Len(s) => ~Outside(s, n + 1, t)

Prune(s, t) == SubSeq(s, Popped(s, t) + 1, Len(s))

\* Mutant: a refused attempt is remembered as well.
AllowRestartMutRemembersRefused ==
    LET kept == Prune(restarts, now)
    IN  /\ restarts' = Append(kept, now)
        /\ IF Len(kept) >= MaxRestarts
           THEN answer' = "refused" /\ UNCHANGED admitted
           ELSE answer' = "allowed" /\ admitted' = Append(admitted, now)
        /\ UNCHANGED now

\* allow_restart, at the current instant.
AllowRestart ==
    LET kept == Prune(restarts, now)
    IN  /\ IF Len(kept) >= MaxRestarts
           THEN /\ restarts' = kept
                /\ answer' = "refused"
                /\ UNCHANGED admitted
           ELSE /\ restarts' = Append(kept, now)
                /\ answer' = "allowed"
                /\ admitted' = Append(admitted, now)
        /\ UNCHANGED now

GuardNext == Tick \/ AllowRestart

GuardSpec == GuardInit /\ [][GuardNext]_guardVars

-----------------------------------------------------------------------------
\* The types of the state; allow_restart never lets the deque grow past the
\* configured maximum.
TypeOK ==
    /\ now \in 0..MaxTime
    /\ restarts \in Seq(Nat) /\ Len(restarts) <= MaxRestarts
    /\ answer \in {"none", "allowed", "refused"}
    /\ admitted \in Seq(Nat)

\* Any MaxRestarts + 1 consecutive admitted attempts span more than a window,
\* so no window, wherever it starts, holds more than MaxRestarts of them
\* (allow_restart).
RateBounded ==
    \A i \in DOMAIN admitted :
        i + MaxRestarts \in DOMAIN admitted
            => admitted[i + MaxRestarts] - admitted[i] > Window

\* An attempt is refused only when MaxRestarts attempts have really been
\* admitted within the last window: the guard never starves the supervisor
\* because of older or refused attempts (allow_restart).
RefusedOnlyWhenFull ==
    answer = "refused" =>
        /\ Len(admitted) >= MaxRestarts
        /\ now - admitted[Len(admitted) - MaxRestarts + 1] <= Window

\* The deque is the tail of the admitted history: nothing in the window is
\* forgotten and nothing refused is remembered (allow_restart).
DequeIsRecentHistory ==
    /\ Len(restarts) <= Len(admitted)
    /\ \A k \in DOMAIN restarts :
           restarts[k] = admitted[Len(admitted) - Len(restarts) + k]
    /\ \A i \in 1..(Len(admitted) - Len(restarts)) : now - admitted[i] > Window

\* What stats() reports as restart_attempts_in_window is the number of
\* attempts inside the window at that time, as the field's documentation has
\* it (restart_attempts_in_window, restart_guard_snapshot).
SnapshotCountsWindow ==
    \A k \in DOMAIN restarts : now - restarts[k] <= Window

-----------------------------------------------------------------------------
\* The clock-free view of the guard: the deque's length, and how much of it the
\* next call would pop.
Rate == INSTANCE RestartRate
            WITH attempts <- Len(restarts), expired <- Popped(restarts, now)

\* Every behaviour of the deque and the clock is one of the rate view that the
\* supervisor is modelled with (allow_restart, record_restart_attempt).
ImplementsRate == Rate!Spec
====
