-------------------------- MODULE PoolPartsProofs --------------------------
(***************************************************************************)
(* Proofs about the two parts of the pool that have a model of their own.  *)
(*                                                                         *)
(* RestartGuard, for every window and every maximum: the guard admits no   *)
(* more than it may and refuses no more than it must, and it implements    *)
(* the clock-free view RestartRate that the supervisor is modelled with.   *)
(*                                                                         *)
(* PoolMetrics, for every finite set of calls and of workers and every     *)
(* queue capacity: the counter of busy workers, the totals of jobs and the *)
(* gauge of tracked workers stay exact while calls, workers, the           *)
(* supervisor and the drop interleave.                                     *)
(***************************************************************************)
EXTENDS RestartGuard, PoolMetrics, TLAPS, FiniteSetTheorems, SequenceTheorems

(***************************************************************************)
(* The restart guard.                                                      *)
(***************************************************************************)

\* A non-empty set of naturals has a least element.
LEMMA LeastNatural ==
    ASSUME NEW T \in SUBSET Nat, T # {}
    PROVE  \E m \in T : \A k \in T : m <= k
<1>1. \E m \in T : \A k \in T : ~(<<k, m>> \in OpToRel(<, Nat))
  BY NatLessThanWellFounded, WFMin, Zenon
<1>2. PICK m \in T : \A k \in T : ~(<<k, m>> \in OpToRel(<, Nat))
  BY <1>1
<1>3. ASSUME NEW k \in T PROVE m <= k
  <2>1. <<k, m>> \in Nat \X Nat /\ <<k, m>>[1] = k /\ <<k, m>>[2] = m
    OBVIOUS
  <2>2. k < m => <<k, m>> \in OpToRel(<, Nat)
    BY <2>1, Zenon DEF OpToRel
  <2>3. ~(k < m)
    BY <1>2, <2>2
  <2>4. m \in Nat /\ k \in Nat
    OBVIOUS
  <2>5. QED  BY <2>3, <2>4
<1>4. QED  BY <1>2, <1>3

\* The pop loop is well defined: it removes exactly the leading timestamps
\* that are out of the window (allow_restart, the while loop).
LEMMA PoppedProperties ==
    ASSUME NEW s \in Seq(Nat), NEW t \in Nat
    PROVE  /\ Popped(s, t) \in 0..Len(s)
           /\ \A k \in 1..Popped(s, t) : Outside(s, k, t)
           /\ Popped(s, t) < Len(s) => ~Outside(s, Popped(s, t) + 1, t)
<1> DEFINE T == {i \in 1..Len(s) : ~Outside(s, i, t)}
           P(n) == /\ \A k \in 1..n : Outside(s, k, t)
                   /\ n < Len(s) => ~Outside(s, n + 1, t)
<1>1. \E n \in 0..Len(s) : P(n)
  <2>1. CASE T = {}
    <3>1. \A k \in 1..Len(s) : Outside(s, k, t)
      BY <2>1
    <3>2. Len(s) \in 0..Len(s)
      BY LenProperties
    <3>3. P(Len(s))
      BY <3>1, <3>2
    <3>4. QED  BY <3>2, <3>3
  <2>2. CASE T # {}
    <3>0. T \in SUBSET Nat
      OBVIOUS
    <3> HIDE DEF T
    <3>1. PICK m \in T : \A k \in T : m <= k
      BY <2>2, <3>0, LeastNatural, Zenon
    <3> USE DEF T
    <3>2. m \in 1..Len(s) /\ m - 1 \in 0..Len(s) /\ (m - 1) + 1 = m
      BY <3>1
    <3>3. ASSUME NEW k \in 1..(m - 1) PROVE Outside(s, k, t)
      <4>1. k \in 1..Len(s) /\ ~(m <= k)
        BY <3>2
      <4>2. QED  BY <3>1, <4>1
    <3>4. P(m - 1)
      BY <3>1, <3>2, <3>3
    <3>5. QED  BY <3>2, <3>4, Zenon
  <2>3. QED  BY <2>1, <2>2
<1>2. Popped(s, t) = CHOOSE n \in 0..Len(s) : P(n)
  BY DEF Popped
<1> HIDE DEF P
<1>3. Popped(s, t) \in 0..Len(s) /\ P(Popped(s, t))
  BY <1>1, <1>2
<1>4. QED  BY <1>3 DEF P

\* What is left after the loop is the deque without its first entries.
LEMMA PruneProperties ==
    ASSUME NEW s \in Seq(Nat), NEW t \in Nat
    PROVE  /\ Prune(s, t) \in Seq(Nat)
           /\ Len(Prune(s, t)) = Len(s) - Popped(s, t)
           /\ \A k \in 1..Len(Prune(s, t)) :
                  Prune(s, t)[k] = s[Popped(s, t) + k]
<1> DEFINE p == Popped(s, t)
<1>1. p \in 0..Len(s) /\ Len(s) \in Nat
  BY PoppedProperties, LenProperties
<1>2. Prune(s, t) = SubSeq(s, p + 1, Len(s))
  BY DEF Prune
<1> HIDE DEF p
<1>3. p + 1 \in Int /\ Len(s) \in Int
  BY <1>1
<1>4. \A i \in (p + 1)..Len(s) : s[i] \in Nat
  <2> SUFFICES ASSUME NEW i \in (p + 1)..Len(s) PROVE s[i] \in Nat
    OBVIOUS
  <2>1. i \in 1..Len(s)
    BY <1>1
  <2>2. QED  BY <2>1, ElementOfSeq
<1> DEFINE q == SubSeq(s, p + 1, Len(s))
<1>5. /\ q \in Seq(Nat)
      /\ Len(q) = IF p + 1 <= Len(s) THEN Len(s) - (p + 1) + 1 ELSE 0
      /\ \A i \in 1..(Len(s) - (p + 1) + 1) : q[i] = s[(p + 1) + i - 1]
  BY <1>3, <1>4, SubSeqProperties
<1> HIDE DEF q
<1>6. Len(q) = Len(s) - p
  BY <1>1, <1>5
<1>7. ASSUME NEW k \in 1..Len(q) PROVE q[k] = s[p + k]
  <2>1. k \in 1..(Len(s) - (p + 1) + 1) /\ (p + 1) + k - 1 = p + k
    BY <1>1, <1>6
  <2>2. QED  BY <1>5, <2>1
<1>8. QED  BY <1>2, <1>5, <1>6, <1>7, Zenon DEF p, q

(***************************************************************************)
(* The inductive invariant.                                                *)
(***************************************************************************)

\* Timestamps are admitted in clock order.
HistorySorted ==
    /\ \A i \in DOMAIN admitted : admitted[i] <= now
    /\ \A i, k \in DOMAIN admitted : i <= k => admitted[i] <= admitted[k]

\* What allow_restart and the clock keep between them.
IInv ==
    /\ TypeOK
    /\ HistorySorted
    /\ DequeIsRecentHistory
    /\ RateBounded
    /\ RefusedOnlyWhenFull

\* RestartGuard::new starts with an empty deque and an empty history.
LEMMA InitIInv == GuardInit => IInv
BY WindowNat, MaxRestartsPositive, MaxTimeNat
   DEF GuardInit, IInv, TypeOK, HistorySorted, DequeIsRecentHistory, RateBounded,
       RefusedOnlyWhenFull

\* Time only takes timestamps out of the window.
LEMMA TickIInv == IInv /\ Tick => IInv'
<1> SUFFICES ASSUME IInv, Tick PROVE IInv'
  OBVIOUS
<1> USE WindowNat, MaxRestartsPositive, MaxTimeNat DEF Tick, IInv
<1>1. TypeOK'
  BY DEF TypeOK
<1>2. HistorySorted'
  BY DEF TypeOK, HistorySorted
<1>3. DequeIsRecentHistory'
  BY SMTT(30) DEF TypeOK, DequeIsRecentHistory
<1>4. RateBounded'
  BY DEF RateBounded
<1>5. RefusedOnlyWhenFull'
  BY DEF RefusedOnlyWhenFull
<1>6. QED  BY <1>1, <1>2, <1>3, <1>4, <1>5

\* allow_restart prunes, then admits or refuses: either way the deque stays the
\* recent part of the history.
LEMMA AllowRestartIInv == IInv /\ AllowRestart => IInv'
<1> SUFFICES ASSUME IInv, AllowRestart PROVE IInv'
  OBVIOUS
<1> USE WindowNat, MaxRestartsPositive, MaxTimeNat
<1> DEFINE p == Popped(restarts, now)
           kept == Prune(restarts, now)
           n == Len(admitted)
           d == n - Len(restarts)
<1>1. /\ now \in Nat /\ now \in 0..MaxTime
      /\ restarts \in Seq(Nat) /\ admitted \in Seq(Nat)
      /\ n \in Nat /\ Len(restarts) \in Nat /\ d \in Nat
      /\ Len(restarts) <= MaxRestarts
  BY DEF IInv, TypeOK, DequeIsRecentHistory
<1>2. /\ p \in 0..Len(restarts)
      /\ \A k \in 1..p : now - restarts[k] > Window
      /\ p < Len(restarts) => now - restarts[p + 1] <= Window
  <2>1. /\ p \in 0..Len(restarts)
        /\ \A k \in 1..p : Outside(restarts, k, now)
        /\ p < Len(restarts) => ~Outside(restarts, p + 1, now)
    BY <1>1, PoppedProperties, Zenon
  <2>2. p < Len(restarts) => restarts[p + 1] \in Nat
    BY <1>1, <2>1, LenProperties, SMTT(30)
  <2> HIDE DEF p
  <2>3. QED  BY <1>1, <2>1, <2>2, SMTT(30) DEF Outside
<1>3. /\ kept \in Seq(Nat)
      /\ Len(kept) = Len(restarts) - p
      /\ \A k \in 1..Len(kept) : kept[k] = restarts[p + k]
  BY <1>1, PruneProperties, Zenon
<1>4. /\ \A k \in 1..Len(restarts) : restarts[k] = admitted[d + k]
      /\ \A i \in 1..d : now - admitted[i] > Window
  BY <1>1, SMTT(30) DEF IInv, DequeIsRecentHistory
<1> HIDE DEF p, kept
<1>5. /\ p \in Nat /\ p <= Len(restarts) /\ Len(kept) \in Nat
      /\ Len(kept) = Len(restarts) - p
      /\ n - Len(kept) = d + p /\ Len(kept) <= MaxRestarts /\ Len(kept) <= n
      /\ n = Len(admitted) /\ d = n - Len(restarts) /\ n \in Nat /\ d \in Nat
  <2>1. p \in Nat /\ p <= Len(restarts)
    BY <1>1, <1>2
  <2>2. Len(kept) = Len(restarts) - p
    BY <1>3
  <2>3. QED  BY <1>1, <2>1, <2>2
<1> HIDE DEF n, d
<1>6. ASSUME NEW i \in 1..(d + p) PROVE now - admitted[i] > Window
  <2>1. CASE i <= d
    BY <1>1, <1>4, <2>1
  <2>2. CASE ~(i <= d)
    <3>1. i - d \in 1..p /\ i - d \in 1..Len(restarts) /\ d + (i - d) = i
      BY <1>1, <1>2, <2>2
    <3>2. now - restarts[i - d] > Window /\ restarts[i - d] = admitted[i]
      BY <1>2, <1>4, <3>1
    <3>3. QED  BY <3>2
  <2>3. QED  BY <2>1, <2>2
<1>7. \A k \in 1..Len(kept) : kept[k] = admitted[(n - Len(kept)) + k]
  <2> SUFFICES ASSUME NEW k \in 1..Len(kept)
               PROVE  kept[k] = admitted[(n - Len(kept)) + k]
    OBVIOUS
  <2>1. p + k \in 1..Len(restarts) /\ d + (p + k) = (n - Len(kept)) + k
    BY <1>1, <1>5
  <2>2. QED  BY <1>3, <1>4, <2>1
<1>8. CASE Len(kept) >= MaxRestarts
  <2>1. /\ restarts' = kept /\ answer' = "refused"
        /\ admitted' = admitted /\ now' = now
    BY <1>8 DEF AllowRestart, kept
  <2>2. TypeOK'
    BY <1>3, <1>5, <2>1 DEF IInv, TypeOK
  <2>3. HistorySorted' /\ RateBounded'
    BY <2>1 DEF IInv, HistorySorted, RateBounded
  <2>4. DequeIsRecentHistory'
    BY <1>3, <1>6, <1>7, <1>5, <2>1, LenProperties, Zenon DEF DequeIsRecentHistory
  <2>5. RefusedOnlyWhenFull'
    <3>1. Len(kept) = MaxRestarts /\ p < Len(restarts)
      BY <1>1, <1>5, <1>8
    <3>2. p + 1 \in 1..Len(restarts) /\ d + (p + 1) = n - MaxRestarts + 1
      <4>1. MaxRestarts \in Nat
        OBVIOUS
      <4>2. p + 1 \in 1..Len(restarts)
        BY <1>5, <3>1
      <4>3. n - Len(kept) = n - MaxRestarts
        BY <3>1
      <4>4. QED  BY <1>5, <4>1, <4>2, <4>3
    <3>3. restarts[p + 1] = admitted[n - MaxRestarts + 1]
      BY <1>4, <3>2
    <3>4. QED  BY <1>2, <1>5, <2>1, <3>1, <3>3 DEF RefusedOnlyWhenFull
  <2>6. QED  BY <2>2, <2>3, <2>4, <2>5 DEF IInv
<1>9. CASE ~(Len(kept) >= MaxRestarts)
  <2>1. /\ restarts' = Append(kept, now) /\ answer' = "allowed"
        /\ admitted' = Append(admitted, now) /\ now' = now
    BY <1>9 DEF AllowRestart, kept
  <2>2. /\ restarts' \in Seq(Nat) /\ Len(restarts') = Len(kept) + 1
        /\ \A k \in 1..Len(kept) : restarts'[k] = kept[k]
        /\ restarts'[Len(kept) + 1] = now
        /\ DOMAIN restarts' = 1..(Len(kept) + 1)
    BY <1>1, <1>3, <2>1, AppendProperties, LenProperties
  <2>3. /\ admitted' \in Seq(Nat) /\ Len(admitted') = n + 1
        /\ \A k \in 1..n : admitted'[k] = admitted[k]
        /\ admitted'[n + 1] = now
        /\ DOMAIN admitted' = 1..(n + 1) /\ DOMAIN admitted = 1..n
    BY <1>1, <1>5, <2>1, AppendProperties, LenProperties
  <2>4. TypeOK'
    <3>1. Len(restarts') <= MaxRestarts
      BY <1>5, <1>9, <2>2
    <3>2. QED  BY <2>1, <2>2, <2>3, <3>1 DEF IInv, TypeOK
  <2>5. HistorySorted'
    <3>1. \A i \in 1..n : admitted'[i] <= now'
      BY <2>1, <2>3, Zenon DEF IInv, HistorySorted
    <3>2. \A i, k \in 1..n : i <= k => admitted'[i] <= admitted'[k]
      BY <2>3 DEF IInv, HistorySorted
    <3>3. \A i \in 1..(n + 1) : i \in 1..n \/ i = n + 1
      BY <1>5
    <3>4. \A i \in 1..n : ~(n + 1 <= i)
      BY <1>5
    <3>5. now <= now
      BY <1>1
    <3>6. QED  BY <2>1, <2>3, <3>1, <3>2, <3>3, <3>4, <3>5, SMTT(30) DEF HistorySorted
  <2>6. DequeIsRecentHistory'
    <3>1. Len(admitted') - Len(restarts') = d + p /\ d + p <= n
      BY <1>1, <1>5, <2>2, <2>3
    <3>2. Len(restarts') <= Len(admitted')
      BY <1>1, <1>5, <2>2, <2>3
    <3>3. ASSUME NEW k \in 1..(Len(kept) + 1)
          PROVE  restarts'[k] = admitted'[(d + p) + k]
      <4>1. CASE k = Len(kept) + 1
        <5>1. (d + p) + k = n + 1
          BY <1>1, <1>5, <4>1
        <5>2. QED  BY <2>2, <2>3, <4>1, <5>1
      <4>2. CASE k # Len(kept) + 1
        <5>1. k \in 1..Len(kept) /\ (d + p) + k \in 1..n
          <6>1. k \in Nat /\ k >= 1 /\ k <= Len(kept)
            BY <1>5, <4>2
          <6>2. QED  BY <1>5, <6>1
        <5>2. restarts'[k] = kept[k]
          BY <2>2, <5>1
        <5>3. kept[k] = admitted[(d + p) + k]
          BY <1>5, <1>7, <5>1, Zenon
        <5>4. admitted'[(d + p) + k] = admitted[(d + p) + k]
          BY <2>3, <5>1
        <5>5. QED  BY <5>2, <5>3, <5>4
      <4>3. QED  BY <4>1, <4>2
    <3>4. ASSUME NEW i \in 1..(d + p) PROVE now' - admitted'[i] > Window
      <4>1. i \in 1..n
        BY <1>1, <1>5, <3>1
      <4>2. QED  BY <1>6, <2>1, <2>3, <4>1, Zenon
    <3>5. QED  BY <2>2, <3>1, <3>2, <3>3, <3>4 DEF DequeIsRecentHistory
  <2>7. RateBounded'
    <3> SUFFICES ASSUME NEW i \in 1..(n + 1), i + MaxRestarts \in 1..(n + 1)
                 PROVE  admitted'[i + MaxRestarts] - admitted'[i] > Window
      BY <2>3 DEF RateBounded
    <3>1. CASE i + MaxRestarts = n + 1
      <4>1. i \in 1..(d + p) /\ i \in 1..n
        BY <1>1, <1>3, <1>5, <1>9, <3>1, SMTT(30)
      <4>2. QED  BY <1>6, <2>3, <3>1, <4>1
    <3>2. CASE i + MaxRestarts # n + 1
      <4>1. i \in 1..n /\ i + MaxRestarts \in 1..n
        BY <1>1, <3>2
      <4>2. QED  BY <2>3, <4>1, Zenon DEF IInv, RateBounded
    <3>3. QED  BY <3>1, <3>2
  <2>8. RefusedOnlyWhenFull'
    BY <2>1 DEF RefusedOnlyWhenFull
  <2>9. QED  BY <2>4, <2>5, <2>6, <2>7, <2>8 DEF IInv
<1>10. QED  BY <1>8, <1>9

\* Every step keeps the invariant.
LEMMA NextIInv == IInv /\ [GuardNext]_guardVars => IInv'
<1> SUFFICES ASSUME IInv, [GuardNext]_guardVars PROVE IInv'
  OBVIOUS
<1>1. CASE Tick
  BY <1>1, TickIInv
<1>2. CASE AllowRestart
  BY <1>2, AllowRestartIInv
<1>3. CASE UNCHANGED guardVars
  BY <1>3 DEF guardVars, IInv, TypeOK, HistorySorted, DequeIsRecentHistory,
              RateBounded, RefusedOnlyWhenFull
<1>4. QED  BY <1>1, <1>2, <1>3 DEF GuardNext

\* The invariant holds throughout.
LEMMA AlwaysIInv == GuardSpec => []IInv
BY InitIInv, NextIInv, PTL DEF GuardSpec

\* allow_restart admits at most MaxRestarts attempts in any window.
THEOREM RestartRateBounded == GuardSpec => []RateBounded
<1>1. IInv => RateBounded
  BY DEF IInv
<1>2. QED  BY <1>1, AlwaysIInv, PTL

\* allow_restart refuses only when the last window really is full.
THEOREM RefusalJustified == GuardSpec => []RefusedOnlyWhenFull
<1>1. IInv => RefusedOnlyWhenFull
  BY DEF IInv
<1>2. QED  BY <1>1, AlwaysIInv, PTL

\* The deque of allow_restart is the tail of the admitted history.
THEOREM DequeTracksHistory == GuardSpec => []DequeIsRecentHistory
<1>1. IInv => DequeIsRecentHistory
  BY DEF IInv
<1>2. QED  BY <1>1, AlwaysIInv, PTL

\* The clock, the deque and the history keep their types under allow_restart.
THEOREM GuardTypes == GuardSpec => []TypeOK
<1>1. IInv => TypeOK
  BY DEF IInv
<1>2. QED  BY <1>1, AlwaysIInv, PTL

(***************************************************************************)
(* RestartGuard implements RestartRate.                                    *)
(***************************************************************************)

\* A deque whose oldest timestamp is in the window loses nothing.
LEMMA PoppedNone ==
    ASSUME NEW s \in Seq(Nat), NEW t \in Nat,
           s = <<>> \/ (Len(s) > 0 /\ ~Outside(s, 1, t))
    PROVE  Popped(s, t) = 0
<1> DEFINE p == Popped(s, t)
<1>1. p \in 0..Len(s) /\ Len(s) \in Nat /\ \A k \in 1..p : Outside(s, k, t)
  BY PoppedProperties, LenProperties
<1> HIDE DEF p
<1>2. CASE s = <<>>
  BY <1>1, <1>2 DEF p
<1>3. CASE Len(s) > 0 /\ ~Outside(s, 1, t)
  <2>1. p >= 1 => 1 \in 1..p
    BY <1>1
  <2>2. p = 0
    BY <1>1, <1>3, <2>1
  <2>3. QED  BY <2>2 DEF p
<1>4. QED  BY <1>2, <1>3

\* As the clock advances the pop loop removes at least as much.
LEMMA PoppedMonotone ==
    ASSUME NEW s \in Seq(Nat), NEW t \in Nat
    PROVE  Popped(s, t) <= Popped(s, t + 1)
<1> DEFINE p == Popped(s, t)
           q == Popped(s, t + 1)
<1>1. /\ p \in 0..Len(s) /\ Len(s) \in Nat
      /\ \A k \in 1..p : Outside(s, k, t)
  BY PoppedProperties, LenProperties, Zenon
<1>2. t + 1 \in Nat
  OBVIOUS
<1>3. q \in 0..Len(s) /\ (q < Len(s) => ~Outside(s, q + 1, t + 1))
  BY <1>2, PoppedProperties
<1> HIDE DEF p, q
<1>4. SUFFICES ASSUME q < p PROVE FALSE
  BY <1>1, <1>3 DEF p, q
<1>5. q + 1 \in 1..p /\ q + 1 \in 1..Len(s) /\ q < Len(s)
  BY <1>1, <1>3, <1>4
<1>6. Outside(s, q + 1, t) /\ ~Outside(s, q + 1, t + 1) /\ s[q + 1] \in Nat
  BY <1>1, <1>3, <1>5, LenProperties, SMTT(30)
<1>7. QED  BY <1>6, WindowNat DEF Outside

\* The empty deque is the initial state of the rate view.
LEMMA RateInit == GuardInit => Rate!Init
<1> SUFFICES ASSUME GuardInit PROVE Rate!Init
  OBVIOUS
<1>1. restarts \in Seq(Nat) /\ now \in Nat /\ restarts = <<>> /\ Len(restarts) = 0
  BY DEF GuardInit
<1>2. Popped(restarts, now) = 0
  BY <1>1, PoppedNone, Zenon
<1>3. QED  BY <1>1, <1>2 DEF Rate!Init

\* A clock tick makes some attempts of the rate view expire, or none.
LEMMA RateTick == IInv /\ Tick => [Rate!Next]_Rate!rateVars
<1> SUFFICES ASSUME IInv, Tick PROVE [Rate!Next]_Rate!rateVars
  OBVIOUS
<1> DEFINE p == Popped(restarts, now)
           q == Popped(restarts, now + 1)
<1>1. restarts \in Seq(Nat) /\ now \in Nat /\ now + 1 \in Nat
  BY MaxTimeNat DEF IInv, TypeOK
<1>2. /\ p \in 0..Len(restarts) /\ q \in 0..Len(restarts) /\ p <= q
      /\ Len(restarts) \in Nat
  BY <1>1, PoppedProperties, PoppedMonotone, LenProperties, Zenon
<1>3. restarts' = restarts /\ now' = now + 1
  BY DEF Tick
<1>4. Popped(restarts, now)' = q /\ Len(restarts)' = Len(restarts)
  BY <1>3
<1> HIDE DEF p, q
<1>5. CASE p = q
  BY <1>4, <1>5 DEF Rate!rateVars, p
<1>6. CASE p # q
  <2>1. q \in (p + 1)..Len(restarts)
    BY <1>2, <1>6
  <2>2. Rate!WindowElapses
    BY <1>4, <2>1 DEF Rate!WindowElapses, p
  <2>3. QED  BY <2>2 DEF Rate!Next
<1>7. QED  BY <1>5, <1>6

\* allow_restart is RecordRestartAttempt of the rate view.
LEMMA RateAllowRestart == IInv /\ AllowRestart => Rate!Next
<1> SUFFICES ASSUME IInv, AllowRestart PROVE Rate!Next
  OBVIOUS
<1> DEFINE p == Popped(restarts, now)
           kept == Prune(restarts, now)
<1>1. /\ restarts \in Seq(Nat) /\ now \in Nat /\ Len(restarts) \in Nat
  BY MaxTimeNat, LenProperties DEF IInv, TypeOK
<1>2. /\ p \in 0..Len(restarts)
      /\ p < Len(restarts) => ~Outside(restarts, p + 1, now)
  BY <1>1, PoppedProperties
<1>3. /\ kept \in Seq(Nat) /\ Len(kept) = Len(restarts) - p /\ Len(kept) \in Nat
      /\ \A k \in 1..Len(kept) : kept[k] = restarts[p + k]
  BY <1>1, PruneProperties, LenProperties
<1>4. now' = now
  BY DEF AllowRestart
<1> HIDE DEF p
<1>5. Len(kept) > 0 => ~Outside(kept, 1, now)
  <2> SUFFICES ASSUME Len(kept) > 0 PROVE ~Outside(kept, 1, now)
    OBVIOUS
  <2>1. p < Len(restarts) /\ 1 \in 1..Len(kept)
    BY <1>1, <1>2, <1>3, SMTT(30)
  <2>2. kept[1] = restarts[p + 1]
    BY <1>3, <2>1
  <2>3. QED  BY <1>2, <2>1, <2>2 DEF Outside
<1>6. CASE Len(kept) >= MaxRestarts
  <2>1. restarts' = kept
    BY <1>6 DEF AllowRestart
  <2>2. Len(kept) > 0
    BY <1>3, <1>6, MaxRestartsPositive
  <2> HIDE DEF kept
  <2>3. Popped(kept, now) = 0
    BY <1>1, <1>3, <1>5, <2>2, PoppedNone
  <2>4. Popped(restarts, now)' = 0 /\ Len(restarts)' = Len(restarts) - p
    BY <1>3, <1>4, <2>1, <2>3
  <2>5. ~(Len(restarts) - p < MaxRestarts)
    BY <1>3, <1>6, MaxRestartsPositive
  <2>6. (Len(restarts) - p) + 0 = Len(restarts) - p
    BY <1>1, <1>2
  <2>7. Rate!RecordRestartAttempt
    BY <2>4, <2>5, <2>6 DEF Rate!RecordRestartAttempt, Rate!AllowRestart, p
  <2>8. QED  BY <2>7 DEF Rate!Next
<1>7. CASE ~(Len(kept) >= MaxRestarts)
  <2>1. restarts' = Append(kept, now)
    BY <1>7 DEF AllowRestart
  <2> HIDE DEF kept
  <2>2. /\ Append(kept, now) \in Seq(Nat)
        /\ Len(Append(kept, now)) = Len(kept) + 1
        /\ Len(kept) > 0 => Append(kept, now)[1] = kept[1]
        /\ Len(kept) = 0 => Append(kept, now)[1] = now
    BY <1>1, <1>3, AppendProperties
  <2>3. ~Outside(Append(kept, now), 1, now)
    BY <1>1, <1>3, <1>5, <2>2, WindowNat DEF Outside
  <2>4. Len(Append(kept, now)) > 0
    BY <1>3, <2>2
  <2>5. Popped(Append(kept, now), now) = 0
    BY <1>1, <2>2, <2>3, <2>4, PoppedNone, Zenon
  <2>6. Popped(restarts, now)' = 0 /\ Len(restarts)' = (Len(restarts) - p) + 1
    BY <1>3, <1>4, <2>1, <2>2, <2>5
  <2>7. Len(restarts) - p < MaxRestarts
    BY <1>3, <1>7, MaxRestartsPositive
  <2>8. Rate!RecordRestartAttempt
    BY <2>6, <2>7 DEF Rate!RecordRestartAttempt, Rate!AllowRestart, p
  <2>9. QED  BY <2>8 DEF Rate!Next
<1>8. QED  BY <1>6, <1>7

\* The deque-and-clock guard is a correct implementation of the rate view
\* that WorkerPool's supervisor is built on.
THEOREM GuardImplementsRate == GuardSpec => ImplementsRate
<1>1. IInv /\ [GuardNext]_guardVars => [Rate!Next]_Rate!rateVars
  <2>1. CASE UNCHANGED guardVars
    BY <2>1 DEF guardVars, Rate!rateVars
  <2>2. QED  BY <2>1, RateTick, RateAllowRestart DEF GuardNext
<1>2. QED  BY <1>1, RateInit, AlwaysIInv, PTL DEF GuardSpec, ImplementsRate, Rate!Spec

(***************************************************************************)
(* The metrics.                                                            *)
(***************************************************************************)

\* The groups of variables that actions leave alone.
USE DEF callVars, workerVars, counters, gauges

CallStates == {"start", "sent", "read", "await", "returned"}
WorkerStates == {"none", "idle", "took", "read", "check", "up", "run", "drop", "down", "exit"}

\* The types.  No reply is "Canceled": it is sent for a canceled job only, whose
\* call has returned.
MetricsTypes ==
    /\ queue \in Seq(Calls)
    /\ map \in SUBSET Workers
    /\ cpc \in [Calls -> CallStates]
    /\ canceled \in [Calls -> BOOLEAN]
    /\ reply \in [Calls -> {"none", "Ok", "Execution", "Panic"}]
    /\ wpc \in [Workers -> WorkerStates]
    /\ wjob \in [Workers -> SUBSET Calls]
    /\ accepted \in Nat
    /\ completed \in [Outcomes -> Nat]
    /\ \A c \in Calls : canceled[c] => cpc[c] = "returned"

\* The workers between the two halves of WorkerBusyGuard.
Holders == {w \in Workers : wpc[w] \in {"up", "run", "drop"}}

\* A worker that has not left its loop is tracked.
Tracked == \A w \in Workers : wpc[w] \notin {"none", "exit"} => w \in map

BusyInv == Tracked /\ busy = Cardinality(Holders)

MetricsInv == MetricsTypes /\ BusyInv /\ AcceptedOrCompleted /\ WorkersTotalIsExact

(***************************************************************************)
(* Types.                                                                  *)
(***************************************************************************)

\* A call moves on, without setting the flag of its job.
LEMMA CallMoves ==
    ASSUME MetricsTypes, NEW c \in Calls, NEW x \in CallStates, cpc[c] # "returned",
           Goto(c, x), canceled' = canceled
    PROVE  /\ cpc' \in [Calls -> CallStates]
           /\ \A d \in Calls : canceled'[d] => cpc'[d] = "returned"
BY Zenon DEF MetricsTypes, Goto

\* A completed job is counted under one outcome.
LEMMA CompletedType ==
    ASSUME MetricsTypes, NEW o \in Outcomes, record_job_completed(o)
    PROVE  completed' \in [Outcomes -> Nat]
BY DEF MetricsTypes, record_job_completed

\* The outcomes of the replies that are sent.
LEMMA OutcomeOfReply ==
    /\ OutcomeOf("Ok") = "ok"
    /\ OutcomeOf("Execution") = "failed" /\ OutcomeOf("Panic") = "failed"
BY DEF OutcomeOf

\* The queue is a sequence of calls, whoever sends or receives.
LEMMA QueueTypes ==
    ASSUME MetricsTypes
    PROVE  /\ \A c \in Calls : Append(queue, c) \in Seq(Calls)
           /\ queue # <<>> => Tail(queue) \in Seq(Calls) /\ Head(queue) \in Calls
BY HeadTailProperties, AppendProperties, EmptySeq DEF MetricsTypes

\* Calls keep the types; only a call that returns cancels its job.
LEMMA CallTypes ==
    ASSUME MetricsTypes, NEW c \in Calls, Call(c)
    PROVE  MetricsTypes'
<1>0. {"sent", "read", "await", "returned"} \subseteq CallStates
  BY DEF CallStates
<1>1. CASE Send(c)
  <2>1. cpc[c] # "returned" /\ Goto(c, "sent") /\ queue' = Append(queue, c)
    BY <1>1 DEF Send
  <2>2. QED  BY <1>0, <1>1, <2>1, CallMoves, QueueTypes, Zenon DEF Send, MetricsTypes
<1>2. CASE SendFails(c) \/ ReadDepth(c)
  <2>1. cpc[c] # "returned" /\ \E x \in CallStates : Goto(c, x)
    BY <1>0, <1>2 DEF SendFails, ReadDepth
  <2>2. QED  BY <1>2, <2>1, CallMoves, Zenon DEF SendFails, ReadDepth, MetricsTypes
<1>3. CASE record_job_accepted(c)
  <2>1. cpc[c] # "returned" /\ Goto(c, "await") /\ accepted' \in Nat
    BY <1>3 DEF record_job_accepted, MetricsTypes
  <2>2. QED  BY <1>0, <1>3, <2>1, CallMoves, Zenon DEF record_job_accepted, MetricsTypes
<1>4. CASE Receive(c)
  <2>1. cpc[c] # "returned" /\ Goto(c, "returned")
    BY <1>4 DEF Receive
  <2>2. OutcomeOf(reply[c]) \in Outcomes
    BY <1>4, OutcomeOfReply DEF Receive, MetricsTypes, Outcomes
  <2>3. completed' \in [Outcomes -> Nat]
    BY <1>4, <2>2, CompletedType, Zenon DEF Receive
  <2>4. QED  BY <1>0, <1>4, <2>1, <2>3, CallMoves, Zenon DEF Receive, MetricsTypes
<1>5. CASE TimesOut(c)
  <2>1. completed' \in [Outcomes -> Nat]
    BY <1>5, CompletedType DEF TimesOut, Outcomes
  <2>2. QED  BY <1>0, <1>5, <2>1, Zenon DEF TimesOut, MetricsTypes, Goto
<1>6. CASE WorkerGone(c)
  <2>1. cpc[c] # "returned" /\ Goto(c, "returned")
    BY <1>6 DEF WorkerGone
  <2>2. completed' \in [Outcomes -> Nat]
    BY <1>6, CompletedType DEF WorkerGone, Outcomes
  <2>3. QED  BY <1>0, <1>6, <2>1, <2>2, CallMoves, Zenon DEF WorkerGone, MetricsTypes
<1>7. QED  BY <1>1, <1>2, <1>3, <1>4, <1>5, <1>6, Zenon DEF Call

\* A send that reaches its caller is not the reply to a canceled job.
LEMMA ReplyTypes ==
    ASSUME MetricsTypes, NEW c \in Calls, NEW r, SendReply(c, r),
           canceled[c] \/ r \in {"Ok", "Execution", "Panic"}
    PROVE  reply' \in [Calls -> {"none", "Ok", "Execution", "Panic"}]
BY Zenon DEF MetricsTypes, SendReply

\* Workers keep them.
LEMMA WorkerTypes ==
    ASSUME MetricsTypes, NEW w \in Workers, Worker(w)
    PROVE  MetricsTypes'
<1>0. /\ wpc \in [Workers -> WorkerStates] /\ wjob \in [Workers -> SUBSET Calls]
      /\ [wjob EXCEPT ![w] = {}] \in [Workers -> SUBSET Calls]
      /\ \A x \in WorkerStates : [wpc EXCEPT ![w] = x] \in [Workers -> WorkerStates]
  BY Zenon DEF MetricsTypes
<1>1. /\ wpc' \in [Workers -> WorkerStates]
      /\ UNCHANGED <<map, cpc, canceled, accepted, completed>>
  <2>1. {"idle", "took", "read", "check", "up", "run", "drop", "down", "exit"}
          \subseteq WorkerStates
    BY DEF WorkerStates
  <2>2. CASE Take(w) \/ ReadLen(w) \/ PublishLen(w) \/ SkipCanceled(w) \/ LoseJob(w)
    BY <1>0, <2>1, <2>2, Zenon DEF Take, ReadLen, PublishLen, SkipCanceled, LoseJob, GotoW
  <2>3. CASE StartBusy(w) \/ PublishUp(w) \/ RunJob(w) \/ EndBusy(w) \/ Shutdown(w)
    BY <1>0, <2>1, <2>3, Zenon DEF StartBusy, PublishUp, RunJob, EndBusy, Shutdown, GotoW
  <2>4. CASE PublishDown(w)
    BY <1>0, <2>1, <2>4, Zenon DEF PublishDown, GotoW
  <2>5. QED  BY <2>2, <2>3, <2>4, Zenon DEF Worker
<1>2. CASE Take(w)
  <2>1. Tail(queue) \in Seq(Calls) /\ Head(queue) \in Calls
    BY <1>2, QueueTypes, Zenon DEF Take
  <2>2. [wjob EXCEPT ![w] = {Head(queue)}] \in [Workers -> SUBSET Calls]
    BY <1>0, <2>1, Zenon
  <2>3. QED  BY <1>1, <1>2, <2>1, <2>2, Zenon DEF Take, MetricsTypes
<1>3. CASE SkipCanceled(w) \/ RunJob(w)
  <2>1. reply' \in [Calls -> {"none", "Ok", "Execution", "Panic"}]
    BY <1>0, <1>3, ReplyTypes, Zenon DEF SkipCanceled, RunJob
  <2>2. QED  BY <1>0, <1>1, <1>3, <2>1, Zenon DEF SkipCanceled, RunJob, MetricsTypes
<1>4. CASE \/ ReadLen(w) \/ PublishLen(w) \/ LoseJob(w) \/ StartBusy(w)
           \/ PublishUp(w) \/ EndBusy(w) \/ PublishDown(w) \/ Shutdown(w)
  <2>1. UNCHANGED <<queue, reply>> /\ wjob' \in {wjob, [wjob EXCEPT ![w] = {}]}
    BY <1>4, Zenon DEF ReadLen, PublishLen, LoseJob, StartBusy, PublishUp, EndBusy,
                       PublishDown, Shutdown
  <2>2. QED  BY <1>0, <1>1, <2>1, Zenon DEF MetricsTypes
<1>5. QED  BY <1>2, <1>3, <1>4, Zenon DEF Worker

\* So do the supervisor and the drop.
LEMMA PoolTypes ==
    ASSUME MetricsTypes, Supervisor \/ Owner
    PROVE  MetricsTypes'
<1>1. CASE Supervisor
  <2>1. PICK w \in Workers : RemoveHandle(w) \/ SpawnWorker(w)
    BY <1>1 DEF Supervisor
  <2>2. map' \in SUBSET Workers /\ wpc' \in [Workers -> WorkerStates]
    <3>1. {"idle", "exit"} \subseteq WorkerStates
      BY DEF WorkerStates
    <3>2. QED  BY <2>1, <3>1, Zenon DEF RemoveHandle, SpawnWorker, GotoW, MetricsTypes
  <2>3. QED  BY <2>1, <2>2, Zenon DEF RemoveHandle, SpawnWorker, MetricsTypes
<1>2. CASE DrainOne
  BY <1>2, QueueTypes, Zenon DEF DrainOne, MetricsTypes
<1>3. CASE JoinWorkers
  BY <1>3, Zenon DEF JoinWorkers, MetricsTypes
<1>4. CASE Close \/ DrainRead \/ DrainPublish \/ RequestShutdown \/ JoinSupervisor
  BY <1>4, Zenon
  DEF Close, DrainRead, DrainPublish, RequestShutdown, JoinSupervisor, MetricsTypes
<1>5. QED  BY <1>1, <1>2, <1>3, <1>4, Zenon DEF Owner

(***************************************************************************)
(* Busy workers.                                                           *)
(***************************************************************************)

GuardStates == {"up", "run", "drop"}

\* A step that moves worker w to x, starts or ends no guard, and leaves w
\* tracked if it leaves it in its loop.
Quiet(w, x) ==
    /\ wpc' = [wpc EXCEPT ![w] = x] /\ busy' = busy /\ map' = map
    /\ wpc[w] \notin {"none", "exit"}
    /\ wpc[w] \in GuardStates <=> x \in GuardStates

\* Such a step keeps the count.
LEMMA QuietStep ==
    ASSUME MetricsTypes, BusyInv, NEW w \in Workers, NEW x, Quiet(w, x)
    PROVE  BusyInv'
<1>1. \A v \in Workers : wpc'[v] = IF v = w THEN x ELSE wpc[v]
  BY DEF Quiet, MetricsTypes
<1>2. Holders' = Holders
  BY <1>1 DEF Holders, Quiet, GuardStates
<1>3. Tracked'
  BY <1>1 DEF BusyInv, Tracked, Quiet
<1>4. QED  BY <1>2, <1>3 DEF BusyInv, Quiet

\* A step that moves no worker, and takes no handle of a worker in its loop.
LEMMA BusyKept ==
    ASSUME BusyInv, wpc' = wpc, busy' = busy,
           \A w \in map \ map' : wpc[w] \in {"none", "exit"}
    PROVE  BusyInv'
BY Zenon DEF BusyInv, Tracked, Holders

\* Guards can be counted.
LEMMA HoldersFinite == IsFiniteSet(Holders) /\ Cardinality(Holders) \in Nat
<1>1. Holders \subseteq Workers /\ IsFiniteSet(Workers)
  BY MetricsAssumption DEF Holders
<1>2. IsFiniteSet(Holders)
  BY <1>1, FS_Subset, Zenon
<1>3. QED  BY <1>2, FS_CardinalityType, Zenon

\* The count follows a worker's guard; it is not zero when a guard is dropped.
LEMMA WorkerBusy ==
    ASSUME MetricsTypes, BusyInv, NEW w \in Workers, Worker(w)
    PROVE  BusyInv'
<1>0. wpc \in [Workers -> WorkerStates]
  BY DEF MetricsTypes
<1>1. CASE StartBusy(w)
  <2>1. /\ wpc[w] = "check" /\ busy' = busy + 1 /\ map' = map
        /\ \A v \in Workers : wpc'[v] = IF v = w THEN "up" ELSE wpc[v]
    BY <1>0, <1>1 DEF StartBusy, GotoW
  <2>2. Holders' = Holders \cup {w} /\ w \notin Holders
    BY <2>1 DEF Holders
  <2>3. Cardinality(Holders \cup {w}) = Cardinality(Holders) + 1
    BY <2>2, HoldersFinite, FS_AddElement, Zenon
  <2>4. Tracked'
    BY <2>1 DEF BusyInv, Tracked
  <2>5. QED  BY <2>1, <2>2, <2>3, <2>4 DEF BusyInv
<1>2. CASE EndBusy(w)
  <2>1. /\ wpc[w] = "drop" /\ busy' = (IF busy = 0 THEN 0 ELSE busy - 1) /\ map' = map
        /\ \A v \in Workers : wpc'[v] = IF v = w THEN "down" ELSE wpc[v]
    BY <1>0, <1>2 DEF EndBusy, GotoW
  <2>2. Holders' = Holders \ {w} /\ w \in Holders
    BY <2>1 DEF Holders
  <2>3. Cardinality(Holders \ {w}) = Cardinality(Holders) - 1
    BY <2>2, HoldersFinite, FS_RemoveElement, Zenon
  <2>4. IsFiniteSet(Holders \ {w}) /\ Cardinality(Holders \ {w}) \in Nat
    BY HoldersFinite, FS_RemoveElement, FS_CardinalityType, Zenon
  <2>5. busy' = busy - 1
    BY <2>1, <2>3, <2>4, HoldersFinite DEF BusyInv
  <2>6. Tracked'
    BY <2>1 DEF BusyInv, Tracked
  <2>7. QED  BY <2>2, <2>3, <2>5, <2>6 DEF BusyInv
<1>3. CASE Take(w) \/ ReadLen(w) \/ PublishLen(w) \/ SkipCanceled(w) \/ LoseJob(w)
  <2>1. \E x : Quiet(w, x)
    BY <1>3, Zenon
    DEF Take, ReadLen, PublishLen, SkipCanceled, LoseJob, GotoW, Quiet, GuardStates
  <2>2. QED  BY <2>1, QuietStep, Zenon
<1>4. CASE PublishUp(w) \/ RunJob(w) \/ PublishDown(w) \/ Shutdown(w)
  <2>1. \E x : Quiet(w, x)
    BY <1>4, Zenon DEF PublishUp, RunJob, PublishDown, Shutdown, GotoW, Quiet, GuardStates
  <2>2. QED  BY <2>1, QuietStep, Zenon
<1>5. QED  BY <1>1, <1>2, <1>3, <1>4, Zenon DEF Worker

\* Handles are removed of workers that have left their loop.
LEMMA PoolBusy ==
    ASSUME MetricsTypes, BusyInv, Supervisor \/ Owner \/ \E c \in Calls : Call(c)
    PROVE  BusyInv'
<1>1. CASE \E c \in Calls : Call(c)
  <2>1. UNCHANGED <<wpc, busy, map>>
    BY <1>1, Zenon DEF Call, Send, SendFails, ReadDepth, record_job_accepted, Receive,
                       TimesOut, WorkerGone
  <2>2. QED  BY <2>1, BusyKept, Zenon
<1>2. CASE Owner
  <2>1. UNCHANGED <<wpc, busy>> /\ \A w \in map \ map' : wpc[w] = "exit"
    BY <1>2, Zenon DEF Owner, Close, DrainOne, DrainRead, DrainPublish, RequestShutdown,
                       JoinSupervisor, JoinWorkers
  <2>2. QED  BY <2>1, BusyKept, Zenon
<1>3. ASSUME NEW w \in Workers, RemoveHandle(w)
      PROVE  BusyInv'
  BY <1>3, BusyKept, Zenon DEF RemoveHandle
<1>4. ASSUME NEW w \in Workers, SpawnWorker(w)
      PROVE  BusyInv'
  <2>1. PICK x \in {"idle", "exit"} : wpc' = [wpc EXCEPT ![w] = x]
    BY <1>4, Zenon DEF SpawnWorker, GotoW
  <2>2. \A v \in Workers : wpc'[v] = IF v = w THEN x ELSE wpc[v]
    BY <2>1 DEF MetricsTypes
  <2>3. wpc[w] = "none" /\ busy' = busy /\ map' = map \cup {w}
    BY <1>4, Zenon DEF SpawnWorker
  <2>4. Holders' = Holders
    BY <2>2, <2>3 DEF Holders
  <2>5. Tracked'
    BY <2>2, <2>3 DEF BusyInv, Tracked
  <2>6. QED  BY <2>3, <2>4, <2>5 DEF BusyInv
<1>5. QED  BY <1>1, <1>2, <1>3, <1>4, Zenon DEF Supervisor

(***************************************************************************)
(* Jobs accepted and completed, and workers tracked.                       *)
(***************************************************************************)

Waiting == {c \in Calls : cpc[c] = "await"}
Total == completed["ok"] + completed["failed"] + completed["timeout"] + completed["cancelled"]

\* Waiting calls can be counted.
LEMMA WaitingFinite == IsFiniteSet(Waiting) /\ Cardinality(Waiting) \in Nat
<1>1. Waiting \subseteq Calls /\ IsFiniteSet(Calls)
  BY MetricsAssumption DEF Waiting
<1>2. IsFiniteSet(Waiting)
  BY <1>1, FS_Subset, Zenon
<1>3. QED  BY <1>2, FS_CardinalityType, Zenon

\* A waiting call returns and counts its job under one outcome.
LEMMA Completes ==
    ASSUME MetricsTypes, AcceptedOrCompleted, NEW c \in Calls, cpc[c] = "await",
           NEW o \in {"ok", "failed", "timeout"}, record_job_completed(o),
           Goto(c, "returned"), accepted' = accepted
    PROVE  AcceptedOrCompleted'
<1>1. Waiting' = Waiting \ {c} /\ c \in Waiting
  BY DEF Waiting, Goto, MetricsTypes
<1>2. Cardinality(Waiting \ {c}) = Cardinality(Waiting) - 1
  BY <1>1, WaitingFinite, FS_RemoveElement, Zenon
<1>3. Total' = Total + 1 /\ Total \in Nat /\ completed'["cancelled"] = completed["cancelled"]
  <2>1. /\ \A p \in Outcomes : completed[p] \in Nat
        /\ \A p \in Outcomes : completed'[p] = IF p = o THEN completed[p] + 1 ELSE completed[p]
    BY DEF record_job_completed, MetricsTypes
  <2>2. QED  BY <2>1 DEF Total, Outcomes
<1>4. accepted = Total + Cardinality(Waiting) /\ completed["cancelled"] = 0
  BY DEF AcceptedOrCompleted, Total, Waiting
<1>5. accepted' = Total' + Cardinality(Waiting')
  BY <1>1, <1>2, <1>3, <1>4, WaitingFinite
<1>6. QED  BY <1>3, <1>4, <1>5, Zenon DEF AcceptedOrCompleted, Total, Waiting

\* A job is counted as accepted when its call begins to wait, as completed when
\* the call stops waiting.
LEMMA CallTotals ==
    ASSUME MetricsTypes, AcceptedOrCompleted, NEW c \in Calls, Call(c)
    PROVE  AcceptedOrCompleted'
<1>1. CASE Send(c) \/ SendFails(c) \/ ReadDepth(c)
  <2>1. Waiting' = Waiting
    BY <1>1 DEF Send, SendFails, ReadDepth, Goto, Waiting, MetricsTypes
  <2>2. UNCHANGED <<accepted, completed>>
    BY <1>1, Zenon DEF Send, SendFails, ReadDepth
  <2>3. QED  BY <2>1, <2>2, Zenon DEF AcceptedOrCompleted, Waiting
<1>2. CASE record_job_accepted(c)
  <2>1. Waiting' = Waiting \cup {c} /\ c \notin Waiting
    BY <1>2 DEF record_job_accepted, Goto, Waiting, MetricsTypes
  <2>2. Cardinality(Waiting \cup {c}) = Cardinality(Waiting) + 1
    BY <2>1, WaitingFinite, FS_AddElement, Zenon
  <2>3. Total \in Nat
    BY DEF Total, MetricsTypes, Outcomes
  <2>4. accepted = Total + Cardinality(Waiting) /\ completed["cancelled"] = 0
    BY DEF AcceptedOrCompleted, Total, Waiting
  <2>5. accepted' = accepted + 1 /\ completed' = completed
    BY <1>2 DEF record_job_accepted
  <2>6. accepted' = Total + Cardinality(Waiting')
    BY <2>1, <2>2, <2>3, <2>4, <2>5, WaitingFinite
  <2>7. QED  BY <2>4, <2>5, <2>6, Zenon DEF AcceptedOrCompleted, Total, Waiting
<1>3. CASE Receive(c)
  <2>1. OutcomeOf(reply[c]) \in {"ok", "failed", "timeout"}
    <3>1. reply[c] \in {"Ok", "Execution", "Panic"}
      BY <1>3 DEF Receive, MetricsTypes
    <3>2. QED  BY <3>1, OutcomeOfReply
  <2>2. QED  BY <1>3, <2>1, Completes, Zenon DEF Receive
<1>4. CASE TimesOut(c) \/ WorkerGone(c)
  BY <1>4, Completes, Zenon DEF TimesOut, WorkerGone
<1>5. QED  BY <1>1, <1>2, <1>3, <1>4, Zenon DEF Call

(***************************************************************************)
(* The theorems.                                                           *)
(***************************************************************************)

\* A new pool is idle.
LEMMA InitMetricsInv == Init => MetricsInv
<1> SUFFICES ASSUME Init PROVE MetricsInv
  OBVIOUS
<1>1. MetricsTypes
  <2>1. <<>> \in Seq(Calls) /\ FirstIds \in SUBSET Workers
    BY EmptySeq, MetricsAssumption
  <2>2. /\ [c \in Calls |-> "start"] \in [Calls -> CallStates]
        /\ [c \in Calls |-> FALSE] \in [Calls -> BOOLEAN]
        /\ [c \in Calls |-> "none"] \in [Calls -> {"none", "Ok", "Execution", "Panic"}]
    BY DEF CallStates
  <2>3. /\ [w \in Workers |-> IF w \in FirstIds THEN "idle" ELSE "none"]
             \in [Workers -> WorkerStates]
        /\ [w \in Workers |-> {}] \in [Workers -> SUBSET Calls]
        /\ [o \in Outcomes |-> 0] \in [Outcomes -> Nat] /\ 0 \in Nat
    BY DEF WorkerStates
  <2>4. \A c \in Calls : canceled[c] = FALSE
    BY DEF Init
  <2>5. QED  BY <2>1, <2>2, <2>3, <2>4, Zenon DEF Init, MetricsTypes
<1>2. BusyInv
  <2>1. \A w \in Workers : wpc[w] = IF w \in FirstIds THEN "idle" ELSE "none"
    BY DEF Init
  <2>2. Holders = {}
    BY <2>1 DEF Holders
  <2>3. QED  BY <2>1, <2>2, FS_EmptySet DEF Init, BusyInv, Tracked
<1>3. AcceptedOrCompleted
  <2>1. Waiting = {}
    BY DEF Init, Waiting
  <2>2. accepted = 0 /\ \A o \in Outcomes : completed[o] = 0
    BY DEF Init
  <2>3. Total = 0 /\ completed["cancelled"] = 0
    BY <2>2 DEF Total, Outcomes
  <2>4. accepted = Total + Cardinality(Waiting)
    BY <2>1, <2>2, <2>3, FS_EmptySet
  <2>5. QED  BY <2>3, <2>4, Zenon DEF AcceptedOrCompleted, Total, Waiting
<1>4. WorkersTotalIsExact
  BY DEF Init, WorkersTotalIsExact, Desired
<1>5. QED  BY <1>1, <1>2, <1>3, <1>4 DEF MetricsInv

\* Every step keeps the four parts together.
LEMMA NextMetricsInv == MetricsInv /\ [Next]_vars => MetricsInv'
<1> SUFFICES ASSUME MetricsTypes, BusyInv, AcceptedOrCompleted, WorkersTotalIsExact,
                    [Next]_vars
             PROVE  MetricsInv'
  BY DEF MetricsInv
<1>1. CASE UNCHANGED vars
  BY <1>1, Zenon
  DEF vars, MetricsInv, MetricsTypes, BusyInv, Tracked, Holders, AcceptedOrCompleted,
      WorkersTotalIsExact
<1>2. ASSUME NEW c \in Calls, Call(c)
      PROVE  MetricsInv'
  <2>1. UNCHANGED <<map, totalGauge>>
    BY <1>2, Zenon DEF Call, Send, SendFails, ReadDepth, record_job_accepted, Receive,
                       TimesOut, WorkerGone
  <2>2. WorkersTotalIsExact'
    BY <2>1 DEF WorkersTotalIsExact
  <2>3. QED  BY <1>2, <2>2, CallTypes, PoolBusy, CallTotals, Zenon DEF MetricsInv
<1>3. ASSUME NEW w \in Workers, Worker(w)
      PROVE  MetricsInv'
  <2>1. UNCHANGED <<map, totalGauge, cpc, accepted, completed>>
    BY <1>3, Zenon DEF Worker, Take, ReadLen, PublishLen, SkipCanceled, LoseJob, StartBusy,
                       PublishUp, RunJob, EndBusy, PublishDown, Shutdown
  <2>2. WorkersTotalIsExact' /\ AcceptedOrCompleted'
    BY <2>1, Zenon DEF WorkersTotalIsExact, AcceptedOrCompleted
  <2>3. QED  BY <1>3, <2>2, WorkerTypes, WorkerBusy, Zenon DEF MetricsInv
<1>4. CASE Supervisor \/ Owner
  <2>1. UNCHANGED <<cpc, accepted, completed>>
    BY <1>4, Zenon DEF Supervisor, RemoveHandle, SpawnWorker, Owner, Close, DrainOne,
                       DrainRead, DrainPublish, RequestShutdown, JoinSupervisor, JoinWorkers
  <2>2. \/ UNCHANGED <<map, totalGauge>>
        \/ totalGauge' = Cardinality(map')
        \/ map' = {} /\ totalGauge' = 0
    BY <1>4, Zenon DEF Supervisor, RemoveHandle, SpawnWorker, Owner, Close, DrainOne,
                       DrainRead, DrainPublish, RequestShutdown, JoinSupervisor, JoinWorkers
  <2>3. WorkersTotalIsExact' /\ AcceptedOrCompleted'
    BY <2>1, <2>2, FS_EmptySet, Zenon DEF WorkersTotalIsExact, AcceptedOrCompleted
  <2>4. QED  BY <1>4, <2>3, PoolTypes, PoolBusy, Zenon DEF MetricsInv
<1>5. QED  BY <1>1, <1>2, <1>3, <1>4, Zenon DEF Next

\* So they hold of every reachable state.
LEMMA AlwaysMetricsInv == Spec => []MetricsInv
BY InitMetricsInv, NextMetricsInv, PTL DEF Spec

\* The counter of busy workers (busy_workers, WorkerBusyGuard) is the number of
\* workers that hold a guard, whatever panics, and all of them are tracked.
THEOREM BusyCountExact == Spec => []BusyCountsGuards
<1>1. MetricsInv => BusyCountsGuards
  BY DEF MetricsInv, BusyInv, Tracked, Holders, BusyCountsGuards
<1>2. QED  BY <1>1, AlwaysMetricsInv, PTL

\* Every accepted job is counted as completed once, when its call returns, with
\* an outcome that is never "cancelled" (record_job_accepted,
\* record_job_completed).
THEOREM TotalsAgree == Spec => []AcceptedOrCompleted
<1>1. MetricsInv => AcceptedOrCompleted
  BY DEF MetricsInv
<1>2. QED  BY <1>1, AlwaysMetricsInv, PTL

\* The gauge of tracked workers is the size of the handle map whenever its lock
\* is free (record_pool_workers_total under the write lock).
THEOREM WorkersTotalExact == Spec => []WorkersTotalIsExact
<1>1. MetricsInv => WorkersTotalIsExact
  BY DEF MetricsInv
<1>2. QED  BY <1>1, AlwaysMetricsInv, PTL
====
