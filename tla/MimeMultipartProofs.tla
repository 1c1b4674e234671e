------------------------ MODULE MimeMultipartProofs ------------------------
(***************************************************************************)
(* What compose writes, parse reads back (mime.rs), for every finite table *)
(* of messages, every nesting and every hash function.                     *)
(*                                                                         *)
(* A message refers to older ones, so the renderer, the hash and the tree  *)
(* expected back are functions on the numbers of messages; the parser is a *)
(* function on texts, and recurs on the parts, which have fewer lines.     *)
(* Each is first shown to exist, then how it unfolds.  The boundary that   *)
(* compose generates is free because each line of a body rules out one     *)
(* attempt at most, and there is one attempt more than lines.  The round   *)
(* trip follows by induction on the age of a message: a line of a part     *)
(* that does not delimit stays in its section, and a section is the        *)
(* rendered part.                                                          *)
(***************************************************************************)
EXTENDS MimeMultipart, WellFoundedInduction, TLAPS

(***************************************************************************)
(* Induction, loops and sequences.  The library states induction with an   *)
(* operator as a parameter; here the property is a set, which first-order  *)
(* provers can instantiate.                                                *)
(***************************************************************************)

\* A set of numbers that is not empty has a least one.
LEMMA LeastNumber ==
    ASSUME NEW T \in SUBSET Nat, T # {}
    PROVE  \E m \in T : \A k \in T : m <= k
<1>1. PICK m \in T : \A k \in T : ~(<<k, m>> \in OpToRel(<, Nat))
  BY NatLessThanWellFounded, WFMin, Zenon
<1>2. ASSUME NEW k \in T, k < m PROVE FALSE
  <2>1. <<k, m>> \in Nat \X Nat /\ <<k, m>>[1] = k /\ <<k, m>>[2] = m
    OBVIOUS
  <2>2. QED  BY <1>1, <1>2, <2>1, Zenon DEF OpToRel
<1>3. \A k \in T : m <= k
  BY <1>2
<1>4. QED  BY <1>3

\* The elements of D whose rank is less than n.
Below(D, rank, n) == {y \in D : rank[y] < n}

\* A set that has an element whenever it has all those of lower rank has all.
LEMMA RankInduction ==
    ASSUME NEW D, NEW rank \in [D -> Nat], NEW T,
           \A x \in D : Below(D, rank, rank[x]) \subseteq T => x \in T
    PROVE  D \subseteq T
<1> DEFINE N == {n \in Nat : \E x \in D : rank[x] = n /\ x \notin T}
<1> SUFFICES ASSUME NEW z \in D, z \notin T PROVE FALSE
  OBVIOUS
<1>1. N \in SUBSET Nat /\ N # {}
  OBVIOUS
<1> HIDE DEF N
<1>2. PICK m \in N : \A k \in N : m <= k
  BY <1>1, LeastNumber, Zenon
<1>3. PICK x \in D : rank[x] = m /\ x \notin T
  BY <1>2 DEF N
<1>4. ASSUME NEW y \in Below(D, rank, rank[x]) PROVE y \in T
  BY <1>2, <1>3, <1>4 DEF N, Below
<1>5. QED  BY <1>3, <1>4

\* Induction up to a bound.
LEMMA IndexInduction ==
    ASSUME NEW N \in Nat, NEW T, 0 \in T, \A n \in 1..N : n - 1 \in T => n \in T
    PROVE  0..N \subseteq T
<1> DEFINE B == {n \in 0..N : n \notin T}
<1>1. CASE B = {}
  BY <1>1, Zenon
<1>2. CASE B # {}
  <2>1. B \in SUBSET Nat
    OBVIOUS
  <2>2. PICK m \in B : \A k \in B : m <= k
    <3> HIDE DEF B
    <3>1. QED  BY <1>2, <2>1, LeastNumber, Zenon
  <2>3. m \in 0..N /\ m \notin T
    BY <2>2, Zenon
  <2>4. m # 0
    BY <2>3, Zenon
  <2>5. m \in 1..N /\ m - 1 \in 0..N /\ ~(m <= m - 1)
    BY <2>3, <2>4
  <2>6. m - 1 \in T
    BY <2>2, <2>5, Zenon
  <2>7. QED  BY <2>3, <2>5, <2>6, Zenon
<1>3. QED  BY <1>1, <1>2, Zenon

\* Least is the least member.
LEMMA LeastIs ==
    ASSUME NEW T \in SUBSET Nat, T # {}
    PROVE  Least(T) \in T /\ \A j \in T : Least(T) <= j
<1>1. \E m \in T : \A k \in T : m <= k
  BY LeastNumber, Zenon
<1>2. QED  BY <1>1, Zenon DEF Least

\* Sequences with the same length and elements are the same.
LEMMA SameSequence ==
    ASSUME NEW S, NEW s \in Seq(S), NEW t \in Seq(S), Len(s) = Len(t),
           \A i \in 1..Len(s) : s[i] = t[i]
    PROVE  s = t
OBVIOUS

\* A function on 1..m is a sequence.
LEMMA SeqOfFunction ==
    ASSUME NEW S, NEW m \in Nat, NEW f \in [1..m -> S]
    PROVE  f \in Seq(S) /\ Len(f) = m
OBVIOUS

\* A sequence over a set is one over a larger set.
LEMMA SeqOfMore ==
    ASSUME NEW S, NEW R, S \subseteq R, NEW s \in Seq(S) PROVE s \in Seq(R)
<1>1. \A i \in 1..Len(s) : s[i] \in R
  OBVIOUS
<1>2. s \in [1..Len(s) -> R] /\ Len(s) \in Nat
  BY <1>1
<1>3. QED  BY <1>2, SeqOfFunction, Zenon

\* f is the loop that starts with base and whose turn n is step[n].
Loop(f, m, R, base, step) ==
    /\ f \in [0..m -> R]
    /\ f[0] = base
    /\ \A n \in 1..m : f[n] = step[n][f[n - 1]]

\* A loop computes something.
LEMMA LoopExists ==
    ASSUME NEW N \in Nat, NEW R, NEW base \in R, NEW step \in [1..N -> [R -> R]]
    PROVE  \E f : Loop(f, N, R, base, step)
<1> DEFINE T == {m \in 0..N : \E f : Loop(f, m, R, base, step)}
<1>1. 0 \in T
  <2> DEFINE f == [k \in 0..0 |-> base]
  <2>1. 0 \in 0..0 /\ 1..0 = {} /\ 0 \in 0..N
    OBVIOUS
  <2>2. f \in [0..0 -> R] /\ f[0] = base
    BY <2>1, Zenon
  <2>3. Loop(f, 0, R, base, step)
    BY <2>1, <2>2, Zenon DEF Loop
  <2>4. QED  BY <2>1, <2>3, Zenon
<1>2. ASSUME NEW m \in 1..N, m - 1 \in T PROVE m \in T
  <2>1. PICK f : Loop(f, m - 1, R, base, step)
    BY <1>2, Zenon
  <2> DEFINE h == [k \in 0..m |-> IF k = m THEN step[m][f[m - 1]] ELSE f[k]]
  <2>2. /\ m \in 0..N /\ m - 1 \in 0..m - 1 /\ 0 \in 0..m /\ 0 # m
        /\ \A k \in 0..m : k # m => k \in 0..m - 1
        /\ \A k \in 1..m : k - 1 \in 0..m - 1 /\ k - 1 \in 0..m /\ k - 1 # m /\ k \in 0..m
        /\ \A k \in 1..m : k # m => k \in 1..m - 1
    OBVIOUS
  <2>3. step[m][f[m - 1]] \in R
    BY <2>1, <2>2, Zenon DEF Loop
  <2>4. h \in [0..m -> R]
    BY <2>1, <2>2, <2>3, Zenon DEF Loop
  <2>5. h[0] = base
    BY <2>1, <2>2, Zenon DEF Loop
  <2>6. ASSUME NEW k \in 1..m PROVE h[k] = step[k][h[k - 1]]
    <3>1. h[k - 1] = f[k - 1]
      BY <2>2, Zenon
    <3>2. CASE k = m
      BY <2>2, <3>1, <3>2, Zenon
    <3>3. CASE k # m
      BY <2>1, <2>2, <3>1, <3>3, Zenon DEF Loop
    <3>4. QED  BY <3>2, <3>3, Zenon
  <2> HIDE DEF h
  <2>7. Loop(h, m, R, base, step)
    BY <2>4, <2>5, <2>6, Zenon DEF Loop
  <2>8. QED  BY <2>2, <2>7, Zenon
<1>3. 0..N \subseteq T
  <2> HIDE DEF T
  <2>1. QED  BY <1>1, <1>2, IndexInduction, Zenon
<1>4. N \in 0..N
  OBVIOUS
<1>5. QED  BY <1>3, <1>4, Zenon

\* What Concat does, one sequence at a time.
Concats(u, ss, S) ==
    /\ u \in [0..Len(ss) -> Seq(S)] /\ u[0] = <<>>
    /\ \A n \in 1..Len(ss) : u[n] = u[n - 1] \o ss[n]

\* Concat joins one sequence at a time.
LEMMA ConcatFacts ==
    ASSUME NEW S, NEW ss \in Seq(Seq(S))
    PROVE  \E u : Concats(u, ss, S) /\ Concat(ss) = u[Len(ss)]
<1> DEFINE N == Len(ss)
           R == Seq(S)
           step == [n \in 1..N |-> [x \in R |-> x \o ss[n]]]
           Body(f, n) == IF n = 0 THEN <<>> ELSE f[n - 1] \o ss[n]
           F == CHOOSE f : f = [n \in 0..N |-> Body(f, n)]
<1>1. /\ N \in Nat /\ <<>> \in R /\ \A n \in 1..N : ss[n] \in R
      /\ \A n \in 1..N : n # 0 /\ n \in 0..N /\ n - 1 \in 0..N
      /\ \A n \in 0..N : n # 0 => n \in 1..N
      /\ 0 \in 0..N
  OBVIOUS
<1>2. \A x, y \in R : x \o y \in R
  OBVIOUS
<1>3. step \in [1..N -> [R -> R]]
  BY <1>1, <1>2, Zenon
<1>4. \A n \in 1..N : \A x \in R : step[n][x] = x \o ss[n]
  BY Zenon
<1> HIDE DEF step, N, R
<1>5. PICK f : Loop(f, N, R, <<>>, step)
  BY <1>1, <1>3, LoopExists, Zenon
<1>6. f = [n \in 0..N |-> Body(f, n)]
  <2>1. ASSUME NEW n \in 0..N PROVE f[n] = Body(f, n)
    <3>1. CASE n = 0
      BY <1>5, <3>1, Zenon DEF Loop
    <3>2. CASE n # 0
      <4>1. n \in 1..N /\ n - 1 \in 0..N
        BY <1>1, <3>2, Zenon
      <4>2. f[n] = step[n][f[n - 1]] /\ f[n - 1] \in R
        BY <1>5, <4>1, Zenon DEF Loop
      <4>3. QED  BY <1>4, <3>2, <4>1, <4>2, Zenon
    <3>3. QED  BY <3>1, <3>2, Zenon
  <2>2. f \in [0..N -> R]
    BY <1>5, Zenon DEF Loop
  <2> HIDE DEF Body
  <2>3. QED  BY <2>1, <2>2, Zenon
<1>7. F = [n \in 0..N |-> Body(F, n)]
  <2> HIDE DEF Body
  <2>1. QED  BY <1>6, Zenon
<1>8. Concat(ss) = F[N]
  BY Zenon DEF Concat, N
<1> HIDE DEF F
<1>9. F[0] = <<>> /\ \A n \in 1..N : F[n] = F[n - 1] \o ss[n]
  BY <1>1, <1>7, Zenon
<1>10. 0..N \subseteq {n \in 0..N : F[n] \in R}
  <2> DEFINE T == {n \in 0..N : F[n] \in R}
  <2>1. 0 \in T
    BY <1>1, <1>9, Zenon
  <2>2. ASSUME NEW n \in 1..N, n - 1 \in T PROVE n \in T
    BY <1>1, <1>2, <1>9, <2>2, Zenon
  <2> HIDE DEF T
  <2>3. 0..N \subseteq T
    BY <1>1, <2>1, <2>2, IndexInduction, Zenon
  <2>4. QED  BY <2>3, Zenon DEF T
<1>11. F \in [0..N -> R]
  BY <1>7, <1>10, Zenon
<1>12. Concats(F, ss, S)
  BY <1>9, <1>11, Zenon DEF Concats, N, R
<1>13. QED  BY <1>8, <1>12, Zenon DEF N

\* Joining sequences over S gives a sequence over S.
LEMMA ConcatTyped ==
    ASSUME NEW S, NEW ss \in Seq(Seq(S)) PROVE Concat(ss) \in Seq(S)
<1>1. PICK u : Concats(u, ss, S) /\ Concat(ss) = u[Len(ss)]
  BY ConcatFacts, Zenon
<1>2. Len(ss) \in 0..Len(ss)
  OBVIOUS
<1>3. QED  BY <1>1, <1>2, Zenon DEF Concats

(***************************************************************************)
(* Tables of messages: a message refers to older ones.                     *)
(***************************************************************************)

\* Induction on the age of a message.
LEMMA TableInduction ==
    ASSUME NEW N \in Nat, NEW T, \A k \in 1..N : 1..k - 1 \subseteq T => k \in T
    PROVE  1..N \subseteq T
<1> DEFINE B == {k \in 1..N : k \notin T}
<1>1. CASE B = {}
  BY <1>1, Zenon
<1>2. CASE B # {}
  <2>1. B \in SUBSET Nat
    OBVIOUS
  <2>2. PICK m \in B : \A k \in B : m <= k
    <3> HIDE DEF B
    <3>1. QED  BY <1>2, <2>1, LeastNumber, Zenon
  <2>3. m \in 1..N /\ m \notin T
    BY <2>2, Zenon
  <2>4. \A k \in 1..m - 1 : k \in 1..N /\ ~(m <= k)
    BY <2>3
  <2>5. 1..m - 1 \subseteq T
    BY <2>2, <2>4, Zenon
  <2>6. QED  BY <2>3, <2>5, Zenon
<1>3. QED  BY <1>1, <1>2, Zenon

\* g[k] computes a value in R for the message k from values of older ones.
TableComputes(N, R, g) ==
    \A k \in 1..N : \A h \in [1..k - 1 -> R] : g[k][h] \in R

\* What f says of the messages older than k.
OfOlder(f, k) == [j \in 1..k - 1 |-> f[j]]

\* f is what g computes, and has values in R.
TableSolution(f, N, R, g) ==
    /\ f \in [1..N -> R]
    /\ \A k \in 1..N : f[k] = g[k][OfOlder(f, k)]

\* A function on messages may be defined from its values for older ones.
LEMMA TableSolutionFound ==
    ASSUME NEW N \in Nat, NEW R, NEW g, TableComputes(N, R, g)
    PROVE  \E f : TableSolution(f, N, R, g)
<1> DEFINE T == {m \in 0..N : \E f : TableSolution(f, m, R, g)}
<1>1. 0 \in T
  <2>1. 0 \in 0..N /\ 1..0 = {}
    OBVIOUS
  <2> DEFINE f == [k \in {} |-> 0]
  <2>2. f \in [{} -> R]
    BY Zenon
  <2>3. TableSolution(f, 0, R, g)
    BY <2>1, <2>2, Zenon DEF TableSolution
  <2>4. QED  BY <2>1, <2>3, Zenon
<1>2. ASSUME NEW m \in 1..N, m - 1 \in T PROVE m \in T
  <2>1. PICK f : TableSolution(f, m - 1, R, g)
    BY <1>2, Zenon
  <2> DEFINE h == [k \in 1..m |-> IF k = m THEN g[m][f] ELSE f[k]]
  <2>2. /\ m \in 0..N /\ m \in 1..m
        /\ \A k \in 1..m : k # m => k \in 1..m - 1
        /\ \A k \in 1..m - 1 : k \in 1..m /\ k # m
        /\ \A k \in 1..m : \A j \in 1..k - 1 : j \in 1..m - 1
    OBVIOUS
  <2>3. f \in [1..m - 1 -> R] /\ g[m][f] \in R
    BY <2>1, <2>2, Zenon DEF TableComputes, TableSolution
  <2>4. h \in [1..m -> R]
    BY <2>2, <2>3, Zenon
  <2>5. \A j \in 1..m - 1 : h[j] = f[j]
    BY <2>2, Zenon
  <2>6. h[m] = g[m][f]
    BY <2>2, Zenon
  <2> HIDE DEF h
  <2>7. \A k \in 1..m : OfOlder(h, k) = OfOlder(f, k)
    BY <2>2, <2>5, Zenon DEF OfOlder
  <2>8. OfOlder(f, m) = f
    BY <2>3, Zenon DEF OfOlder
  <2>9. ASSUME NEW k \in 1..m PROVE h[k] = g[k][OfOlder(h, k)]
    <3>1. CASE k = m
      BY <2>6, <2>7, <2>8, <3>1, Zenon
    <3>2. CASE k # m
      <4>1. k \in 1..m - 1
        BY <2>2, <3>2, Zenon
      <4>2. f[k] = g[k][OfOlder(f, k)]
        BY <2>1, <4>1, Zenon DEF TableSolution
      <4>3. QED  BY <2>5, <2>7, <4>1, <4>2, Zenon
    <3>3. QED  BY <3>1, <3>2, Zenon
  <2>10. TableSolution(h, m, R, g)
    BY <2>4, <2>9, Zenon DEF TableSolution
  <2>11. QED  BY <2>2, <2>10, Zenon
<1>3. 0..N \subseteq T
  <2> HIDE DEF T
  <2>1. QED  BY <1>1, <1>2, IndexInduction, Zenon
<1>4. N \in 0..N
  OBVIOUS
<1>5. QED  BY <1>3, <1>4, Zenon

\* f is what g computes.
TableSolves(f, N, R, g) ==
    /\ f = [k \in 1..N |-> f[k]]
    /\ \A k \in 1..N : OfOlder(f, k) \in [1..k - 1 -> R] => f[k] = g[k][OfOlder(f, k)]

\* What g computes from older messages is in R.
LEMMA TableTyped ==
    ASSUME NEW N \in Nat, NEW R, NEW g, TableComputes(N, R, g),
           NEW f, TableSolves(f, N, R, g)
    PROVE  f \in [1..N -> R]
<1> DEFINE T == {k \in 1..N : f[k] \in R}
<1>1. ASSUME NEW k \in 1..N, 1..k - 1 \subseteq T PROVE k \in T
  <2>1. OfOlder(f, k) \in [1..k - 1 -> R]
    BY <1>1, Zenon DEF OfOlder
  <2>2. f[k] \in R
    BY <2>1, Zenon DEF TableSolves, TableComputes
  <2>3. QED  BY <2>2, Zenon
<1>2. 1..N \subseteq T
  <2> HIDE DEF T
  <2>1. QED  BY <1>1, TableInduction, Zenon
<1>3. QED  BY <1>2, Zenon DEF TableSolves

\* The parts of a message are older than the message.
Ordered(t) == Len(t) \in Nat /\ \A k \in 1..Len(t) : t[k].parts \in Seq(1..k - 1)

\* A part is a message of the table, older than the message it is in.
LEMMA PartIsOlder ==
    ASSUME NEW t, Ordered(t), NEW k \in 1..Len(t), NEW p \in DOMAIN t[k].parts
    PROVE  /\ t[k].parts[p] \in 1..k - 1 /\ t[k].parts[p] \in 1..Len(t)
<1>1. t[k].parts \in Seq(1..k - 1) /\ Len(t) \in Nat
  BY Zenon DEF Ordered
<1>2. t[k].parts[p] \in 1..k - 1
  <2> DEFINE ps == t[k].parts
  <2>1. ps \in Seq(1..k - 1) /\ p \in DOMAIN ps
    BY <1>1, Zenon
  <2> HIDE DEF ps
  <2>2. ps[p] \in 1..k - 1
    BY <2>1
  <2>3. QED  BY <2>2, Zenon DEF ps
<1>3. \A j \in 1..k - 1 : j \in 1..Len(t)
  BY <1>1
<1>4. QED  BY <1>2, <1>3, Zenon

\* Within holds the message and what is within its parts, and nothing newer.
LEMMA WithinFacts ==
    ASSUME NEW t, Ordered(t)
    PROVE  \A k \in 1..Len(t) :
              /\ Within(t, k) \subseteq 1..k
              /\ Within(t, k) = {k} \cup UNION {Within(t, t[k].parts[p]) : p \in DOMAIN t[k].parts}
<1> DEFINE N == Len(t)
           R == SUBSET (1..N)
           Body(f, k) == {k} \cup UNION {f[t[k].parts[p]] : p \in DOMAIN t[k].parts}
           g == [k \in 1..N |-> [h \in [1..k - 1 -> R] |-> Body(h, k)]]
           F == CHOOSE f : f = [k \in 1..N |-> Body(f, k)]
<1>1. N \in Nat
  BY Zenon DEF Ordered
<1>2. \A k \in 1..N : \A p \in DOMAIN t[k].parts :
          t[k].parts[p] \in 1..k - 1 /\ t[k].parts[p] \in 1..N
  BY PartIsOlder, Zenon
<1> HIDE DEF N
<1>3. ASSUME NEW k \in 1..N, NEW h \in [1..k - 1 -> R] PROVE Body(h, k) \in R
  BY <1>2, Zenon
<1>4. ASSUME NEW k \in 1..N, NEW f PROVE Body(f, k) = Body(OfOlder(f, k), k)
  <2>1. \A p \in DOMAIN t[k].parts : f[t[k].parts[p]] = OfOlder(f, k)[t[k].parts[p]]
    BY <1>2, Zenon DEF OfOlder
  <2>2. QED  BY <2>1, Zenon
<1>5. \A k \in 1..N : \A h \in [1..k - 1 -> R] : g[k][h] = Body(h, k)
  BY Zenon
<1> HIDE DEF Body, g
<1>6. TableComputes(N, R, g)
  BY <1>3, <1>5, Zenon DEF TableComputes
<1>7. \E f : f = [k \in 1..N |-> Body(f, k)]
  <2>1. PICK f : TableSolution(f, N, R, g)
    BY <1>1, <1>6, TableSolutionFound, Zenon
  <2>2. \A k \in 1..N : OfOlder(f, k) \in [1..k - 1 -> R]
    <3>1. \A k \in 1..N : \A j \in 1..k - 1 : j \in 1..N
      BY <1>1
    <3>2. QED  BY <2>1, <3>1, Zenon DEF TableSolution, OfOlder
  <2>3. \A k \in 1..N : f[k] = Body(f, k)
    BY <1>4, <1>5, <2>1, <2>2, Zenon DEF TableSolution
  <2>4. QED  BY <2>1, <2>3, Zenon DEF TableSolution
<1>8. F = [k \in 1..N |-> Body(F, k)]
  BY <1>7, Zenon
<1>9. \A k : Within(t, k) = F[k]
  BY Zenon DEF Within, Body, N
<1> HIDE DEF F
<1>10. \A k \in 1..N : F[k] = Body(F, k)
  BY <1>8, Zenon
<1>11. \A k \in 1..N : Within(t, k) = Body([j \in 1..N |-> Within(t, j)], k)
  <2>1. F = [j \in 1..N |-> Within(t, j)]
    BY <1>8, <1>9, Zenon
  <2>2. QED  BY <1>9, <1>10, <2>1, Zenon
<1>12. \A k \in 1..N : Within(t, k) = {k} \cup UNION {Within(t, t[k].parts[p]) : p \in DOMAIN t[k].parts}
  <2>1. TAKE k \in 1..N
  <2>2. \A p \in DOMAIN t[k].parts :
            [j \in 1..N |-> Within(t, j)][t[k].parts[p]] = Within(t, t[k].parts[p])
    BY <1>2, Zenon
  <2>3. Within(t, k) = {k} \cup UNION {[j \in 1..N |-> Within(t, j)][t[k].parts[p]] : p \in DOMAIN t[k].parts}
    BY <1>11, Zenon DEF Body
  <2>4. {[j \in 1..N |-> Within(t, j)][t[k].parts[p]] : p \in DOMAIN t[k].parts}
            = {Within(t, t[k].parts[p]) : p \in DOMAIN t[k].parts}
    BY <2>2, Zenon
  <2>5. QED  BY <2>3, <2>4, Zenon
<1>13. 1..N \subseteq {k \in 1..N : Within(t, k) \subseteq 1..k}
  <2> DEFINE T == {k \in 1..N : Within(t, k) \subseteq 1..k}
  <2>1. ASSUME NEW k \in 1..N, 1..k - 1 \subseteq T PROVE k \in T
    <3>1. \A j \in 1..k - 1 : \A x \in 1..j : x \in 1..k
      OBVIOUS
    <3>2. \A p \in DOMAIN t[k].parts : Within(t, t[k].parts[p]) \subseteq 1..k
      BY <1>2, <2>1, <3>1, Zenon
    <3>3. k \in 1..k
      OBVIOUS
    <3>4. Within(t, k) = {k} \cup UNION {Within(t, t[k].parts[p]) : p \in DOMAIN t[k].parts}
      BY <1>12, Zenon
    <3>5. {k} \cup UNION {Within(t, t[k].parts[p]) : p \in DOMAIN t[k].parts} \subseteq 1..k
      BY <3>2, <3>3, Zenon
    <3>6. Within(t, k) \subseteq 1..k
      BY <3>4, <3>5, Zenon
    <3>7. QED  BY <3>6, Zenon
  <2> HIDE DEF T
  <2>2. 1..N \subseteq T
    BY <1>1, <2>1, TableInduction, Zenon
  <2>3. QED  BY <2>2, Zenon DEF T
<1>14. QED  BY <1>12, <1>13, Zenon DEF N

\* The elements of a sequence.
Values(s) == {s[i] : i \in DOMAIN s}

\* The values of two sequences joined.
LEMMA ValuesJoin ==
    ASSUME NEW S, NEW x \in Seq(S), NEW y \in Seq(S)
    PROVE  Values(x \o y) = Values(x) \cup Values(y)
<1> DEFINE z == x \o y
<1>1. /\ \A i \in DOMAIN z : \/ i \in DOMAIN x /\ z[i] = x[i]
                             \/ i - Len(x) \in DOMAIN y /\ z[i] = y[i - Len(x)]
      /\ \A i \in DOMAIN x : i \in DOMAIN z /\ z[i] = x[i]
  OBVIOUS
<1>2. \A i \in DOMAIN y : i + Len(x) \in DOMAIN z /\ z[i + Len(x)] = y[i]
  OBVIOUS
<1> HIDE DEF z
<1>3. \A v : v \in Values(z) => v \in Values(x) \cup Values(y)
  BY <1>1, Zenon DEF Values
<1>4. \A v : v \in Values(x) \cup Values(y) => v \in Values(z)
  <2>1. \A v : v \in Values(x) => v \in Values(z)
    BY <1>1, Zenon DEF Values
  <2>2. \A v : v \in Values(y) => v \in Values(z)
    BY <1>2, Zenon DEF Values
  <2>3. QED  BY <2>1, <2>2, Zenon
<1>5. QED  BY <1>3, <1>4, Zenon DEF z

\* The values of sequences joined by Concat.
LEMMA ValuesConcat ==
    ASSUME NEW S, NEW ss \in Seq(Seq(S))
    PROVE  Values(Concat(ss)) = UNION {Values(ss[n]) : n \in DOMAIN ss}
<1> DEFINE N == Len(ss)
           Some(n) == UNION {Values(ss[m]) : m \in 1..n}
<1>1. PICK u : Concats(u, ss, S) /\ Concat(ss) = u[Len(ss)]
  BY ConcatFacts, Zenon
<1>2. /\ N \in Nat /\ DOMAIN ss = 1..N /\ 0 \in 0..N /\ N \in 0..N /\ 1..0 = {}
      /\ \A n \in 1..N : /\ n \in 0..N /\ n - 1 \in 0..N /\ ss[n] \in Seq(S)
                         /\ 1..n = (1..n - 1) \cup {n}
  OBVIOUS
<1>3. /\ u[0] = <<>> /\ \A n \in 0..N : u[n] \in Seq(S)
      /\ \A n \in 1..N : u[n] = u[n - 1] \o ss[n]
  BY <1>1, Zenon DEF Concats
<1>3a. \A x, y \in Seq(S) : Values(x \o y) = Values(x) \cup Values(y)
  BY ValuesJoin, Zenon
<1> HIDE DEF N
<1> DEFINE T == {n \in 0..N : Values(u[n]) = Some(n)}
<1>4. 0 \in T
  <2>1. Values(<<>>) = {}
    <3>1. DOMAIN <<>> = {}
      OBVIOUS
    <3>2. QED  BY <3>1, Zenon DEF Values
  <2>2. Some(0) = {}
    BY <1>2, Zenon
  <2>3. QED  BY <1>2, <1>3, <2>1, <2>2, Zenon
<1>5. ASSUME NEW n \in 1..N, n - 1 \in T PROVE n \in T
  <2>1. Values(u[n]) = Values(u[n - 1]) \cup Values(ss[n])
    <3>1. u[n - 1] \in Seq(S) /\ ss[n] \in Seq(S) /\ u[n] = u[n - 1] \o ss[n]
      BY <1>2, <1>3, Zenon
    <3>2. Values(u[n - 1] \o ss[n]) = Values(u[n - 1]) \cup Values(ss[n])
      BY <1>3a, <3>1, Zenon
    <3>3. QED  BY <3>1, <3>2, Zenon
  <2>2. Some(n) = Some(n - 1) \cup Values(ss[n])
    <3>1. \A m : m \in 1..n <=> m \in 1..n - 1 \/ m = n
      BY <1>2
    <3>2. \A v : v \in Some(n) => v \in Some(n - 1) \/ v \in Values(ss[n])
      BY <3>1
    <3>3. \A v : v \in Some(n - 1) \/ v \in Values(ss[n]) => v \in Some(n)
      BY <3>1
    <3> HIDE DEF Some
    <3>4. QED  BY <3>2, <3>3, Zenon
  <2>3. Values(u[n - 1]) = Some(n - 1)
    BY <1>5, Zenon
  <2> HIDE DEF Some
  <2>4. QED  BY <1>2, <2>1, <2>2, <2>3, Zenon
<1> HIDE DEF T
<1>6. 0..N \subseteq T
  BY <1>2, <1>4, <1>5, IndexInduction, Zenon
<1>7. Values(u[N]) = Some(N)
  <2> HIDE DEF Some
  <2>1. QED  BY <1>2, <1>6, Zenon DEF T
<1>8. QED  BY <1>1, <1>2, <1>7, Zenon DEF N

\* A sequence of N things names at most N of the numbers 0..N.
LEMMA OneIsFree ==
    ASSUME NEW N \in Nat, NEW f
    PROVE  \E n \in 0..N : \A j \in 1..N : f[j] # n
<1> DEFINE T == {m \in 0..N : \A g : \E n \in 0..m : \A j \in 1..m : g[j] # n}
<1>1. 0 \in T
  <2>1. 1..0 = {} /\ 0 \in 0..0 /\ 0 \in 0..N
    OBVIOUS
  <2>2. QED  BY <2>1, Zenon
<1>2. ASSUME NEW m \in 1..N, m - 1 \in T PROVE m \in T
  <2>1. SUFFICES ASSUME NEW g PROVE \E n \in 0..m : \A j \in 1..m : g[j] # n
    <3>1. m \in 0..N
      OBVIOUS
    <3>2. QED  BY <2>1, <3>1, Zenon
  <2> DEFINE h == [j \in 1..m - 1 |-> IF g[j] = m THEN g[m] ELSE g[j]]
  <2>2. \E n \in 0..m - 1 : \A j \in 1..m - 1 : h[j] # n
    <3>1. \A k : \E n \in 0..m - 1 : \A j \in 1..m - 1 : k[j] # n
      BY <1>2, Zenon
    <3>2. QED  BY <3>1, Zenon
  <2>3. PICK n \in 0..m - 1 : \A j \in 1..m - 1 : h[j] # n
    BY <2>2, Zenon
  <2>4. /\ n \in 0..m /\ m \in 0..m /\ n # m
        /\ \A j \in 1..m : j \in 1..m - 1 \/ j = m
    OBVIOUS
  <2>5. \A j \in 1..m - 1 : (g[j] = m => g[m] # n) /\ (g[j] # m => g[j] # n)
    BY <2>3, Zenon
  <2>6. CASE g[m] = n
    <3>1. \A j \in 1..m : g[j] # m
      BY <2>4, <2>5, <2>6, Zenon
    <3>2. QED  BY <2>4, <3>1, Zenon
  <2>7. CASE g[m] # n
    <3>1. \A j \in 1..m : g[j] # n
      BY <2>4, <2>5, <2>7, Zenon
    <3>2. QED  BY <2>4, <3>1, Zenon
  <2>8. QED  BY <2>6, <2>7, Zenon
<1> HIDE DEF T
<1>3. 0..N \subseteq T
  BY <1>1, <1>2, IndexInduction, Zenon
<1>4. N \in 0..N
  OBVIOUS
<1>5. QED  BY <1>3, <1>4, Zenon DEF T

\* The lines of the messages of t are in L.
LinesIn(t, L) ==
    \A k \in 1..Len(t) :
        t[k].body \in Seq(L) /\ TypeLine(t[k].type, t[k].boundary) \in L

\* The lines that a message adds to the hash itself.
OwnSeed(m) ==
    (IF m.type = "none" THEN <<>> ELSE <<TypeLine(m.type, m.boundary)>>) \o m.body

\* A message adds the lines of its own body to the hash.
LEMMA OwnSeedFacts ==
    ASSUME NEW t, NEW L, LinesIn(t, L), NEW k \in 1..Len(t)
    PROVE  OwnSeed(t[k]) \in Seq(L) /\ Values(t[k].body) \subseteq Values(OwnSeed(t[k]))
<1> DEFINE y == t[k].body
           x == IF t[k].type = "none" THEN <<>> ELSE <<TypeLine(t[k].type, t[k].boundary)>>
<1>1. y \in Seq(L) /\ TypeLine(t[k].type, t[k].boundary) \in L
  BY Zenon DEF LinesIn
<1>2. x \in Seq(L)
  <2>1. \A l \in L : <<l>> \in Seq(L)
    OBVIOUS
  <2>2. <<>> \in Seq(L)
    OBVIOUS
  <2>3. QED  BY <1>1, <2>1, <2>2, Zenon
<1>3. OwnSeed(t[k]) = x \o y
  BY Zenon DEF OwnSeed
<1> HIDE DEF x, y
<1>4. x \o y \in Seq(L)
  BY <1>1, <1>2
<1>5. Values(x \o y) = Values(x) \cup Values(y)
  BY <1>1, <1>2, ValuesJoin, ZenonT(40)
<1>6. Values(y) \subseteq Values(x \o y)
  BY <1>5, Zenon
<1>7. QED  BY <1>3, <1>4, <1>6, Zenon DEF y

\* The parts of a message are a sequence.
LEMMA PartsDomain ==
    ASSUME NEW t, Ordered(t), NEW k \in 1..Len(t)
    PROVE  DOMAIN t[k].parts = 1..Len(t[k].parts) /\ Len(t[k].parts) \in Nat
<1> DEFINE ps == t[k].parts
<1>1. ps \in Seq(1..k - 1)
  BY Zenon DEF Ordered
<1> HIDE DEF ps
<1>2. DOMAIN ps = 1..Len(ps) /\ Len(ps) \in Nat
  BY <1>1
<1>3. QED  BY <1>2, Zenon DEF ps

\* q gives a member of X for every part of the message k.
OfParts(q, t, k, X) ==
    /\ q = [p \in DOMAIN t[k].parts |-> q[p]]
    /\ \A p \in DOMAIN t[k].parts : q[p] \in X

\* What is computed for every part is a sequence as long as the parts.
LEMMA PartsSequence ==
    ASSUME NEW t, Ordered(t), NEW k \in 1..Len(t), NEW X, NEW q, OfParts(q, t, k, X)
    PROVE  q \in Seq(X) /\ Len(q) = Len(t[k].parts)
<1> DEFINE n == Len(t[k].parts)
<1>1. DOMAIN t[k].parts = 1..n /\ n \in Nat
  BY PartsDomain, Zenon
<1>2. q \in [1..n -> X] /\ n \in Nat
  BY <1>1, Zenon DEF OfParts
<1> HIDE DEF n
<1>3. q \in Seq(X) /\ Len(q) = n
  BY <1>2, SeqOfFunction, Zenon
<1>4. QED  BY <1>3, Zenon DEF n

\* Two sequences over S joined are one over S.
LEMMA JoinTyped ==
    ASSUME NEW S, NEW x \in Seq(S), NEW y \in Seq(S) PROVE x \o y \in Seq(S)
OBVIOUS

\* boundary_seed, one message at a time: how its recursion unfolds.
LEMMA SeedFacts ==
    ASSUME NEW t, Ordered(t), NEW L, LinesIn(t, L)
    PROVE  \A k \in 1..Len(t) :
              /\ boundary_seed(t, k) \in Seq(L)
              /\ boundary_seed(t, k) = OwnSeed(t[k])
                     \o Concat([p \in DOMAIN t[k].parts |-> boundary_seed(t, t[k].parts[p])])
<1> DEFINE N == Len(t)
           R == Seq(L)
           Body(f, k) == OwnSeed(t[k]) \o Concat([p \in DOMAIN t[k].parts |-> f[t[k].parts[p]]])
           g == [k \in 1..N |-> [h \in [1..k - 1 -> R] |-> Body(h, k)]]
           F == CHOOSE f : f = [k \in 1..N |-> Body(f, k)]
<1>1. N \in Nat
  BY Zenon DEF Ordered
<1>2. \A k \in 1..N : \A p \in DOMAIN t[k].parts :
          t[k].parts[p] \in 1..k - 1 /\ t[k].parts[p] \in 1..N
  BY PartIsOlder, Zenon
<1>3. ASSUME NEW k \in 1..N, NEW h \in [1..k - 1 -> R] PROVE Body(h, k) \in R
  <2> DEFINE q == [p \in DOMAIN t[k].parts |-> h[t[k].parts[p]]]
  <2>1. \A p \in DOMAIN t[k].parts : q[p] \in Seq(L)
    BY <1>2, Zenon
  <2>2. q = [p \in DOMAIN t[k].parts |-> q[p]]
    BY Zenon
  <2>3. OwnSeed(t[k]) \in Seq(L)
    BY OwnSeedFacts, Zenon
  <2> HIDE DEF q
  <2>4. q \in Seq(Seq(L))
    <3>1. OfParts(q, t, k, Seq(L))
      BY <2>1, <2>2, Zenon DEF OfParts
    <3>2. QED  BY <3>1, PartsSequence, Zenon
  <2>5. Concat(q) \in Seq(L)
    BY <2>4, ConcatTyped, Zenon
  <2>6. OwnSeed(t[k]) \o Concat(q) \in Seq(L)
    BY <2>3, <2>5, JoinTyped, Zenon
  <2>7. QED  BY <2>6, Zenon DEF q
<1> HIDE DEF N
<1>4. ASSUME NEW k \in 1..N, NEW f PROVE Body(f, k) = Body(OfOlder(f, k), k)
  <2>1. \A p \in DOMAIN t[k].parts : f[t[k].parts[p]] = OfOlder(f, k)[t[k].parts[p]]
    BY <1>2, Zenon DEF OfOlder
  <2>2. [p \in DOMAIN t[k].parts |-> f[t[k].parts[p]]]
            = [p \in DOMAIN t[k].parts |-> OfOlder(f, k)[t[k].parts[p]]]
    BY <2>1, Zenon
  <2>3. QED  BY <2>2, Zenon
<1>5. \A k \in 1..N : \A h \in [1..k - 1 -> R] : g[k][h] = Body(h, k)
  BY Zenon
<1>6. \A i : boundary_seed(t, i) = F[i]
  BY Zenon DEF boundary_seed, N, OwnSeed
<1> HIDE DEF Body, g
<1>7. TableComputes(N, R, g)
  BY <1>3, <1>5, Zenon DEF TableComputes
<1>8. \E f : f = [k \in 1..N |-> Body(f, k)]
  <2>1. PICK f : TableSolution(f, N, R, g)
    BY <1>1, <1>7, TableSolutionFound, Zenon
  <2>2. \A k \in 1..N : OfOlder(f, k) \in [1..k - 1 -> R]
    <3>1. \A k \in 1..N : \A j \in 1..k - 1 : j \in 1..N
      BY <1>1
    <3>2. QED  BY <2>1, <3>1, Zenon DEF TableSolution, OfOlder
  <2>3. \A k \in 1..N : f[k] = Body(f, k)
    BY <1>4, <1>5, <2>1, <2>2, Zenon DEF TableSolution
  <2>4. QED  BY <2>1, <2>3, Zenon DEF TableSolution
<1>9. F = [k \in 1..N |-> Body(F, k)]
  BY <1>8, Zenon
<1> HIDE DEF F
<1>10. F = [k \in 1..N |-> F[k]] /\ \A k \in 1..N : F[k] = Body(F, k)
  BY <1>9, Zenon
<1>11. F \in [1..N -> R]
  <2>1. TableSolves(F, N, R, g)
    BY <1>4, <1>5, <1>10, Zenon DEF TableSolves
  <2>2. QED  BY <1>1, <1>7, <2>1, TableTyped, Zenon
<1>12. \A k \in 1..N : boundary_seed(t, k) = OwnSeed(t[k])
           \o Concat([p \in DOMAIN t[k].parts |-> boundary_seed(t, t[k].parts[p])])
  <2>1. TAKE k \in 1..N
  <2>2. [p \in DOMAIN t[k].parts |-> F[t[k].parts[p]]]
            = [p \in DOMAIN t[k].parts |-> boundary_seed(t, t[k].parts[p])]
    BY <1>6, Zenon
  <2>3. F[k] = OwnSeed(t[k]) \o Concat([p \in DOMAIN t[k].parts |-> F[t[k].parts[p]]])
    BY <1>10, Zenon DEF Body
  <2>4. QED  BY <1>6, <2>2, <2>3, Zenon
<1>13. \A k \in 1..N : boundary_seed(t, k) \in R
  BY <1>6, <1>11, Zenon
<1>14. QED  BY <1>12, <1>13, Zenon DEF N

\* Every line of the bodies within a message is hashed.
LEMMA SeedShows ==
    ASSUME NEW t, Ordered(t), NEW L, LinesIn(t, L)
    PROVE  \A k \in 1..Len(t) : \A i \in Within(t, k) :
               Values(t[i].body) \subseteq Values(boundary_seed(t, k))
<1> DEFINE N == Len(t)
           T == {k \in 1..N : \A i \in Within(t, k) :
                     Values(t[i].body) \subseteq Values(boundary_seed(t, k))}
<1>1. N \in Nat
  BY Zenon DEF Ordered
<1>2. ASSUME NEW k \in 1..N, 1..k - 1 \subseteq T PROVE k \in T
  <2> DEFINE q == [p \in DOMAIN t[k].parts |-> boundary_seed(t, t[k].parts[p])]
  <2>1. \A p \in DOMAIN t[k].parts :
            t[k].parts[p] \in 1..k - 1 /\ t[k].parts[p] \in 1..N
    BY PartIsOlder, Zenon
  <2>2. \A p \in DOMAIN t[k].parts : q[p] \in Seq(L)
    BY <2>1, SeedFacts, Zenon
  <2>3. q = [p \in DOMAIN t[k].parts |-> q[p]] /\ DOMAIN q = DOMAIN t[k].parts
        /\ \A p \in DOMAIN t[k].parts : q[p] = boundary_seed(t, t[k].parts[p])
    BY Zenon
  <2>4. OwnSeed(t[k]) \in Seq(L) /\ Values(t[k].body) \subseteq Values(OwnSeed(t[k]))
    BY OwnSeedFacts, Zenon
  <2>5. boundary_seed(t, k) = OwnSeed(t[k]) \o Concat(q)
    BY SeedFacts, Zenon
  <2> HIDE DEF q
  <2>6. q \in Seq(Seq(L))
    <3>1. OfParts(q, t, k, Seq(L))
      BY <2>2, <2>3, Zenon DEF OfParts
    <3>2. QED  BY <3>1, PartsSequence, Zenon
  <2>7. Concat(q) \in Seq(L) /\ Values(Concat(q)) = UNION {Values(q[p]) : p \in DOMAIN q}
    BY <2>6, ConcatTyped, ValuesConcat, Zenon
  <2>8. Values(OwnSeed(t[k]) \o Concat(q)) = Values(OwnSeed(t[k])) \cup Values(Concat(q))
    BY <2>4, <2>7, ValuesJoin, ZenonT(40)
  <2>9. \A p \in DOMAIN t[k].parts :
            Values(boundary_seed(t, t[k].parts[p])) \subseteq Values(boundary_seed(t, k))
    <3>1. TAKE p \in DOMAIN t[k].parts
    <3>2. Values(q[p]) \subseteq Values(Concat(q))
      BY <2>3, <2>7, Zenon
    <3>3. Values(q[p]) \subseteq Values(boundary_seed(t, k))
      BY <2>5, <2>8, <3>2, Zenon
    <3>4. QED  BY <2>3, <3>3, Zenon
  <2>10. Values(t[k].body) \subseteq Values(boundary_seed(t, k))
    BY <2>4, <2>5, <2>8, Zenon
  <2>11. ASSUME NEW i \in Within(t, k)
         PROVE  Values(t[i].body) \subseteq Values(boundary_seed(t, k))
    <3>1. i = k \/ \E p \in DOMAIN t[k].parts : i \in Within(t, t[k].parts[p])
      <4>1. Within(t, k) = {k} \cup UNION {Within(t, t[k].parts[p]) : p \in DOMAIN t[k].parts}
        BY WithinFacts, Zenon
      <4>2. QED  BY <4>1, Zenon
    <3>2. CASE i = k
      BY <2>10, <3>2, Zenon
    <3>3. CASE \E p \in DOMAIN t[k].parts : i \in Within(t, t[k].parts[p])
      <4>1. PICK p \in DOMAIN t[k].parts : i \in Within(t, t[k].parts[p])
        BY <3>3, Zenon
      <4>2. t[k].parts[p] \in T
        BY <1>2, <2>1, Zenon
      <4>3. Values(t[i].body) \subseteq Values(boundary_seed(t, t[k].parts[p]))
        BY <4>1, <4>2, Zenon
      <4>4. QED  BY <2>9, <4>3, Zenon
    <3>4. QED  BY <3>1, <3>2, <3>3, Zenon
  <2>12. QED  BY <2>11, Zenon
<1> HIDE DEF T
<1>3. 1..N \subseteq T
  BY <1>1, <1>2, TableInduction, Zenon
<1>4. QED  BY <1>3, Zenon DEF T

\* One of the attempts of generate_boundary is in no body it encloses.
LEMMA BoundaryFree ==
    ASSUME NEW t, Ordered(t), NEW L, LinesIn(t, L), NEW k \in 1..Len(t)
    PROVE  /\ ~message_contains_boundary(t, k, generate_boundary(t, k))
           /\ generate_boundary(t, k) # NoBoundary
<1> DEFINE seed == boundary_seed(t, k)
           candidate(n) == <<"mechanics", Hash(seed), n>>
           free == {n \in 0..Len(seed) : ~message_contains_boundary(t, k, candidate(n))}
<1>1. seed \in Seq(L)
  BY SeedFacts, Zenon
<1>2. \A i \in Within(t, k) : Values(t[i].body) \subseteq Values(seed)
  BY SeedShows, Zenon
<1>3. generate_boundary(t, k) = candidate(Least(free))
  BY Zenon DEF generate_boundary
<1> HIDE DEF seed
<1>4. Len(seed) \in Nat /\ DOMAIN seed = 1..Len(seed)
  BY <1>1
<1>5. PICK n \in 0..Len(seed) : \A j \in 1..Len(seed) : seed[j][3][3] # n
  <2> DEFINE f == [j \in 1..Len(seed) |-> seed[j][3][3]]
  <2>1. \A j \in 1..Len(seed) : f[j] = seed[j][3][3]
    BY Zenon
  <2> HIDE DEF f
  <2>2. \E n \in 0..Len(seed) : \A j \in 1..Len(seed) : f[j] # n
    BY <1>4, OneIsFree, Zenon
  <2>3. QED  BY <2>1, <2>2, Zenon
<1>6. \A m : candidate(m)[3] = m /\ candidate(m)[1] = "mechanics"
  OBVIOUS
<1> HIDE DEF candidate
<1>7. ~message_contains_boundary(t, k, candidate(n))
  <2>1. SUFFICES ASSUME NEW i \in Within(t, k), NEW l \in DOMAIN t[i].body,
                        t[i].body[l][3] = candidate(n)
                 PROVE  FALSE
    BY Zenon DEF message_contains_boundary
  <2>2. t[i].body[l] \in Values(seed)
    BY <1>2, Zenon DEF Values
  <2>3. PICK j \in 1..Len(seed) : seed[j] = t[i].body[l]
    BY <1>4, <2>2, Zenon DEF Values
  <2>4. seed[j][3][3] = n
    BY <1>6, <2>1, <2>3, Zenon
  <2>5. QED  BY <1>5, <2>4, Zenon
<1>8. n \in free
  BY <1>7, Zenon
<1>9. free \in SUBSET Nat
  BY <1>4
<1>10. Least(free) \in free
  <2> HIDE DEF free
  <2>1. QED  BY <1>8, <1>9, LeastIs, Zenon
<1>11. ~message_contains_boundary(t, k, candidate(Least(free)))
  BY <1>10, Zenon
<1>12. generate_boundary(t, k) # NoBoundary
  <2>1. NoBoundary[1] = "none"
    BY DEF NoBoundary
  <2>2. generate_boundary(t, k)[1] = "mechanics"
    BY <1>3, <1>6, Zenon
  <2>3. "none" # "mechanics"
    OBVIOUS
  <2>4. QED  BY <2>1, <2>2, <2>3, Zenon
<1>13. QED  BY <1>3, <1>11, <1>12, Zenon

(***************************************************************************)
(* The messages of every behaviour.                                        *)
(***************************************************************************)

\* The boundaries a message may have: NoBoundary until compose chooses.
AllBoundaries == Boundaries \cup {NoBoundary}

Messages ==
    Leaves \cup UNION {{Multipart(ps, b) : ps \in Seq(Nat)} : b \in AllBoundaries}

\* m may be the message k of a table: a leaf, or a message with older parts.
IsMessage(m, k) ==
    \/ m \in Leaves
    \/ \E ps \in Seq(1..k - 1), b \in AllBoundaries : ps # <<>> /\ m = Multipart(ps, b)

\* What the script has built: each message may have the place it has.
IsTable(t) == t \in Seq(Messages) /\ \A k \in 1..Len(t) : IsMessage(t[k], k)

\* What compose returned was rendered from the message that is left, and what
\* parse returned was parsed from it.
TreeInv ==
    /\ IsTable(built) /\ held \in Seq(1..Len(built))
    /\ raw # <<>> => Len(held) = 1 /\ raw = render_message(built, held[1])
    /\ parsed # NotParsed => raw # <<>> /\ parsed = parse_message_raw(raw)

\* A leaf has no parts and no boundary, and its body is a sequence.
LEMMA LeafFacts ==
    ASSUME NEW m \in Leaves
    PROVE  /\ m.parts = <<>> /\ m.boundary = NoBoundary /\ m.type # "multipart"
           /\ m.body \in Seq(Values(m.body))
<1>1. /\ m.body \in Seq({m.body[k] : k \in DOMAIN m.body})
      /\ m = Leaf(m.body, m.isText, m.type, m.encoding)
      /\ m.type # "multipart"
  BY TreeAssumption, Zenon DEF TreeAssumption
<1>2. m.parts = <<>> /\ m.boundary = NoBoundary
  <2> DEFINE b == m.body
             i == m.isText
             y == m.type
             e == m.encoding
  <2>1. m = [body |-> b, isText |-> i, type |-> y, boundary |-> NoBoundary,
             encoding |-> e, parts |-> <<>>]
    BY <1>1, Zenon DEF Leaf
  <2> HIDE DEF b, i, y, e
  <2>2. QED  BY <2>1, Zenon
<1>3. QED  BY <1>1, <1>2, Zenon DEF Values

\* The fields of a message with parts.
LEMMA MultipartFacts ==
    ASSUME NEW ps, NEW b
    PROVE  /\ Multipart(ps, b).parts = ps /\ Multipart(ps, b).boundary = b
           /\ Multipart(ps, b).body = <<>>
BY Zenon DEF Multipart

\* In a table the parts of a message are older than it.
LEMMA TableOrdered ==
    ASSUME NEW t, IsTable(t) PROVE Ordered(t)
<1>1. Len(t) \in Nat
  <2>1. t \in Seq(Messages)
    BY Zenon DEF IsTable
  <2>2. QED  BY <2>1
<1>2. ASSUME NEW k \in 1..Len(t) PROVE t[k].parts \in Seq(1..k - 1)
  <2>1. CASE t[k] \in Leaves
    <3>1. <<>> \in Seq(1..k - 1)
      OBVIOUS
    <3>2. QED  BY <2>1, <3>1, LeafFacts, Zenon
  <2>2. CASE \E ps \in Seq(1..k - 1), b \in AllBoundaries : ps # <<>> /\ t[k] = Multipart(ps, b)
    BY <2>2, MultipartFacts, ZenonT(40)
  <2>3. QED  BY <2>1, <2>2, Zenon DEF IsTable, IsMessage
<1>3. QED  BY <1>1, <1>2, Zenon DEF Ordered

\* The lines of the bodies of leaves.
BodyLines == UNION {Values(m.body) : m \in Leaves}

\* The lines that the hash of a table may read.
TableLines(t) == BodyLines \cup {TypeLine(t[k].type, t[k].boundary) : k \in 1..Len(t)}

\* The bodies of a table are made of the lines of leaves.
LEMMA BodyTyped ==
    ASSUME NEW t, IsTable(t), NEW k \in 1..Len(t) PROVE t[k].body \in Seq(BodyLines)
<1>1. CASE t[k] \in Leaves
  <2>1. t[k].body \in Seq(Values(t[k].body))
    BY <1>1, LeafFacts, Zenon
  <2>2. Values(t[k].body) \subseteq BodyLines
    BY <1>1, Zenon DEF BodyLines
  <2> DEFINE y == t[k].body
             V == Values(y)
  <2>3. y \in Seq(V) /\ V \subseteq BodyLines
    BY <2>1, <2>2, Zenon
  <2> HIDE DEF y, V
  <2>4. y \in Seq(BodyLines)
    BY <2>3, SeqOfMore, Zenon
  <2>5. QED  BY <2>4, Zenon DEF y
<1>2. CASE \E ps \in Seq(1..k - 1), b \in AllBoundaries : ps # <<>> /\ t[k] = Multipart(ps, b)
  <2>0. PICK ps, b : t[k] = Multipart(ps, b)
    BY <1>2, Zenon
  <2>1a. Multipart(ps, b).body = <<>>
    BY MultipartFacts, Zenon
  <2>1. t[k].body = <<>>
    BY <2>0, <2>1a, Zenon
  <2>2. <<>> \in Seq(BodyLines)
    OBVIOUS
  <2>3. QED  BY <2>1, <2>2, Zenon
<1>3. QED  BY <1>1, <1>2, Zenon DEF IsTable, IsMessage

\* The lines of a table.
LEMMA TableLinesIn ==
    ASSUME NEW t, IsTable(t) PROVE LinesIn(t, TableLines(t))
<1>1. BodyLines \subseteq TableLines(t)
  BY Zenon DEF TableLines
<1>2. ASSUME NEW k \in 1..Len(t) PROVE t[k].body \in Seq(TableLines(t))
  <2>1. t[k].body \in Seq(BodyLines)
    BY BodyTyped, Zenon
  <2>2. QED  BY <1>1, <2>1, SeqOfMore, Zenon
<1>3. \A k \in 1..Len(t) : TypeLine(t[k].type, t[k].boundary) \in TableLines(t)
  BY Zenon DEF TableLines
<1>4. QED  BY <1>2, <1>3, Zenon DEF LinesIn

\* A message added to a table that is one.
LEMMA TableGrows ==
    ASSUME NEW t, IsTable(t), NEW m \in Messages, IsMessage(m, Len(t) + 1)
    PROVE  IsTable(Append(t, m))
<1> DEFINE n == Len(t)
           z == Append(t, m)
<1>1. t \in Seq(Messages) /\ \A k \in 1..n : IsMessage(t[k], k)
  BY Zenon DEF IsTable
<1>2. /\ z \in Seq(Messages) /\ Len(z) = n + 1 /\ z[n + 1] = m
      /\ \A k \in 1..n : z[k] = t[k]
      /\ \A k \in 1..n + 1 : k \in 1..n \/ k = n + 1
  BY <1>1
<1> HIDE DEF z
<1>3. \A k \in 1..n + 1 : IsMessage(z[k], k)
  BY <1>1, <1>2, Zenon
<1>4. IsTable(z)
  BY <1>2, <1>3, Zenon DEF IsTable
<1>5. QED  BY <1>4, Zenon DEF z

\* A sequence split after n elements.
LEMMA SplitFacts ==
    ASSUME NEW S, NEW s \in Seq(S), NEW n \in Nat, n < Len(s)
    PROVE  /\ From(s, n + 1) \in Seq(S) /\ From(s, n + 1) # <<>>
           /\ SubSeq(s, 1, n) \in Seq(S)
<1>1. From(s, n + 1) \in Seq(S) /\ Len(From(s, n + 1)) = Len(s) - n
  BY DEF From
<1>2. From(s, n + 1) # <<>>
  BY <1>1
<1>3. QED  BY <1>1, <1>2

\* The element of a sequence that has one.
LEMMA OneElement ==
    ASSUME NEW S, NEW s \in Seq(S), Len(s) = 1 PROVE s[1] \in S
OBVIOUS

\* TreeInv is an invariant: what the constructors, compose and parse build.
LEMMA TreeInvHolds == Spec => []TreeInv
<1>1. Init => TreeInv
  <2> SUFFICES ASSUME Init PROVE TreeInv
    OBVIOUS
  <2>1. built = <<>> /\ held = <<>> /\ raw = <<>> /\ parsed = NotParsed
    BY Zenon DEF Init
  <2>2. <<>> \in Seq(Messages) /\ 1..Len(<<>>) = {} /\ <<>> \in Seq({})
    OBVIOUS
  <2>3. IsTable(<<>>)
    BY <2>2, Zenon DEF IsTable
  <2>4. QED  BY <2>1, <2>2, <2>3, Zenon DEF TreeInv
<1>2. TreeInv /\ [Next]_vars => TreeInv'
  <2> SUFFICES ASSUME TreeInv, [Next]_vars PROVE TreeInv'
    OBVIOUS
  <2>0. /\ IsTable(built) /\ held \in Seq(1..Len(built)) /\ built \in Seq(Messages)
    BY Zenon DEF TreeInv, IsTable
  <2>1. CASE UNCHANGED <<built, held, raw, parsed>>
    BY <2>1, Zenon DEF TreeInv
  <2>2. ASSUME NEW leaf \in Leaves, NewLeaf(leaf) PROVE TreeInv'
    <3>1. /\ built' = Append(built, leaf) /\ held' = Append(held, Len(built) + 1)
          /\ raw = <<>> /\ raw' = raw /\ parsed' = parsed
      BY <2>2, Zenon DEF NewLeaf
    <3>2. IsTable(built')
      <4>1. leaf \in Messages /\ IsMessage(leaf, Len(built) + 1)
        BY Zenon DEF Messages, IsMessage
      <4>2. QED  BY <2>0, <3>1, <4>1, TableGrows, Zenon
    <3>3. held' \in Seq(1..Len(built'))
      <4>1. 1..Len(built) \subseteq 1..Len(built') /\ Len(built) + 1 \in 1..Len(built')
        BY <2>0, <3>1
      <4>2. held \in Seq(1..Len(built'))
        BY <2>0, <4>1, SeqOfMore, Zenon
      <4>3. QED  BY <3>1, <4>1, <4>2
    <3>4. raw' = <<>> /\ parsed' = NotParsed
      BY <3>1, Zenon DEF TreeInv
    <3>5. QED  BY <3>2, <3>3, <3>4, Zenon DEF TreeInv
  <2>3. ASSUME NEW k \in 1..MaxParts, NEW b \in AllBoundaries, Wrap(k, b) PROVE TreeInv'
    <3> DEFINE n == Len(held) - k
               ps == From(held, n + 1)
    <3>1. /\ built' = Append(built, Multipart(ps, b))
          /\ held' = Append(SubSeq(held, 1, n), Len(built) + 1)
          /\ raw = <<>> /\ raw' = raw /\ parsed' = parsed /\ k <= Len(held)
      BY <2>3, Zenon DEF Wrap
    <3>2. /\ n \in Nat /\ n < Len(held) /\ ps \in Seq(1..Len(built)) /\ ps # <<>>
          /\ SubSeq(held, 1, n) \in Seq(1..Len(built))
      <4>1. n \in Nat /\ n < Len(held)
        BY <2>0, <3>1
      <4> HIDE DEF n
      <4>2. held \in Seq(1..Len(built))
        BY <2>0, Zenon
      <4>3. QED  BY <4>1, <4>2, SplitFacts, Zenon
    <3> HIDE DEF n, ps
    <3>3. IsTable(built')
      <4>1. Len(built) = (Len(built) + 1) - 1 /\ 1..Len(built) \subseteq Nat
        BY <2>0
      <4>2. ps \in Seq(1..(Len(built) + 1) - 1)
        BY <3>2, <4>1, Zenon
      <4>3. ps \in Seq(Nat)
        BY <3>2, <4>1, SeqOfMore, Zenon
      <4>4. Multipart(ps, b) \in Messages /\ IsMessage(Multipart(ps, b), Len(built) + 1)
        <5>1. Multipart(ps, b) \in {Multipart(x, b) : x \in Seq(Nat)}
          BY <4>3, Zenon
        <5>2. Multipart(ps, b) \in Messages
          BY <5>1, Zenon DEF Messages
        <5>3. IsMessage(Multipart(ps, b), Len(built) + 1)
          BY <3>2, <4>2, Zenon DEF IsMessage
        <5>4. QED  BY <5>2, <5>3, Zenon
      <4>5. QED  BY <2>0, <3>1, <4>4, TableGrows, Zenon
    <3>4. held' \in Seq(1..Len(built'))
      <4>1. 1..Len(built) \subseteq 1..Len(built') /\ Len(built) + 1 \in 1..Len(built')
        BY <2>0, <3>1
      <4>2. SubSeq(held, 1, n) \in Seq(1..Len(built'))
        BY <3>2, <4>1, SeqOfMore, Zenon
      <4>3. QED  BY <3>1, <4>1, <4>2
    <3>5. raw' = <<>> /\ parsed' = NotParsed
      BY <3>1, Zenon DEF TreeInv
    <3>6. QED  BY <3>3, <3>4, <3>5, Zenon DEF TreeInv
  <2>4. CASE compose
    <3>1. /\ built' = built /\ held' = held /\ parsed' = parsed /\ raw = <<>>
          /\ Len(held) = 1 /\ raw' = render_message(built, held[1])
      BY <2>4, Zenon DEF compose
    <3>2. parsed' = NotParsed
      BY <3>1, Zenon DEF TreeInv
    <3>3. QED  BY <2>0, <3>1, <3>2, Zenon DEF TreeInv
  <2>5. CASE parse
    <3>1. /\ built' = built /\ held' = held /\ raw' = raw /\ raw # <<>>
          /\ parsed' = parse_message_raw(raw)
      BY <2>5, Zenon DEF parse
    <3>2. QED  BY <3>1, Zenon DEF TreeInv
  <2>6. QED
    <3>1. CASE Next
      <4>1. CASE TreeNext
        BY <2>2, <2>3, <2>4, <2>5, <4>1, Zenon DEF TreeNext, AllBoundaries
      <4>2. CASE UNCHANGED <<built, held, raw, parsed>>
        BY <2>1, <4>2, Zenon
      <4>3. QED  BY <3>1, <4>1, <4>2, Zenon DEF Next
    <3>2. CASE UNCHANGED vars
      BY <2>1, <3>2, Zenon DEF vars
    <3>3. QED  BY <3>1, <3>2, Zenon
<1>3. QED  BY <1>1, <1>2, PTL DEF Spec

\* For every table of messages and every hash function: a boundary that
\* compose generates (mime.rs:576-587) is no line of a body it encloses, since
\* one of the attempts is always free.
THEOREM GeneratedBoundariesAreFree == Spec => []GeneratedBoundaryIsFree
<1>1. ASSUME TreeInv PROVE GeneratedBoundaryIsFree
  <2>1. SUFFICES ASSUME raw # <<>>, NEW outer \in Within(built, held[1]),
                        built[outer].boundary = NoBoundary,
                        NEW inner \in Within(built, outer),
                        NEW l \in DOMAIN built[inner].body
                 PROVE  built[inner].body[l] \notin {Marker(boundary_of(built, outer)),
                                                     Close(boundary_of(built, outer))}
    BY Zenon DEF GeneratedBoundaryIsFree
  <2> DEFINE b == boundary_of(built, outer)
  <2>2. Ordered(built) /\ LinesIn(built, TableLines(built))
    BY <1>1, TableOrdered, TableLinesIn, Zenon DEF TreeInv
  <2>3. held[1] \in 1..Len(built)
    <3>1. held \in Seq(1..Len(built)) /\ Len(held) = 1
      BY <1>1, <2>1, Zenon DEF TreeInv
    <3>2. QED  BY <3>1, OneElement, Zenon
  <2>4. outer \in 1..Len(built)
    <3>1. outer \in 1..held[1]
      BY <2>2, <2>3, WithinFacts, Zenon
    <3>2. Len(built) \in Nat
      BY <2>2, Zenon DEF Ordered
    <3>3. QED  BY <2>3, <3>1, <3>2
  <2>5. b = generate_boundary(built, outer)
    BY <2>1, Zenon DEF boundary_of
  <2>6. ~message_contains_boundary(built, outer, b)
    BY <2>2, <2>4, <2>5, BoundaryFree, Zenon
  <2>7. built[inner].body[l][3] # b
    BY <2>6, Zenon DEF message_contains_boundary
  <2> HIDE DEF b
  <2>8. Marker(b)[3] = b /\ Close(b)[3] = b
    BY DEF Marker, Close
  <2>9. QED  BY <2>7, <2>8, Zenon DEF b
<1>2. QED  BY <1>1, TreeInvHolds, PTL

(***************************************************************************)
(* What compose renders.                                                   *)
(***************************************************************************)

\* The lines of the body that a script expects back.
BodyOf(m) == IF m.body = <<>> THEN <<Blank>> ELSE m.body

\* A sequence is one over its values.
LEMMA OwnValues == ASSUME NEW S, NEW s \in Seq(S) PROVE s \in Seq(Values(s))
<1>1. \A i \in 1..Len(s) : s[i] \in Values(s)
  BY DEF Values
<1>2. Len(s) \in Nat /\ s = [i \in 1..Len(s) |-> s[i]]
  OBVIOUS
<1>3. s \in [1..Len(s) -> Values(s)]
  BY <1>1, <1>2, Zenon
<1>4. QED  BY <1>2, <1>3, SeqOfFunction, Zenon

\* The body that comes back has a line at least.
LEMMA BodyOfFacts ==
    ASSUME NEW B, NEW m, m.body \in Seq(B)
    PROVE  BodyOf(m) \in Seq(B \cup {Blank}) /\ BodyOf(m) # <<>>
<1> DEFINE y == m.body
           C == B \cup {Blank}
<1>1. y \in Seq(B)
  BY Zenon
<1>2. BodyOf(m) = IF y = <<>> THEN <<Blank>> ELSE y
  BY Zenon DEF BodyOf
<1>3. B \subseteq C /\ Blank \in C
  BY Zenon
<1> HIDE DEF y, C
<1>4. y \in Seq(C)
  BY <1>1, <1>3, SeqOfMore, Zenon
<1>5. \A x : x \in C => <<x>> \in Seq(C) /\ <<x>> # <<>>
  OBVIOUS
<1>6. QED  BY <1>2, <1>3, <1>4, <1>5, Zenon DEF C

\* base64 marks every line; other encodings leave the lines as they are.
LEMMA RenderBodyFacts ==
    ASSUME NEW B, NEW m, m.body \in Seq(B)
    PROVE  /\ render_body(m) \in Seq(Values(render_body(m)))
           /\ render_body(m) # <<>>
           /\ choose_encoding(m) # "base64" => render_body(m) = BodyOf(m)
           /\ choose_encoding(m) = "base64" =>
                 \A v \in Values(render_body(m)) : v[1] = "base64"
           /\ decode_body(render_body(m), choose_encoding(m)) = BodyOf(m)
<1> DEFINE lines == BodyOf(m)
           marked == [i \in DOMAIN lines |-> <<"base64", lines[i], NoBoundary>>]
           n == Len(lines)
<1>1. lines \in Seq(B \cup {Blank}) /\ lines # <<>>
  BY BodyOfFacts, Zenon
<1>2. render_body(m) = IF choose_encoding(m) = "base64" THEN marked ELSE lines
  BY Zenon DEF render_body, BodyOf
<1> HIDE DEF lines
<1>3. n \in Nat /\ n # 0 /\ DOMAIN lines = 1..n /\ lines = [i \in 1..n |-> lines[i]]
  BY <1>1
<1> HIDE DEF n
<1>4. CASE choose_encoding(m) # "base64"
  <2>1. lines \in Seq(Values(lines))
    BY <1>1, OwnValues, Zenon
  <2>2. decode_body(lines, choose_encoding(m)) = lines
    BY <1>4, Zenon DEF decode_body
  <2>3. QED  BY <1>1, <1>2, <1>4, <2>1, <2>2, Zenon DEF lines
<1>5. CASE choose_encoding(m) = "base64"
  <2>1. \A i \in 1..n : marked[i] = <<"base64", lines[i], NoBoundary>>
    BY <1>3, Zenon
  <2>2. \A x : <<"base64", x, NoBoundary>>[1] = "base64" /\ <<"base64", x, NoBoundary>>[2] = x
    BY Zenon
  <2>3. DOMAIN marked = 1..n /\ marked = [i \in 1..n |-> marked[i]]
    BY <1>3, Zenon
  <2> HIDE DEF marked
  <2>4. \A i \in 1..n : marked[i][1] = "base64" /\ marked[i][2] = lines[i]
    <3>1. TAKE i \in 1..n
    <3>2. marked[i] = <<"base64", lines[i], NoBoundary>>
      BY <2>1, Zenon
    <3> DEFINE w == marked[i]
               a == "base64"
               x == lines[i]
    <3>3. w = <<a, x, NoBoundary>>
      BY <3>2, Zenon
    <3> HIDE DEF w, a, x
    <3>4. w[1] = a /\ w[2] = x
      BY <3>3
    <3>5. QED  BY <3>4, Zenon DEF w, a, x
  <2>5. \A i \in 1..n : marked[i] \in Values(marked)
    BY <2>3, Zenon DEF Values
  <2>6. marked \in [1..n -> Values(marked)]
    BY <2>3, <2>5, Zenon
  <2>7. marked \in Seq(Values(marked)) /\ Len(marked) = n
    BY <1>3, <2>6, SeqOfFunction, Zenon
  <2>8. marked # <<>>
    BY <1>3, <2>7
  <2>9. \A v \in Values(marked) : v[1] = "base64"
    <3>1. \A v \in Values(marked) : \E i \in 1..n : v = marked[i]
      BY <2>3, Zenon DEF Values
    <3>2. TAKE v \in Values(marked)
    <3>3. PICK i \in 1..n : v = marked[i]
      BY <3>1, Zenon
    <3>4. QED  BY <2>4, <3>3, Zenon
  <2>10. decode_body(marked, "base64") = lines
    <3>1. decode_body(marked, "base64") =
             [i \in 1..n |-> IF marked[i][1] = "base64" THEN marked[i][2] ELSE marked[i]]
      BY <2>3, Zenon DEF decode_body
    <3>2. [i \in 1..n |-> IF marked[i][1] = "base64" THEN marked[i][2] ELSE marked[i]]
             = [i \in 1..n |-> lines[i]]
      BY <2>4, Zenon
    <3>3. QED  BY <1>3, <3>1, <3>2, Zenon
  <2>11. QED  BY <1>2, <1>5, <2>7, <2>8, <2>9, <2>10, Zenon DEF lines
<1>6. QED  BY <1>4, <1>5, Zenon

\* The lines that render_message writes for the message k.
LinesFor(t, k) ==
    {Blank, TypeLine(content_type(t[k]), NoBoundary), EncodingLine(choose_encoding(t[k])),
     TypeLine("multipart", boundary_of(t, k)), Marker(boundary_of(t, k)),
     Close(boundary_of(t, k))} \cup Values(render_body(t[k]))

\* The lines that a table may render to.
RenderedLines(t) == UNION {LinesFor(t, k) : k \in 1..Len(t)}

\* A message with parts, rendered from the rendered parts q.
Framed(b, q) ==
    <<TypeLine("multipart", b), Blank>>
    \o Concat([p \in DOMAIN q |-> <<Marker(b)>> \o q[p]])
    \o <<Close(b), Blank>>

\* Parts with a line before each are as many parts.
LEMMA MarkedParts ==
    ASSUME NEW S, NEW q \in Seq(Seq(S)), NEW x \in S
    PROVE  /\ [p \in DOMAIN q |-> <<x>> \o q[p]] \in Seq(Seq(S))
           /\ Len([p \in DOMAIN q |-> <<x>> \o q[p]]) = Len(q)
<1> DEFINE n == Len(q)
           z == [p \in DOMAIN q |-> <<x>> \o q[p]]
<1>1. n \in Nat /\ DOMAIN q = 1..n /\ \A p \in 1..n : <<x>> \o q[p] \in Seq(S)
  OBVIOUS
<1>2. z \in [1..n -> Seq(S)]
  BY <1>1, Zenon
<1> HIDE DEF z, n
<1>3. z \in Seq(Seq(S)) /\ Len(z) = n
  BY <1>1, <1>2, SeqOfFunction, Zenon
<1>4. QED  BY <1>3, Zenon DEF z, n

\* What a message with parts renders to is a sequence of lines.
LEMMA FramedTyped ==
    ASSUME NEW S, NEW q \in Seq(Seq(S)), NEW b, TypeLine("multipart", b) \in S,
           Blank \in S, Marker(b) \in S, Close(b) \in S
    PROVE  Framed(b, q) \in Seq(S)
<1> DEFINE z == [p \in DOMAIN q |-> <<Marker(b)>> \o q[p]]
<1>1. z \in Seq(Seq(S))
  BY MarkedParts, Zenon
<1>2. Framed(b, q) = <<TypeLine("multipart", b), Blank>> \o Concat(z) \o <<Close(b), Blank>>
  BY Zenon DEF Framed
<1> HIDE DEF z
<1>3. Concat(z) \in Seq(S)
  BY <1>1, ConcatTyped, Zenon
<1>4. \A x, y : x \in S /\ y \in S => <<x, y>> \in Seq(S)
  OBVIOUS
<1>5. /\ <<TypeLine("multipart", b), Blank>> \in Seq(S)
      /\ <<Close(b), Blank>> \in Seq(S)
  BY <1>4, Zenon
<1>6. <<TypeLine("multipart", b), Blank>> \o Concat(z) \in Seq(S)
  BY <1>3, <1>5, JoinTyped, Zenon
<1>7. QED  BY <1>2, <1>5, <1>6, JoinTyped, Zenon

\* What a leaf renders to is a sequence of lines.
LEMMA LeafTyped ==
    ASSUME NEW t, IsTable(t), NEW k \in 1..Len(t)
    PROVE  render_leaf(t[k]) \in Seq(RenderedLines(t))
<1> DEFINE S == RenderedLines(t)
           x == TypeLine(content_type(t[k]), NoBoundary)
           y == EncodingLine(choose_encoding(t[k]))
<1>1. LinesFor(t, k) \subseteq S
  BY Zenon DEF RenderedLines
<1>2. x \in S /\ y \in S /\ Blank \in S /\ Values(render_body(t[k])) \subseteq S
  BY <1>1, Zenon DEF LinesFor
<1>3. t[k].body \in Seq(BodyLines)
  BY BodyTyped, Zenon
<1>4. render_body(t[k]) \in Seq(Values(render_body(t[k])))
  BY <1>3, RenderBodyFacts, Zenon
<1>5. render_leaf(t[k]) = <<x, y, Blank>> \o render_body(t[k])
  BY Zenon DEF render_leaf
<1> DEFINE z == render_body(t[k])
           V == Values(z)
<1> HIDE DEF S, x, y
<1>6. z \in Seq(V) /\ V \subseteq S
  BY <1>2, <1>4, Zenon
<1> HIDE DEF V, z
<1>7. z \in Seq(S)
  BY <1>6, SeqOfMore, Zenon
<1>8. \A a, b, c : a \in S /\ b \in S /\ c \in S => <<a, b, c>> \in Seq(S)
  OBVIOUS
<1>9. <<x, y, Blank>> \in Seq(S)
  BY <1>2, <1>8, Zenon
<1>10. <<x, y, Blank>> \o z \in Seq(S)
  BY <1>7, <1>9, JoinTyped, Zenon
<1>11. QED  BY <1>5, <1>10, Zenon DEF S, z

\* What render_message writes for a leaf and for a message with parts.
LEMMA RenderFacts ==
    ASSUME NEW t, IsTable(t)
    PROVE  \A k \in 1..Len(t) :
              /\ render_message(t, k) \in Seq(RenderedLines(t))
              /\ t[k].parts = <<>> => render_message(t, k) = render_leaf(t[k])
              /\ t[k].parts # <<>> =>
                    render_message(t, k) = Framed(boundary_of(t, k),
                        [p \in DOMAIN t[k].parts |-> render_message(t, t[k].parts[p])])
<1> DEFINE N == Len(t)
           S == RenderedLines(t)
           R == Seq(S)
           Of(f, k) == [p \in DOMAIN t[k].parts |-> f[t[k].parts[p]]]
           Written(f, k) ==
               LET b == boundary_of(t, k)
               IN IF t[k].parts = <<>> THEN render_leaf(t[k])
                  ELSE <<TypeLine("multipart", b), Blank>>
                       \o Concat([p \in DOMAIN t[k].parts |->
                                     <<Marker(b)>> \o f[t[k].parts[p]]])
                       \o <<Close(b), Blank>>
           Body(f, k) == IF t[k].parts = <<>> THEN render_leaf(t[k])
                         ELSE Framed(boundary_of(t, k), Of(f, k))
           g == [k \in 1..N |-> [h \in [1..k - 1 -> R] |-> Body(h, k)]]
           F == CHOOSE f : f = [k \in 1..N |-> Written(f, k)]
<1>0. Ordered(t)
  BY TableOrdered, Zenon
<1>1. N \in Nat
  BY <1>0, Zenon DEF Ordered
<1>2. \A k \in 1..N : \A p \in DOMAIN t[k].parts :
          t[k].parts[p] \in 1..k - 1 /\ t[k].parts[p] \in 1..N
  BY <1>0, PartIsOlder, Zenon
<1>3. ASSUME NEW f, NEW k PROVE Written(f, k) = Body(f, k)
  <2>2. [p \in DOMAIN Of(f, k) |-> <<Marker(boundary_of(t, k))>> \o Of(f, k)[p]]
          = [p \in DOMAIN t[k].parts |-> <<Marker(boundary_of(t, k))>> \o f[t[k].parts[p]]]
    BY Zenon
  <2>3. QED  BY <2>2, Zenon DEF Framed
<1>4. \A i : render_message(t, i) = F[i]
  BY Zenon DEF render_message
<1> HIDE DEF Written
<1>5. ASSUME NEW k \in 1..N, NEW h \in [1..k - 1 -> R] PROVE Body(h, k) \in R
  <2> DEFINE q == Of(h, k)
             b == boundary_of(t, k)
  <2>1. \A p \in DOMAIN t[k].parts : q[p] \in R
    BY <1>2, Zenon
  <2>2. q = [p \in DOMAIN t[k].parts |-> q[p]]
    BY Zenon
  <2> HIDE DEF q, R
  <2>3. q \in Seq(R)
    <3>1. OfParts(q, t, k, R)
      BY <2>1, <2>2, Zenon DEF OfParts
    <3>2. QED  BY <1>0, <3>1, PartsSequence, Zenon
  <2>4. LinesFor(t, k) \subseteq S
    BY Zenon DEF RenderedLines
  <2>5. TypeLine("multipart", b) \in S /\ Blank \in S /\ Marker(b) \in S /\ Close(b) \in S
    BY <2>4, Zenon DEF LinesFor
  <2>6. render_leaf(t[k]) \in Seq(S)
    BY LeafTyped, Zenon
  <2> HIDE DEF S, b
  <2>7. Framed(b, q) \in Seq(S)
    BY <2>3, <2>5, FramedTyped, Zenon DEF R
  <2>8. QED  BY <2>6, <2>7, Zenon DEF R, q, b
<1> HIDE DEF N, S
<1>6. ASSUME NEW k \in 1..N, NEW f PROVE Body(f, k) = Body(OfOlder(f, k), k)
  <2>1. \A p \in DOMAIN t[k].parts : f[t[k].parts[p]] = OfOlder(f, k)[t[k].parts[p]]
    BY <1>2, Zenon DEF OfOlder
  <2>2. Of(f, k) = Of(OfOlder(f, k), k)
    BY <2>1, Zenon
  <2> HIDE DEF Of
  <2>3. QED  BY <2>2, Zenon
<1>7. \A k \in 1..N : \A h \in [1..k - 1 -> R] : g[k][h] = Body(h, k)
  BY Zenon
<1> HIDE DEF Body, g
<1>8. TableComputes(N, R, g)
  BY <1>5, <1>7, Zenon DEF TableComputes
<1>9. \E f : f = [k \in 1..N |-> Written(f, k)]
  <2>1. PICK f : TableSolution(f, N, R, g)
    BY <1>1, <1>8, TableSolutionFound, Zenon
  <2>2. \A k \in 1..N : OfOlder(f, k) \in [1..k - 1 -> R]
    <3>1. \A k \in 1..N : \A j \in 1..k - 1 : j \in 1..N
      BY <1>1
    <3>2. QED  BY <2>1, <3>1, Zenon DEF TableSolution, OfOlder
  <2>3. \A k \in 1..N : f[k] = Body(f, k)
    BY <1>6, <1>7, <2>1, <2>2, Zenon DEF TableSolution
  <2>4. \A k \in 1..N : f[k] = Written(f, k)
    BY <1>3, <2>3, Zenon
  <2>5. QED  BY <2>1, <2>4, Zenon DEF TableSolution
<1>10. F = [k \in 1..N |-> Written(F, k)]
  BY <1>9, Zenon
<1> HIDE DEF F
<1>11. F = [k \in 1..N |-> F[k]] /\ \A k \in 1..N : F[k] = Written(F, k)
  BY <1>10, Zenon
<1>12. \A k \in 1..N : F[k] = Body(F, k)
  BY <1>3, <1>11, Zenon
<1>13. F \in [1..N -> R]
  <2>1. TableSolves(F, N, R, g)
    BY <1>6, <1>7, <1>11, <1>12, Zenon DEF TableSolves
  <2>2. QED  BY <1>1, <1>8, <2>1, TableTyped, Zenon
<1>14. ASSUME NEW k \in 1..N
       PROVE  /\ t[k].parts = <<>> => render_message(t, k) = render_leaf(t[k])
              /\ t[k].parts # <<>> =>
                    render_message(t, k) = Framed(boundary_of(t, k),
                        [p \in DOMAIN t[k].parts |-> render_message(t, t[k].parts[p])])
  <2>1. Of(F, k) = [p \in DOMAIN t[k].parts |-> render_message(t, t[k].parts[p])]
    BY <1>4, Zenon
  <2> HIDE DEF Of
  <2>2. F[k] = IF t[k].parts = <<>> THEN render_leaf(t[k])
               ELSE Framed(boundary_of(t, k), Of(F, k))
    BY <1>12, Zenon DEF Body
  <2>3. QED  BY <1>4, <2>1, <2>2, Zenon
<1>15. \A k \in 1..N : render_message(t, k) \in R
  BY <1>4, <1>13, Zenon
<1>16. QED  BY <1>14, <1>15, Zenon DEF N, S

\* The kinds of lines and what they contain.
LEMMA MarkerFacts == ASSUME NEW b PROVE Marker(b)[1] = "marker" /\ Marker(b)[3] = b
BY DEF Marker

\* The kind and the boundary of a closing line.
LEMMA CloseFacts == ASSUME NEW b PROVE Close(b)[1] = "close" /\ Close(b)[3] = b
BY DEF Close

\* The fields of a Content-Type line.
LEMMA TypeLineFacts ==
    ASSUME NEW x, NEW b
    PROVE  /\ TypeLine(x, b)[1] = "Content-Type"
           /\ TypeLine(x, b)[2] = x /\ TypeLine(x, b)[3] = b
BY DEF TypeLine

\* The fields of a Content-Transfer-Encoding line.
LEMMA EncodingLineFacts ==
    ASSUME NEW x
    PROVE  /\ EncodingLine(x)[1] = "Content-Transfer-Encoding"
           /\ EncodingLine(x)[2] = x
BY DEF EncodingLine

\* The blank line is a line of text.
LEMMA BlankFacts == Blank[1] = "text"
BY Zenon DEF Blank, Text

\* The lines that delimit parts by the boundary b.
Delimiting(b) == {Marker(b), Close(b)}

\* A line of another kind, or with another boundary, does not delimit.
LEMMA NotDelimiting ==
    ASSUME NEW v, NEW b,
           v[1] \in {"text", "base64", "Content-Type", "Content-Transfer-Encoding"}
           \/ v[3] # b
    PROVE  v \notin Delimiting(b)
<1>1. /\ "marker" \notin {"text", "base64", "Content-Type", "Content-Transfer-Encoding"}
      /\ "close" \notin {"text", "base64", "Content-Type", "Content-Transfer-Encoding"}
  OBVIOUS
<1>2. v # Marker(b)
  BY <1>1, MarkerFacts, Zenon
<1>3. v # Close(b)
  BY <1>1, CloseFacts, Zenon
<1>4. QED  BY <1>2, <1>3, Zenon DEF Delimiting

\* The values of one, two and three elements.
LEMMA SmallValues ==
    /\ \A x : Values(<<x>>) = {x}
    /\ \A x, y : Values(<<x, y>>) = {x, y}
    /\ \A x, y, z : Values(<<x, y, z>>) = {x, y, z}
<1>1. \A x : Values(<<x>>) = {x}
  BY DEF Values
<1>2. ASSUME NEW x, NEW y PROVE Values(<<x, y>>) = {x, y}
  <2> DEFINE s == <<x, y>>
  <2>1. DOMAIN s = {1, 2} /\ s[1] = x /\ s[2] = y
    OBVIOUS
  <2> HIDE DEF s
  <2>2. Values(s) = {x, y}
    BY <2>1, Zenon DEF Values
  <2>3. QED  BY <2>2, Zenon DEF s
<1>3. ASSUME NEW x, NEW y, NEW z PROVE Values(<<x, y, z>>) = {x, y, z}
  <2> DEFINE s == <<x, y, z>>
  <2>1. DOMAIN s = {1, 2, 3} /\ s[1] = x /\ s[2] = y /\ s[3] = z
    OBVIOUS
  <2> HIDE DEF s
  <2>2. Values(s) = {x, y, z}
    BY <2>1, Zenon DEF Values
  <2>3. QED  BY <2>2, Zenon DEF s
<1>4. QED  BY <1>1, <1>2, <1>3, Zenon

\* The lines of a framed message: its own and those of the parts.
FrameLines(b) == {TypeLine("multipart", b), Blank, Marker(b), Close(b)}

\* The lines of a framed message are its own and those of the parts.
LEMMA FramedValues ==
    ASSUME NEW S, NEW q \in Seq(Seq(S)), NEW b, FrameLines(b) \subseteq S
    PROVE  /\ \A v \in Values(Framed(b, q)) :
                 v \in FrameLines(b) \/ \E p \in DOMAIN q : v \in Values(q[p])
           /\ \A p \in DOMAIN q : Values(q[p]) \subseteq Values(Framed(b, q))
<1> DEFINE z == [p \in DOMAIN q |-> <<Marker(b)>> \o q[p]]
           x == <<TypeLine("multipart", b), Blank>>
           y == <<Close(b), Blank>>
<1>1. TypeLine("multipart", b) \in S /\ Blank \in S /\ Marker(b) \in S /\ Close(b) \in S
  BY Zenon DEF FrameLines
<1>2. z \in Seq(Seq(S)) /\ DOMAIN z = DOMAIN q
      /\ \A p \in DOMAIN q : z[p] = <<Marker(b)>> \o q[p]
  BY <1>1, MarkedParts, Zenon
<1>3. x \in Seq(S) /\ y \in Seq(S)
  <2>1. \A c, d : c \in S /\ d \in S => <<c, d>> \in Seq(S)
    OBVIOUS
  <2>2. QED  BY <1>1, <2>1, Zenon
<1>4. Values(x) = {TypeLine("multipart", b), Blank} /\ Values(y) = {Close(b), Blank}
  BY SmallValues, Zenon
<1>5. Framed(b, q) = (x \o Concat(z)) \o y
  BY Zenon DEF Framed
<1> HIDE DEF x, y, z
<1>6. Concat(z) \in Seq(S) /\ Values(Concat(z)) = UNION {Values(z[p]) : p \in DOMAIN z}
  BY <1>2, ConcatTyped, ValuesConcat, Zenon
<1>6a. \A c, d \in Seq(S) : Values(c \o d) = Values(c) \cup Values(d) /\ c \o d \in Seq(S)
  <2>1. \A c, d \in Seq(S) : Values(c \o d) = Values(c) \cup Values(d)
    BY ValuesJoin, Zenon
  <2>2. \A c, d \in Seq(S) : c \o d \in Seq(S)
    BY JoinTyped, Zenon
  <2>3. QED  BY <2>1, <2>2, Zenon
<1>7. Values(Framed(b, q)) = (Values(x) \cup Values(Concat(z))) \cup Values(y)
  <2>1. Values(x \o Concat(z)) = Values(x) \cup Values(Concat(z)) /\ x \o Concat(z) \in Seq(S)
    BY <1>3, <1>6, <1>6a, Zenon
  <2>2. Values((x \o Concat(z)) \o y) = Values(x \o Concat(z)) \cup Values(y)
    BY <1>3, <1>6a, <2>1, Zenon
  <2>3. QED  BY <1>5, <2>1, <2>2, Zenon
<1>8. ASSUME NEW p \in DOMAIN q PROVE Values(z[p]) = {Marker(b)} \cup Values(q[p])
  <2>1. <<Marker(b)>> \in Seq(S) /\ q[p] \in Seq(S)
    <3>1. \A c \in S : <<c>> \in Seq(S)
      OBVIOUS
    <3>2. q[p] \in Seq(S)
      OBVIOUS
    <3>3. QED  BY <1>1, <3>1, <3>2, Zenon
  <2>2. Values(<<Marker(b)>> \o q[p]) = Values(<<Marker(b)>>) \cup Values(q[p])
    BY <1>6a, <2>1, Zenon
  <2>3. QED  BY <1>2, <2>2, SmallValues, Zenon
<1>9. ASSUME NEW v \in Values(Framed(b, q))
      PROVE  v \in FrameLines(b) \/ \E p \in DOMAIN q : v \in Values(q[p])
  <2>1. v \in Values(x) \/ v \in Values(Concat(z)) \/ v \in Values(y)
    BY <1>7, <1>9, Zenon
  <2>2. CASE v \in Values(x) \/ v \in Values(y)
    BY <1>4, <2>2, Zenon DEF FrameLines
  <2>3. CASE v \in Values(Concat(z))
    <3>1. PICK p \in DOMAIN q : v \in Values(z[p])
      BY <1>2, <1>6, <2>3, Zenon
    <3>2. v = Marker(b) \/ v \in Values(q[p])
      BY <1>8, <3>1, Zenon
    <3>3. QED  BY <3>2, Zenon DEF FrameLines
  <2>4. QED  BY <2>1, <2>2, <2>3, Zenon
<1>10. ASSUME NEW p \in DOMAIN q PROVE Values(q[p]) \subseteq Values(Framed(b, q))
  <2>1. Values(z[p]) \subseteq Values(Concat(z))
    BY <1>2, <1>6, Zenon
  <2>2. Values(q[p]) \subseteq Values(z[p])
    BY <1>8, Zenon
  <2>3. QED  BY <1>7, <2>1, <2>2, Zenon
<1>11. QED  BY <1>9, <1>10, Zenon

\* The message j does not show the boundary b of a message around it.
ClearOf(t, j, b) ==
    IF t[j].parts # <<>> THEN boundary_of(t, j) # b
    ELSE choose_encoding(t[j]) = "base64" \/ ~message_contains_boundary(t, j, b)

\* What is within a part is within the message, which is not within the part.
LEMMA WithinSplit ==
    ASSUME NEW t, Ordered(t), NEW k \in 1..Len(t)
    PROVE  /\ k \in Within(t, k)
           /\ \A p \in DOMAIN t[k].parts : Within(t, t[k].parts[p]) \subseteq Within(t, k)
           /\ \A p \in DOMAIN t[k].parts : k \notin Within(t, t[k].parts[p])
<1>1. Within(t, k) = {k} \cup UNION {Within(t, t[k].parts[p]) : p \in DOMAIN t[k].parts}
  BY WithinFacts, Zenon
<1>2. ASSUME NEW p \in DOMAIN t[k].parts PROVE k \notin Within(t, t[k].parts[p])
  <2>1. t[k].parts[p] \in 1..k - 1 /\ t[k].parts[p] \in 1..Len(t)
    BY PartIsOlder, Zenon
  <2>2. Within(t, t[k].parts[p]) \subseteq 1..t[k].parts[p]
    BY <2>1, WithinFacts, Zenon
  <2>3. \A j \in 1..k - 1 : k \notin 1..j
    OBVIOUS
  <2>4. QED  BY <2>1, <2>2, <2>3, Zenon
<1>3. QED  BY <1>1, <1>2, Zenon

\* The lines of a leaf do not delimit when the leaf is clear of b.
LEMMA LeafClear ==
    ASSUME NEW t, IsTable(t), NEW k \in 1..Len(t), t[k].parts = <<>>, NEW b,
           ClearOf(t, k, b), NEW v \in Values(render_leaf(t[k]))
    PROVE  v \notin Delimiting(b)
<1> DEFINE m == t[k]
           x == TypeLine(content_type(m), NoBoundary)
           y == EncodingLine(choose_encoding(m))
           z == render_body(m)
<1>1. m.body \in Seq(BodyLines)
  BY BodyTyped, Zenon
<1>2. z \in Seq(Values(z))
  BY <1>1, RenderBodyFacts, Zenon
<1>3. render_leaf(m) = <<x, y, Blank>> \o z
  BY Zenon DEF render_leaf
<1>4. v \in {x, y, Blank} \/ v \in Values(z)
  <2> DEFINE S == {x, y, Blank} \cup Values(z)
             h == <<x, y, Blank>>
  <2>1. x \in S /\ y \in S /\ Blank \in S /\ Values(z) \subseteq S
    <3> HIDE DEF x, y, z
    <3>1. x \in S /\ y \in S /\ Blank \in S
      BY Zenon
    <3>2. Values(z) \subseteq S
      BY Zenon
    <3>3. QED  BY <3>1, <3>2, Zenon
  <2>2. Values(h) = {x, y, Blank}
    <3> HIDE DEF x, y
    <3>1. \A c, d, e : Values(<<c, d, e>>) = {c, d, e}
      BY SmallValues, Zenon
    <3>2. QED  BY <3>1, Zenon
  <2> HIDE DEF S
  <2>3. h \in Seq(S)
    <3>1. \A c, d, e \in S : <<c, d, e>> \in Seq(S)
      OBVIOUS
    <3>2. QED  BY <2>1, <3>1, Zenon
  <2> HIDE DEF x, y, z, h
  <2>4. z \in Seq(S)
    <3> DEFINE V == Values(z)
    <3>1. z \in Seq(V) /\ V \subseteq S
      BY <1>2, <2>1, Zenon
    <3> HIDE DEF V
    <3>2. QED  BY <3>1, SeqOfMore, Zenon
  <2>5. Values(h \o z) = Values(h) \cup Values(z)
    BY <2>3, <2>4, ValuesJoin, ZenonT(40)
  <2>6. QED  BY <1>3, <2>2, <2>5, Zenon DEF h
<1>5. CASE v \in {x, y, Blank}
  <2>0. x[1] = "Content-Type" /\ y[1] = "Content-Transfer-Encoding" /\ Blank[1] = "text"
    <3>1. x[1] = "Content-Type"
      BY TypeLineFacts, ZenonT(40)
    <3>2. y[1] = "Content-Transfer-Encoding"
      BY EncodingLineFacts, Zenon
    <3>3. QED  BY <3>1, <3>2, BlankFacts, Zenon
  <2> HIDE DEF x, y
  <2>1. v[1] \in {"text", "base64", "Content-Type", "Content-Transfer-Encoding"}
    BY <1>5, <2>0, Zenon
  <2>2. QED  BY <2>1, NotDelimiting, Zenon
<1>6. CASE v \in Values(z) /\ choose_encoding(m) = "base64"
  <2>1. v[1] = "base64"
    BY <1>1, <1>6, RenderBodyFacts, Zenon
  <2>2. QED  BY <2>1, NotDelimiting, Zenon
<1>7. CASE v \in Values(z) /\ choose_encoding(m) # "base64"
  <2>1. z = BodyOf(m)
    BY <1>1, <1>7, RenderBodyFacts, Zenon
  <2>2. v \in Values(BodyOf(m))
    BY <1>7, <2>1, Zenon
  <2>3. CASE m.body = <<>>
    <3>1. v = Blank
      BY <2>2, <2>3, SmallValues, Zenon DEF BodyOf
    <3>2. QED  BY <1>5, <3>1, Zenon
  <2>4. CASE m.body # <<>>
    <3>1. v \in Values(m.body)
      BY <2>2, <2>4, Zenon DEF BodyOf
    <3>2. ~message_contains_boundary(t, k, b)
      BY <1>7, Zenon DEF ClearOf
    <3>3. k \in Within(t, k)
      BY TableOrdered, WithinSplit, Zenon
    <3>4. \A l \in DOMAIN t[k].body : t[k].body[l][3] # b
      BY <3>2, <3>3, Zenon DEF message_contains_boundary
    <3>5. PICK l \in DOMAIN t[k].body : v = t[k].body[l]
      BY <3>1, Zenon DEF Values
    <3>6. v[3] # b
      BY <3>4, <3>5, Zenon
    <3>7. QED  BY <3>6, NotDelimiting, Zenon
  <2>5. QED  BY <2>3, <2>4, Zenon
<1>8. QED  BY <1>4, <1>5, <1>6, <1>7, Zenon

\* The lines of a frame do not delimit by another boundary.
LEMMA FrameClear ==
    ASSUME NEW b, NEW c, b # c, NEW v \in FrameLines(c) PROVE v \notin Delimiting(b)
<1>1. CASE v = TypeLine("multipart", c) \/ v = Blank
  <2> DEFINE x == TypeLine("multipart", c)
  <2>0. x[1] = "Content-Type" /\ Blank[1] = "text" /\ (v = x \/ v = Blank)
    <3>1. x[1] = "Content-Type"
      BY TypeLineFacts, Zenon
    <3>2. QED  BY <1>1, <3>1, BlankFacts, Zenon
  <2> HIDE DEF x
  <2>1. v[1] \in {"text", "base64", "Content-Type", "Content-Transfer-Encoding"}
    BY <2>0, Zenon
  <2>2. QED  BY <2>1, NotDelimiting, Zenon
<1>2. CASE v = Marker(c) \/ v = Close(c)
  <2> DEFINE x == Marker(c)
             y == Close(c)
  <2>0. x[3] = c /\ y[3] = c /\ (v = x \/ v = y)
    BY <1>2, MarkerFacts, CloseFacts, Zenon
  <2> HIDE DEF x, y
  <2>1. v[3] # b
    BY <2>0, Zenon
  <2>2. QED  BY <2>1, NotDelimiting, Zenon
<1>3. QED  BY <1>1, <1>2, Zenon DEF FrameLines

\* The rendered parts of a message.
Parts(t, k) == [p \in DOMAIN t[k].parts |-> render_message(t, t[k].parts[p])]

\* The rendered parts, one by one.
LEMMA PartsFacts ==
    ASSUME NEW t, IsTable(t), NEW k \in 1..Len(t)
    PROVE  /\ Parts(t, k) \in Seq(Seq(RenderedLines(t)))
           /\ DOMAIN Parts(t, k) = DOMAIN t[k].parts
           /\ \A p \in DOMAIN t[k].parts :
                 /\ t[k].parts[p] \in 1..k - 1 /\ t[k].parts[p] \in 1..Len(t)
                 /\ Parts(t, k)[p] = render_message(t, t[k].parts[p])
           /\ FrameLines(boundary_of(t, k)) \subseteq RenderedLines(t)
<1>0. Ordered(t)
  BY TableOrdered, Zenon
<1>1. \A p \in DOMAIN t[k].parts : t[k].parts[p] \in 1..k - 1 /\ t[k].parts[p] \in 1..Len(t)
  BY <1>0, PartIsOlder, Zenon
<1>2. DOMAIN Parts(t, k) = DOMAIN t[k].parts
      /\ \A p \in DOMAIN t[k].parts : Parts(t, k)[p] = render_message(t, t[k].parts[p])
  BY Zenon DEF Parts
<1>3. \A p \in DOMAIN t[k].parts : Parts(t, k)[p] \in Seq(RenderedLines(t))
  BY <1>1, <1>2, RenderFacts, Zenon
<1>4. Parts(t, k) = [p \in DOMAIN t[k].parts |-> Parts(t, k)[p]]
  BY <1>2, Zenon DEF Parts
<1>5. OfParts(Parts(t, k), t, k, Seq(RenderedLines(t)))
  BY <1>3, <1>4, Zenon DEF OfParts
<1>6. Parts(t, k) \in Seq(Seq(RenderedLines(t)))
  BY <1>0, <1>5, PartsSequence, Zenon
<1>7. LinesFor(t, k) \subseteq RenderedLines(t)
  BY Zenon DEF RenderedLines
<1>8. FrameLines(boundary_of(t, k)) \subseteq LinesFor(t, k)
  BY Zenon DEF LinesFor, FrameLines
<1>9. FrameLines(boundary_of(t, k)) \subseteq RenderedLines(t)
  BY <1>7, <1>8, Zenon
<1>10. QED  BY <1>1, <1>2, <1>6, <1>9, Zenon

\* No line of a rendered message delimits with b when all of it is clear of b.
LEMMA RenderClear ==
    ASSUME NEW t, IsTable(t), NEW b
    PROVE  \A k \in 1..Len(t) :
              (\A j \in Within(t, k) : ClearOf(t, j, b)) =>
                  \A v \in Values(render_message(t, k)) : v \notin Delimiting(b)
<1> DEFINE N == Len(t)
           Clear(k) == \A j \in Within(t, k) : ClearOf(t, j, b)
           T == {k \in 1..N : Clear(k) =>
                     \A v \in Values(render_message(t, k)) : v \notin Delimiting(b)}
<1>0. Ordered(t) /\ N \in Nat
  BY TableOrdered, Zenon DEF Ordered
<1>1. ASSUME NEW k \in 1..N, 1..k - 1 \subseteq T PROVE k \in T
  <2>1. SUFFICES ASSUME Clear(k), NEW v \in Values(render_message(t, k))
                 PROVE  v \notin Delimiting(b)
    BY Zenon
  <2>2. ClearOf(t, k, b)
    BY <1>0, <2>1, WithinSplit, Zenon
  <2>3. CASE t[k].parts = <<>>
    <3>1. render_message(t, k) = render_leaf(t[k])
      BY <2>3, RenderFacts, Zenon
    <3>2. v \in Values(render_leaf(t[k]))
      BY <2>1, <3>1, Zenon
    <3>3. QED  BY <2>2, <2>3, <3>2, LeafClear, Zenon
  <2>4. CASE t[k].parts # <<>>
    <3> DEFINE c == boundary_of(t, k)
               q == Parts(t, k)
    <3>1. render_message(t, k) = Framed(c, q)
      BY <2>4, RenderFacts, Zenon DEF Parts
    <3>2. b # c
      BY <2>2, <2>4, Zenon DEF ClearOf
    <3>3. q \in Seq(Seq(RenderedLines(t))) /\ FrameLines(c) \subseteq RenderedLines(t)
      BY PartsFacts, Zenon
    <3>4. v \in FrameLines(c) \/ \E p \in DOMAIN q : v \in Values(q[p])
      <4>1. v \in Values(Framed(c, q))
        BY <2>1, <3>1, Zenon
      <4> HIDE DEF q, c
      <4>2. QED  BY <3>3, <4>1, FramedValues, Zenon
    <3>5. CASE v \in FrameLines(c)
      BY <3>2, <3>5, FrameClear, Zenon
    <3>6. CASE \E p \in DOMAIN q : v \in Values(q[p])
      <4>1. PICK p \in DOMAIN q : v \in Values(q[p])
        BY <3>6, Zenon
      <4>2. /\ p \in DOMAIN t[k].parts /\ t[k].parts[p] \in 1..k - 1
            /\ q[p] = render_message(t, t[k].parts[p])
        BY PartsFacts, Zenon
      <4>3. Clear(t[k].parts[p])
        BY <1>0, <2>1, <4>2, WithinSplit, Zenon
      <4>4. t[k].parts[p] \in T
        BY <1>1, <4>2, Zenon
      <4>5. QED  BY <4>1, <4>2, <4>3, <4>4, Zenon
    <3>7. QED  BY <3>4, <3>5, <3>6, Zenon
  <2>5. QED  BY <2>3, <2>4, Zenon
<1> HIDE DEF T
<1>2. 1..N \subseteq T
  BY <1>0, <1>1, TableInduction, Zenon
<1>3. QED  BY <1>2, Zenon DEF T

(***************************************************************************)
(* What multipart_sections finds.                                          *)
(***************************************************************************)

\* A state of the loop of multipart_sections.
Sectioned(i, d, c, ss) == [inside |-> i, closed |-> d, current |-> c, sections |-> ss]

\* The loop of multipart_sections on the line of a boundary.
LEMMA SectionMarker ==
    ASSUME NEW c, NEW ss, NEW b
    PROVE  /\ SectionLine(Sectioned(TRUE, FALSE, c, ss), Marker(b), b)
                 = Sectioned(TRUE, FALSE, <<>>, Append(ss, c))
           /\ SectionLine(Sectioned(FALSE, FALSE, c, ss), Marker(b), b)
                 = Sectioned(TRUE, FALSE, <<>>, ss)
BY Zenon DEF SectionLine, Sectioned

\* The loop of multipart_sections on the closing line.
LEMMA SectionClose ==
    ASSUME NEW c, NEW ss, NEW b
    PROVE  SectionLine(Sectioned(TRUE, FALSE, c, ss), Close(b), b)
               = Sectioned(TRUE, TRUE, <<>>, Append(ss, c))
<1>1. Close(b) # Marker(b)
  <2>1. "close" # "marker"
    OBVIOUS
  <2>2. QED  BY <2>1, MarkerFacts, CloseFacts, Zenon
<1>2. QED  BY <1>1, Zenon DEF SectionLine, Sectioned

\* The loop of multipart_sections on a line of a part.
LEMMA SectionPlain ==
    ASSUME NEW c, NEW ss, NEW b, NEW l, l \notin Delimiting(b)
    PROVE  SectionLine(Sectioned(TRUE, FALSE, c, ss), l, b)
               = Sectioned(TRUE, FALSE, Append(c, l), ss)
<1>1. l # Marker(b) /\ l # Close(b)
  BY Zenon DEF Delimiting
<1>2. QED  BY <1>1, Zenon DEF SectionLine, Sectioned

\* The loop of multipart_sections after the closing line.
LEMMA SectionClosed ==
    ASSUME NEW c, NEW ss, NEW b, NEW l
    PROVE  SectionLine(Sectioned(TRUE, TRUE, c, ss), l, b) = Sectioned(TRUE, TRUE, c, ss)
BY Zenon DEF SectionLine, Sectioned

\* The loop goes from the state a over the lines x to the state c.
SectionRun(u, a, x, b) ==
    /\ u = [n \in 0..Len(x) |-> u[n]] /\ u[0] = a
    /\ \A n \in 1..Len(x) : u[n] = SectionLine(u[n - 1], x[n], b)

\* The loop leads from the state a over the lines x to the state c.
Runs(a, x, c, b) == \E u : SectionRun(u, a, x, b) /\ u[Len(x)] = c

\* The loop over one line.
LEMMA RunsOne ==
    ASSUME NEW a, NEW l, NEW b PROVE Runs(a, <<l>>, SectionLine(a, l, b), b)
<1> DEFINE x == <<l>>
           c == SectionLine(a, l, b)
           u == [n \in 0..Len(x) |-> IF n = 0 THEN a ELSE c]
<1>1. Len(x) = 1 /\ x[1] = l
  OBVIOUS
<1> HIDE DEF x, c
<1>2. 0 \in 0..1 /\ 1 \in 0..1 /\ 1 # 0 /\ 1..1 = {1} /\ 1 - 1 = 0
  OBVIOUS
<1>3. u[0] = a /\ u[1] = c /\ u = [n \in 0..Len(x) |-> u[n]]
  BY <1>1, <1>2, Zenon
<1> HIDE DEF u
<1>4. SectionRun(u, a, x, b)
  BY <1>1, <1>2, <1>3, Zenon DEF SectionRun, c
<1>5. Runs(a, x, c, b)
  BY <1>1, <1>3, <1>4, Zenon DEF Runs
<1>6. QED  BY <1>5, Zenon DEF x, c

\* The loop over two sequences of lines, one after the other.
LEMMA RunsJoin ==
    ASSUME NEW S, NEW x \in Seq(S), NEW y \in Seq(S), NEW a, NEW c, NEW d, NEW b,
           Runs(a, x, c, b), Runs(c, y, d, b)
    PROVE  Runs(a, x \o y, d, b)
<1>1. PICK u : SectionRun(u, a, x, b) /\ u[Len(x)] = c
  BY Zenon DEF Runs
<1>2. PICK v : SectionRun(v, c, y, b) /\ v[Len(y)] = d
  BY Zenon DEF Runs
<1> DEFINE z == x \o y
           m == Len(x)
           k == Len(y)
           w == [n \in 0..Len(z) |-> IF n <= m THEN u[n] ELSE v[n - m]]
<1>3. /\ Len(z) = m + k /\ m \in Nat /\ k \in Nat
      /\ \A n \in 1..m : z[n] = x[n]
      /\ \A n \in 1..m + k : n > m => n - m \in 1..k /\ z[n] = y[n - m]
  OBVIOUS
<1> HIDE DEF z, m, k
<1>4. /\ 0 \in 0..m + k /\ 0 <= m /\ m + k \in 0..m + k
      /\ \A n \in 1..m + k : n \in 0..m + k /\ n - 1 \in 0..m + k
      /\ \A n \in 1..m + k : n <= m => n \in 1..m /\ n - 1 <= m
      /\ \A n \in 1..m + k : ~(n <= m) => n > m /\ (n - m) - 1 = (n - 1) - m
      /\ \A n \in 1..m + k : ~(n <= m) /\ n - 1 <= m => n - 1 = m /\ (n - m) - 1 = 0
      /\ m + k <= m => k = 0 /\ m + k = m
      /\ (m + k) - m = k
  BY <1>3
<1>5. \A n \in 0..m + k : w[n] = IF n <= m THEN u[n] ELSE v[n - m]
  BY <1>3, Zenon
<1>6. w = [n \in 0..Len(z) |-> w[n]]
  BY Zenon
<1> HIDE DEF w
<1>7. /\ u[0] = a /\ \A n \in 1..m : u[n] = SectionLine(u[n - 1], x[n], b)
      /\ u[m] = c /\ v[0] = c /\ v[k] = d
      /\ \A n \in 1..k : v[n] = SectionLine(v[n - 1], y[n], b)
  BY <1>1, <1>2, Zenon DEF SectionRun, m, k
<1>8. w[0] = a
  BY <1>4, <1>5, <1>7, Zenon
<1>9. ASSUME NEW n \in 1..m + k PROVE w[n] = SectionLine(w[n - 1], z[n], b)
  <2>1. CASE n <= m
    <3>1. w[n] = u[n] /\ w[n - 1] = u[n - 1] /\ z[n] = x[n] /\ n \in 1..m
      BY <1>3, <1>4, <1>5, <2>1, Zenon
    <3>2. QED  BY <1>7, <3>1, Zenon
  <2>2. CASE ~(n <= m)
    <3>1. w[n] = v[n - m] /\ z[n] = y[n - m] /\ n - m \in 1..k
      BY <1>3, <1>4, <1>5, <2>2, Zenon
    <3>2. w[n - 1] = v[(n - m) - 1]
      <4>1. CASE n - 1 <= m
        BY <1>4, <1>5, <1>7, <2>2, <4>1, Zenon
      <4>2. CASE ~(n - 1 <= m)
        BY <1>4, <1>5, <2>2, <4>2, Zenon
      <4>3. QED  BY <4>1, <4>2, Zenon
    <3>3. v[n - m] = SectionLine(v[(n - m) - 1], y[n - m], b)
      BY <1>7, <3>1, Zenon
    <3>4. QED  BY <3>1, <3>2, <3>3, Zenon
  <2>3. QED  BY <2>1, <2>2, Zenon
<1>10. w[m + k] = d
  <2>1. CASE m + k <= m
    BY <1>4, <1>5, <1>7, <2>1, Zenon
  <2>2. CASE ~(m + k <= m)
    BY <1>4, <1>5, <1>7, <2>2, Zenon
  <2>3. QED  BY <2>1, <2>2, Zenon
<1>11. SectionRun(w, a, z, b) /\ w[Len(z)] = d
  BY <1>3, <1>6, <1>8, <1>9, <1>10, Zenon DEF SectionRun
<1>12. QED  BY <1>11, Zenon DEF Runs, z

\* The state the loop begins with.
SectionStart == Sectioned(FALSE, FALSE, <<>>, <<>>)

\* multipart_sections is such a loop.
LEMMA SectionsAre ==
    ASSUME NEW S, NEW x \in Seq(S), NEW b, NEW c, Runs(SectionStart, x, c, b)
    PROVE  multipart_sections(x, b) = c
<1> DEFINE N == Len(x)
           Body(f, n) == IF n = 0 THEN SectionStart ELSE SectionLine(f[n - 1], x[n], b)
           F == CHOOSE f : f = [n \in 0..N |-> Body(f, n)]
<1>1. /\ N \in Nat /\ 0 \in 0..N /\ N \in 0..N
      /\ \A n \in 1..N : n # 0 /\ n \in 0..N
      /\ \A n \in 0..N : n # 0 => n \in 1..N
  OBVIOUS
<1>2. PICK u : SectionRun(u, SectionStart, x, b) /\ u[N] = c
  BY Zenon DEF Runs
<1>3. multipart_sections(x, b) = F[N]
  BY Zenon DEF multipart_sections, SectionStart, Sectioned
<1> HIDE DEF N
<1>4. u = [n \in 0..N |-> u[n]] /\ u[0] = SectionStart
      /\ \A n \in 1..N : u[n] = SectionLine(u[n - 1], x[n], b)
  BY <1>2, Zenon DEF SectionRun, N
<1>5. \A n \in 0..N : u[n] = Body(u, n)
  BY <1>1, <1>4, Zenon
<1> HIDE DEF Body
<1>6. u = [n \in 0..N |-> Body(u, n)]
  BY <1>4, <1>5, Zenon
<1>7. F = [n \in 0..N |-> Body(F, n)]
  BY <1>6, Zenon
<1> HIDE DEF F
<1>8. \A n \in 0..N : F[n] = Body(F, n)
  BY <1>7, Zenon
<1> DEFINE T == {n \in 0..N : F[n] = u[n]}
<1>9. 0 \in T
  BY <1>1, <1>4, <1>8, Zenon DEF Body
<1>10. ASSUME NEW n \in 1..N, n - 1 \in T PROVE n \in T
  BY <1>1, <1>4, <1>8, <1>10, Zenon DEF Body
<1> HIDE DEF T
<1>11. 0..N \subseteq T
  BY <1>1, <1>9, <1>10, IndexInduction, Zenon
<1>12. QED  BY <1>1, <1>2, <1>3, <1>11, Zenon DEF T

\* The prefixes of a sequence, one element at a time.
LEMMA PrefixFacts ==
    ASSUME NEW S, NEW x \in Seq(S)
    PROVE  /\ SubSeq(x, 1, 0) = <<>> /\ SubSeq(x, 1, Len(x)) = x
           /\ \A n \in 1..Len(x) : Append(SubSeq(x, 1, n - 1), x[n]) = SubSeq(x, 1, n)
<1>1. SubSeq(x, 1, 0) = <<>> /\ SubSeq(x, 1, Len(x)) = x
  OBVIOUS
<1>2. ASSUME NEW n \in 1..Len(x)
      PROVE  Append(SubSeq(x, 1, n - 1), x[n]) = SubSeq(x, 1, n)
  <2> DEFINE y == SubSeq(x, 1, n - 1)
             z == SubSeq(x, 1, n)
             w == Append(y, x[n])
  <2>1. y \in Seq(S) /\ Len(y) = n - 1 /\ \A i \in 1..n - 1 : y[i] = x[i]
    OBVIOUS
  <2>2. z \in Seq(S) /\ Len(z) = n /\ \A i \in 1..n : z[i] = x[i]
    OBVIOUS
  <2> HIDE DEF y
  <2>3. w \in Seq(S) /\ Len(w) = n /\ \A i \in 1..n : w[i] = x[i]
    BY <2>1
  <2> HIDE DEF z, w
  <2>4. w \in Seq(S) /\ z \in Seq(S) /\ Len(w) = Len(z) /\ \A i \in 1..Len(w) : w[i] = z[i]
    BY <2>2, <2>3
  <2>5. w = z
    BY <2>4, SameSequence, Zenon
  <2>6. QED  BY <2>5, Zenon DEF w, y, z
<1>3. QED  BY <1>1, <1>2, Zenon

\* The lines of a part are collected when none of them delimits.
LEMMA RunsPlain ==
    ASSUME NEW S, NEW x \in Seq(S), NEW b, NEW ss,
           \A v \in Values(x) : v \notin Delimiting(b)
    PROVE  Runs(Sectioned(TRUE, FALSE, <<>>, ss), x, Sectioned(TRUE, FALSE, x, ss), b)
<1> DEFINE N == Len(x)
           u == [n \in 0..N |-> Sectioned(TRUE, FALSE, SubSeq(x, 1, n), ss)]
<1>1. /\ 0 \in 0..N /\ N \in 0..N
      /\ \A n \in 1..N : n \in 0..N /\ n - 1 \in 0..N /\ n \in DOMAIN x
  OBVIOUS
<1>2. /\ SubSeq(x, 1, 0) = <<>> /\ SubSeq(x, 1, N) = x
      /\ \A n \in 1..N : Append(SubSeq(x, 1, n - 1), x[n]) = SubSeq(x, 1, n)
  BY PrefixFacts, Zenon
<1>3. /\ u = [n \in 0..N |-> u[n]]
      /\ \A n \in 0..N : u[n] = Sectioned(TRUE, FALSE, SubSeq(x, 1, n), ss)
  BY Zenon
<1> HIDE DEF u
<1>4. u[0] = Sectioned(TRUE, FALSE, <<>>, ss) /\ u[N] = Sectioned(TRUE, FALSE, x, ss)
  BY <1>1, <1>2, <1>3, Zenon
<1>5. ASSUME NEW n \in 1..N PROVE u[n] = SectionLine(u[n - 1], x[n], b)
  <2>1. x[n] \notin Delimiting(b)
    BY <1>1, Zenon DEF Values
  <2>2. u[n - 1] = Sectioned(TRUE, FALSE, SubSeq(x, 1, n - 1), ss)
    BY <1>1, <1>3, Zenon
  <2>3. SectionLine(Sectioned(TRUE, FALSE, SubSeq(x, 1, n - 1), ss), x[n], b)
           = Sectioned(TRUE, FALSE, Append(SubSeq(x, 1, n - 1), x[n]), ss)
    BY <2>1, SectionPlain, Zenon
  <2>4. u[n] = Sectioned(TRUE, FALSE, SubSeq(x, 1, n), ss)
    BY <1>1, <1>3, Zenon
  <2>5. QED  BY <1>2, <2>2, <2>3, <2>4, Zenon
<1>6. SectionRun(u, Sectioned(TRUE, FALSE, <<>>, ss), x, b)
  BY <1>3, <1>4, <1>5, Zenon DEF SectionRun
<1>7. QED  BY <1>4, <1>6, Zenon DEF Runs

\* A marker and a part: the section before it is complete.
LEMMA RunsPart ==
    ASSUME NEW S, NEW x \in Seq(S), NEW b, Marker(b) \in S, NEW ss, NEW c,
           \A v \in Values(x) : v \notin Delimiting(b)
    PROVE  /\ Runs(Sectioned(TRUE, FALSE, c, ss), <<Marker(b)>> \o x,
                   Sectioned(TRUE, FALSE, x, Append(ss, c)), b)
           /\ Runs(Sectioned(FALSE, FALSE, c, ss), <<Marker(b)>> \o x,
                   Sectioned(TRUE, FALSE, x, ss), b)
<1>1. <<Marker(b)>> \in Seq(S)
  <2>1. \A l \in S : <<l>> \in Seq(S)
    OBVIOUS
  <2>2. QED  BY <2>1, Zenon
<1> DEFINE m == <<Marker(b)>>
           A == Sectioned(TRUE, FALSE, c, ss)
           B == Sectioned(TRUE, FALSE, <<>>, Append(ss, c))
           C == Sectioned(TRUE, FALSE, x, Append(ss, c))
           D == Sectioned(FALSE, FALSE, c, ss)
           E == Sectioned(TRUE, FALSE, <<>>, ss)
           G == Sectioned(TRUE, FALSE, x, ss)
<1>2. SectionLine(A, Marker(b), b) = B /\ SectionLine(D, Marker(b), b) = E
  BY SectionMarker, ZenonT(40)
<1>3. Runs(A, m, SectionLine(A, Marker(b), b), b) /\ Runs(D, m, SectionLine(D, Marker(b), b), b)
  BY RunsOne, Zenon
<1>4. Runs(A, m, B, b) /\ Runs(D, m, E, b)
  BY <1>2, <1>3, Zenon
<1>5. Runs(B, x, C, b) /\ Runs(E, x, G, b)
  BY RunsPlain, Zenon
<1> HIDE DEF m, A, B, C, D, E, G
<1>6. m \in Seq(S)
  BY <1>1, Zenon DEF m
<1>7. Runs(A, m \o x, C, b)
  BY <1>4, <1>5, <1>6, RunsJoin, Zenon
<1>8. Runs(D, m \o x, G, b)
  BY <1>4, <1>5, <1>6, RunsJoin, Zenon
<1>9. QED  BY <1>7, <1>8, Zenon DEF m, A, C, D, G

\* The loop over no line.
LEMMA RunsEmpty == ASSUME NEW a, NEW b PROVE Runs(a, <<>>, a, b)
<1> DEFINE w == [n \in 0..0 |-> a]
<1>1. Len(<<>>) = 0 /\ 1..0 = {} /\ 0 \in 0..0
  OBVIOUS
<1>2. w[0] = a /\ w = [n \in 0..0 |-> w[n]]
  BY <1>1, Zenon
<1> HIDE DEF w
<1>3. SectionRun(w, a, <<>>, b)
  BY <1>1, <1>2, Zenon DEF SectionRun
<1>4. QED  BY <1>1, <1>2, <1>3, Zenon DEF Runs

\* After n parts.
AfterParts(q, n) ==
    IF n = 0 THEN SectionStart ELSE Sectioned(TRUE, FALSE, q[n], SubSeq(q, 1, n - 1))

\* The loop over marked parts keeps each as a section, the last as current.
LEMMA RunsParts ==
    ASSUME NEW S, NEW q \in Seq(Seq(S)), NEW b, Marker(b) \in S,
           \A p \in DOMAIN q : \A v \in Values(q[p]) : v \notin Delimiting(b)
    PROVE  Runs(SectionStart, Concat([p \in DOMAIN q |-> <<Marker(b)>> \o q[p]]),
                AfterParts(q, Len(q)), b)
<1> DEFINE N == Len(q)
           z == [p \in DOMAIN q |-> <<Marker(b)>> \o q[p]]
<1>1. /\ N \in Nat /\ DOMAIN q = 1..N /\ 0 \in 0..N /\ N \in 0..N
      /\ \A n \in 1..N : n \in 0..N /\ n - 1 \in 0..N /\ q[n] \in Seq(S) /\ n # 0
      /\ \A n \in 1..N : n - 1 # 0 => n - 1 \in 1..N
      /\ \A n \in 1..N : n - 1 = 0 => n = 1
  OBVIOUS
<1>2. z \in Seq(Seq(S)) /\ Len(z) = N
  BY MarkedParts, Zenon
<1>3. \A n \in 1..N : z[n] = <<Marker(b)>> \o q[n]
  BY <1>1, Zenon
<1>4. /\ SubSeq(q, 1, 0) = <<>>
      /\ \A n \in 1..N : Append(SubSeq(q, 1, n - 1), q[n]) = SubSeq(q, 1, n)
  BY PrefixFacts, Zenon
<1> HIDE DEF z, N
<1>5. PICK u : Concats(u, z, S) /\ Concat(z) = u[N]
  BY <1>2, ConcatFacts, Zenon
<1>6. /\ u[0] = <<>> /\ \A n \in 0..N : u[n] \in Seq(S)
      /\ \A n \in 1..N : u[n] = u[n - 1] \o z[n]
  BY <1>2, <1>5, Zenon DEF Concats
<1> DEFINE T == {n \in 0..N : Runs(SectionStart, u[n], AfterParts(q, n), b)}
<1>7. 0 \in T
  <2>1. Runs(SectionStart, <<>>, SectionStart, b)
    BY RunsEmpty, Zenon
  <2>2. QED  BY <1>1, <1>6, <2>1, Zenon DEF AfterParts
<1>8. ASSUME NEW n \in 1..N, n - 1 \in T PROVE n \in T
  <2> DEFINE x == q[n]
             ss == SubSeq(q, 1, n - 1)
             y == u[n - 1]
             m == <<Marker(b)>> \o q[n]
             a == AfterParts(q, n - 1)
             c == AfterParts(q, n)
  <2>1. c = Sectioned(TRUE, FALSE, x, ss)
    BY <1>1, Zenon DEF AfterParts
  <2>2. Runs(SectionStart, y, a, b)
    BY <1>8, Zenon
  <2>3. Runs(a, m, c, b)
    <3>0. x \in Seq(S) /\ \A v \in Values(x) : v \notin Delimiting(b)
      BY <1>1, Zenon
    <3>1. CASE n - 1 = 0
      <4>1. a = Sectioned(FALSE, FALSE, <<>>, <<>>)
        BY <3>1, Zenon DEF AfterParts, SectionStart
      <4>2. ss = <<>>
        BY <1>4, <3>1, Zenon
      <4>3. Runs(Sectioned(FALSE, FALSE, <<>>, <<>>), m, Sectioned(TRUE, FALSE, x, <<>>), b)
        BY <3>0, RunsPart, Zenon
      <4>4. QED  BY <2>1, <4>1, <4>2, <4>3, Zenon
    <3>2. CASE n - 1 # 0
      <4> DEFINE k == q[n - 1]
                 rr == SubSeq(q, 1, (n - 1) - 1)
      <4>1. a = Sectioned(TRUE, FALSE, k, rr)
        BY <3>2, Zenon DEF AfterParts
      <4>2. ss = Append(rr, k)
        BY <1>1, <1>4, <3>2, Zenon
      <4> HIDE DEF k, rr
      <4>3. Runs(Sectioned(TRUE, FALSE, k, rr), m, Sectioned(TRUE, FALSE, x, Append(rr, k)), b)
        BY <3>0, RunsPart, Zenon
      <4>4. QED  BY <2>1, <4>1, <4>2, <4>3, Zenon
    <3>3. QED  BY <3>1, <3>2, Zenon
  <2>4. y \in Seq(S) /\ m \in Seq(S) /\ u[n] = y \o m
    <3>1. z[n] \in Seq(S) /\ z[n] = m
      <4>1. \A i \in 1..Len(z) : z[i] \in Seq(S)
        BY <1>2
      <4>2. QED  BY <1>2, <1>3, <4>1, Zenon
    <3>2. QED  BY <1>1, <1>6, <3>1, Zenon
  <2> HIDE DEF y, m, a, c
  <2>5. Runs(SectionStart, y \o m, c, b)
    BY <2>2, <2>3, <2>4, RunsJoin, Zenon
  <2>6. QED  BY <1>1, <2>4, <2>5, Zenon DEF c
<1> HIDE DEF T
<1>9. 0..N \subseteq T
  BY <1>1, <1>7, <1>8, IndexInduction, Zenon
<1>10. Runs(SectionStart, u[N], AfterParts(q, N), b)
  BY <1>1, <1>9, Zenon DEF T
<1>11. QED  BY <1>5, <1>10, Zenon DEF z, N

\* Two lines joined.
LEMMA TwoLines == ASSUME NEW k, NEW l PROVE <<k>> \o <<l>> = <<k, l>>
<1> DEFINE S == {k, l}
           x == <<k>>
           y == <<l>>
           w == <<k, l>>
           v == x \o y
<1>1. k \in S /\ l \in S
  BY Zenon
<1>2. x \in Seq(S) /\ Len(x) = 1 /\ x[1] = k
  <2> HIDE DEF S
  <2>1. QED  BY <1>1
<1>3. y \in Seq(S) /\ Len(y) = 1 /\ y[1] = l
  <2> HIDE DEF S
  <2>1. QED  BY <1>1
<1>4. w \in Seq(S) /\ Len(w) = 2 /\ w[1] = k /\ w[2] = l
  <2> HIDE DEF S
  <2>1. QED  BY <1>1
<1> HIDE DEF S, x, y, w
<1>5. v \in Seq(S) /\ Len(v) = 2 /\ v[1] = k /\ v[2] = l
  <2>0. x \in Seq(S) /\ y \in Seq(S) /\ Len(x) = 1 /\ Len(y) = 1
    BY <1>2, <1>3, Zenon
  <2>1. v \in Seq(S) /\ Len(v) = 2 /\ v[1] = x[1] /\ v[2] = y[1]
    <3>1. \A r, s \in Seq(S) : r \o s \in Seq(S) /\ Len(r \o s) = Len(r) + Len(s)
      OBVIOUS
    <3>2. \A r, s \in Seq(S) : \A i \in 1..Len(r) : (r \o s)[i] = r[i]
      OBVIOUS
    <3>3. \A r, s \in Seq(S) : \A i \in 1..Len(s) : (r \o s)[Len(r) + i] = s[i]
      OBVIOUS
    <3>4. 1 \in 1..1 /\ 1 + 1 = 2
      OBVIOUS
    <3>5. v \in Seq(S) /\ Len(v) = 1 + 1
      BY <2>0, <3>1, Zenon
    <3>6. v[1] = x[1]
      BY <2>0, <3>2, <3>4, Zenon
    <3>7. v[1 + 1] = y[1]
      <4>1. (x \o y)[Len(x) + 1] = y[1]
        <5>1. 1 \in 1..Len(y)
          BY <2>0, <3>4, Zenon
        <5>2. QED  BY <2>0, <3>3, <5>1, Zenon
      <4>2. QED  BY <2>0, <4>1, Zenon
    <3>8. QED  BY <3>4, <3>5, <3>6, <3>7, Zenon
  <2>2. QED  BY <1>2, <1>3, <2>1, Zenon
<1> HIDE DEF v
<1>6. Len(v) = Len(w) /\ \A i \in 1..Len(v) : v[i] = w[i]
  BY <1>4, <1>5
<1>7. v = w
  BY <1>4, <1>5, <1>6, SameSequence, Zenon
<1>8. QED  BY <1>7, Zenon DEF v, w, x, y

\* No line of the parts delimits.
ClearParts(q, b) == \A p \in DOMAIN q : \A v \in Values(q[p]) : v \notin Delimiting(b)

\* The sections of a framed message are its parts.
LEMMA FramedSections ==
    ASSUME NEW S, NEW q \in Seq(Seq(S)), q # <<>>, NEW b, FrameLines(b) \subseteq S,
           ClearParts(q, b)
    PROVE  multipart_sections(Concat([p \in DOMAIN q |-> <<Marker(b)>> \o q[p]])
                              \o <<Close(b), Blank>>, b)
               = Sectioned(TRUE, TRUE, <<>>, q)
<1> DEFINE N == Len(q)
           z == [p \in DOMAIN q |-> <<Marker(b)>> \o q[p]]
           c == Concat(z)
           A == AfterParts(q, N)
           E == Sectioned(TRUE, TRUE, <<>>, q)
           x == <<Close(b)>>
           y == <<Blank>>
<1>1. Marker(b) \in S /\ Close(b) \in S /\ Blank \in S
  BY Zenon DEF FrameLines
<1>2. N \in Nat /\ N # 0 /\ N \in 1..N
  OBVIOUS
<1>3. Runs(SectionStart, c, A, b)
  BY <1>1, RunsParts, Zenon DEF ClearParts
<1>4. z \in Seq(Seq(S))
  BY <1>1, MarkedParts, Zenon
<1>5. c \in Seq(S)
  <2> HIDE DEF z
  <2>1. QED  BY <1>4, ConcatTyped, Zenon
<1>6. A = Sectioned(TRUE, FALSE, q[N], SubSeq(q, 1, N - 1))
  BY <1>2, Zenon DEF AfterParts
<1>7. Append(SubSeq(q, 1, N - 1), q[N]) = q
  BY <1>2, PrefixFacts, Zenon
<1>8. SectionLine(A, Close(b), b) = E
  <2>1. SectionLine(Sectioned(TRUE, FALSE, q[N], SubSeq(q, 1, N - 1)), Close(b), b)
           = Sectioned(TRUE, TRUE, <<>>, Append(SubSeq(q, 1, N - 1), q[N]))
    BY SectionClose, Zenon
  <2>2. QED  BY <1>6, <1>7, <2>1, Zenon
<1>9. SectionLine(E, Blank, b) = E
  BY SectionClosed, Zenon
<1>10. Runs(A, x, E, b) /\ Runs(E, y, E, b)
  <2>1. Runs(A, x, SectionLine(A, Close(b), b), b) /\ Runs(E, y, SectionLine(E, Blank, b), b)
    BY RunsOne, Zenon
  <2>2. QED  BY <1>8, <1>9, <2>1, Zenon
<1>11. x \in Seq(S) /\ y \in Seq(S)
  <2>1. \A l \in S : <<l>> \in Seq(S)
    OBVIOUS
  <2>2. QED  BY <1>1, <2>1, Zenon
<1>12. x \o y = <<Close(b), Blank>>
  BY TwoLines, Zenon
<1> HIDE DEF c, A, E, x, y
<1>13. Runs(A, x \o y, E, b)
  BY <1>10, <1>11, RunsJoin, Zenon
<1>14. x \o y \in Seq(S)
  BY <1>11, JoinTyped, Zenon
<1>15. Runs(SectionStart, c \o (x \o y), E, b)
  BY <1>3, <1>5, <1>13, <1>14, RunsJoin, Zenon
<1>16. c \o (x \o y) \in Seq(S)
  BY <1>5, <1>14, JoinTyped, Zenon
<1>17. multipart_sections(c \o (x \o y), b) = E
  BY <1>15, <1>16, SectionsAre, Zenon
<1>18. QED  BY <1>12, <1>17, Zenon DEF c, E

(***************************************************************************)
(* multipart_sections of any text: sections are no longer than the text.   *)
(***************************************************************************)

\* The sequences of at most n elements.
Short(X, n) == {x \in Seq(X) : Len(x) <= n}

\* The state c has sections of at most n lines over X.
SectionsWithin(c, X, n) ==
    \E i, d \in BOOLEAN : \E x \in Short(X, n) : \E ss \in Seq(Short(X, n)) :
        c = Sectioned(i, d, x, ss)

\* Sequences of at most n elements.
LEMMA ShortFacts ==
    ASSUME NEW X, NEW n \in Nat
    PROVE  /\ <<>> \in Short(X, n) /\ Short(X, n) \subseteq Short(X, n + 1)
           /\ \A x \in Short(X, n) : \A l \in X : Append(x, l) \in Short(X, n + 1)
BY DEF Short

\* What a turn of the loop of multipart_sections can lead to.
LEMMA SectionOutcome ==
    ASSUME NEW i \in BOOLEAN, NEW d \in BOOLEAN, NEW x, NEW ss, NEW l, NEW b
    PROVE  SectionLine(Sectioned(i, d, x, ss), l, b) \in
               {Sectioned(i, d, x, ss), Sectioned(TRUE, FALSE, <<>>, ss),
                Sectioned(TRUE, FALSE, <<>>, Append(ss, x)), Sectioned(i, TRUE, <<>>, ss),
                Sectioned(i, TRUE, <<>>, Append(ss, x)),
                Sectioned(TRUE, FALSE, Append(x, l), ss)}
<1>1. CASE d
  BY <1>1, Zenon DEF SectionLine, Sectioned
<1>2. CASE ~d /\ l = Marker(b)
  BY <1>2, Zenon DEF SectionLine, Sectioned
<1>3. CASE ~d /\ l # Marker(b) /\ l = Close(b)
  BY <1>3, Zenon DEF SectionLine, Sectioned
<1>4. CASE ~d /\ l # Marker(b) /\ l # Close(b)
  BY <1>4, Zenon DEF SectionLine, Sectioned
<1>5. QED  BY <1>1, <1>2, <1>3, <1>4, Zenon

\* A turn makes no section longer than the lines read.
LEMMA SectionsWithinStep ==
    ASSUME NEW X, NEW n \in Nat, NEW c, SectionsWithin(c, X, n), NEW l \in X, NEW b
    PROVE  SectionsWithin(SectionLine(c, l, b), X, n + 1)
<1>1. PICK i \in BOOLEAN, d \in BOOLEAN, x \in Short(X, n), ss \in Seq(Short(X, n)) :
          c = Sectioned(i, d, x, ss)
  BY Zenon DEF SectionsWithin
<1> DEFINE Y == Short(X, n + 1)
<1>2. <<>> \in Y /\ x \in Y /\ Append(x, l) \in Y
  <2>1. n + 1 \in Nat
    OBVIOUS
  <2>2. QED  BY <2>1, ShortFacts, Zenon
<1>3. ss \in Seq(Y)
  <2>1. Short(X, n) \subseteq Y
    BY ShortFacts, Zenon
  <2> DEFINE Z == Short(X, n)
  <2>2. ss \in Seq(Z) /\ Z \subseteq Y
    BY <2>1, Zenon
  <2> HIDE DEF Y, Z
  <2>3. QED  BY <2>2, SeqOfMore, Zenon
<1>4. Append(ss, x) \in Seq(Y)
  <2> HIDE DEF Y
  <2>1. QED  BY <1>2, <1>3
<1>5. TRUE \in BOOLEAN /\ FALSE \in BOOLEAN
  OBVIOUS
<1> HIDE DEF Y
<1> DEFINE e == SectionLine(c, l, b)
<1>6. e \in {Sectioned(i, d, x, ss), Sectioned(TRUE, FALSE, <<>>, ss),
             Sectioned(TRUE, FALSE, <<>>, Append(ss, x)), Sectioned(i, TRUE, <<>>, ss),
             Sectioned(i, TRUE, <<>>, Append(ss, x)), Sectioned(TRUE, FALSE, Append(x, l), ss)}
  BY <1>1, SectionOutcome, Zenon
<1> HIDE DEF e
<1>7. \E j, k \in BOOLEAN : \E y \in Y : \E rr \in Seq(Y) : e = Sectioned(j, k, y, rr)
  <2>1. CASE e = Sectioned(i, d, x, ss)
    BY <1>2, <1>3, <2>1, Zenon
  <2>2. CASE e = Sectioned(TRUE, FALSE, <<>>, ss)
    BY <1>2, <1>3, <1>5, <2>2, Zenon
  <2>3. CASE e = Sectioned(TRUE, FALSE, <<>>, Append(ss, x))
    BY <1>2, <1>4, <1>5, <2>3, Zenon
  <2>4. CASE e = Sectioned(i, TRUE, <<>>, ss)
    BY <1>2, <1>3, <1>5, <2>4, Zenon
  <2>5. CASE e = Sectioned(i, TRUE, <<>>, Append(ss, x))
    BY <1>2, <1>4, <1>5, <2>5, Zenon
  <2>6. CASE e = Sectioned(TRUE, FALSE, Append(x, l), ss)
    BY <1>2, <1>3, <1>5, <2>6, Zenon
  <2>7. QED  BY <1>6, <2>1, <2>2, <2>3, <2>4, <2>5, <2>6, Zenon
<1>8. QED  BY <1>7, Zenon DEF SectionsWithin, Y, e

\* A prefix and the element after it.
LEMMA PrefixStep ==
    ASSUME NEW S, NEW x \in Seq(S), NEW n \in 1..Len(x)
    PROVE  /\ SubSeq(x, 1, n - 1) \in Seq(S) /\ x[n] \in S /\ <<x[n]>> \in Seq(S)
           /\ SubSeq(x, 1, n) = SubSeq(x, 1, n - 1) \o <<x[n]>>
<1>1. SubSeq(x, 1, n - 1) \in Seq(S) /\ x[n] \in S
  OBVIOUS
<1>2. \A y \in Seq(S) : \A l \in S : <<l>> \in Seq(S) /\ Append(y, l) = y \o <<l>>
  OBVIOUS
<1>3. QED  BY <1>1, <1>2, PrefixFacts, ZenonT(40)

\* No section is longer than the text it was cut from.
LEMMA SectionsOfText ==
    ASSUME NEW X, NEW x \in Seq(X), NEW b
    PROVE  multipart_sections(x, b).sections \in Seq(Short(X, Len(x)))
<1> DEFINE N == Len(x)
           T == {n \in 0..N : \E c : /\ Runs(SectionStart, SubSeq(x, 1, n), c, b)
                                     /\ SectionsWithin(c, X, n)}
<1>1. /\ N \in Nat /\ 0 \in 0..N /\ N \in 0..N /\ 0 \in Nat
      /\ \A n \in 1..N : n \in 0..N /\ n - 1 \in 0..N /\ n - 1 \in Nat /\ (n - 1) + 1 = n
  OBVIOUS
<1>2. SubSeq(x, 1, 0) = <<>> /\ SubSeq(x, 1, N) = x
  BY PrefixFacts, Zenon
<1> HIDE DEF N
<1>3. 0 \in T
  <2>1. Runs(SectionStart, <<>>, SectionStart, b)
    BY RunsEmpty, Zenon
  <2>2. FALSE \in BOOLEAN /\ <<>> \in Short(X, 0)
    BY <1>1, ShortFacts, Zenon
  <2>3. <<>> \in Seq(Short(X, 0))
    OBVIOUS
  <2>4. SectionsWithin(SectionStart, X, 0)
    BY <2>2, <2>3, Zenon DEF SectionsWithin, SectionStart
  <2>5. QED  BY <1>1, <1>2, <2>1, <2>4, Zenon
<1>4. ASSUME NEW n \in 1..N, n - 1 \in T PROVE n \in T
  <2>1. PICK c : Runs(SectionStart, SubSeq(x, 1, n - 1), c, b) /\ SectionsWithin(c, X, n - 1)
    BY <1>4, Zenon
  <2> DEFINE y == SubSeq(x, 1, n - 1)
             l == x[n]
             e == SectionLine(c, l, b)
  <2>2. /\ y \in Seq(X) /\ l \in X /\ <<l>> \in Seq(X)
        /\ SubSeq(x, 1, n) = y \o <<l>>
    BY PrefixStep, Zenon DEF N
  <2>3. Runs(SectionStart, y, c, b)
    BY <2>1, Zenon
  <2> HIDE DEF y, l
  <2>4. Runs(c, <<l>>, e, b)
    BY RunsOne, Zenon
  <2>5. SectionsWithin(e, X, (n - 1) + 1)
    BY <1>1, <2>1, <2>2, SectionsWithinStep, Zenon
  <2> HIDE DEF e
  <2>6. Runs(SectionStart, y \o <<l>>, e, b)
    BY <2>2, <2>3, <2>4, RunsJoin, Zenon
  <2>7. SectionsWithin(e, X, n)
    BY <1>1, <2>5, Zenon
  <2>8. QED  BY <1>1, <2>2, <2>6, <2>7, Zenon
<1> HIDE DEF T
<1>5. 0..N \subseteq T
  BY <1>1, <1>3, <1>4, IndexInduction, Zenon
<1>6. PICK c : Runs(SectionStart, x, c, b) /\ SectionsWithin(c, X, N)
  BY <1>1, <1>2, <1>5, Zenon DEF T
<1>7. multipart_sections(x, b) = c
  BY <1>6, SectionsAre, Zenon
<1>8. PICK i \in BOOLEAN, d \in BOOLEAN, y \in Short(X, N), ss \in Seq(Short(X, N)) :
          c = Sectioned(i, d, y, ss)
  BY <1>6, Zenon DEF SectionsWithin
<1>9. c.sections = ss
  BY <1>8, Zenon DEF Sectioned
<1>10. QED  BY <1>7, <1>8, <1>9, Zenon DEF N

(***************************************************************************)
(* parse_message_raw: the recursion of parse is on shorter texts.          *)
(***************************************************************************)

\* The headers of a text, and what follows them.
HeadOf(lines) == SubSeq(lines, 1, Least(Separators(lines)) - 1)

TextOf(lines) == From(lines, Least(Separators(lines)) + 1)

\* The two headers that parse reads.
TypeOf(lines) == header_value(HeadOf(lines), "Content-Type", TypeLine("text", NoBoundary))

EncodingOf(lines) ==
    header_value(HeadOf(lines), "Content-Transfer-Encoding", EncodingLine("7bit"))

\* The sections of the body.
Found(lines) == multipart_sections(TextOf(lines), TypeOf(lines)[3])

\* The parts, parsed by f.
PartsBy(f, lines) ==
    [i \in DOMAIN Found(lines).sections |-> f[trim_part_section(Found(lines).sections[i])]]

\* One level of parse_message_raw, with f for the recursive call.
ParseBody(f, lines) ==
    IF Separators(lines) = {} THEN Malformed
    ELSE IF \E i \in DOMAIN HeadOf(lines) : HeadOf(lines)[i][1] \notin Headers THEN Malformed
    ELSE IF TypeOf(lines)[2] # "multipart"
    THEN Parsed(TRUE, decode_body(TextOf(lines), EncodingOf(lines)[2]), <<>>)
    ELSE IF TypeOf(lines)[3] = NoBoundary \/ ~Found(lines).closed THEN Malformed
    ELSE IF \E i \in DOMAIN PartsBy(f, lines) : ~PartsBy(f, lines)[i].ok THEN Malformed
    ELSE Parsed(TRUE, <<>>, PartsBy(f, lines))

\* f parses the texts over M.
Parses(f, M) == f = [lines \in Seq(M) |-> ParseBody(f, lines)]

\* parse_message_raw is a function that ParseBody defines from itself.
LEMMA ParseIs ==
    ASSUME NEW message
    PROVE  parse_message_raw(message)
             = (CHOOSE f : f = [lines \in Seq(Values(message) \cup {Blank}) |->
                                   ParseBody(f, lines)])[message]
BY Zenon DEF parse_message_raw, Values, ParseBody, PartsBy, Found, EncodingOf, TypeOf,
   TextOf, HeadOf

\* The first blank line that ends the headers.
LEMMA SeparatorFacts ==
    ASSUME NEW M, NEW lines \in Seq(M), Separators(lines) # {}
    PROVE  /\ Least(Separators(lines)) \in 2..Len(lines) - 1
           /\ Least(Separators(lines)) \in Separators(lines)
           /\ \A i \in Separators(lines) : Least(Separators(lines)) <= i
<1> DEFINE T == Separators(lines)
           m == Least(T)
<1>1. T \in SUBSET Nat /\ T # {} /\ T \subseteq 2..Len(lines) - 1
  <2>1. Len(lines) \in Nat
    OBVIOUS
  <2>2. T \subseteq 2..Len(lines) - 1
    BY Zenon DEF Separators
  <2>3. 2..Len(lines) - 1 \subseteq Nat
    BY <2>1
  <2>4. QED  BY <2>2, <2>3, Zenon
<1> HIDE DEF T
<1>2. \E i \in T : \A j \in T : i <= j
  BY <1>1, LeastNumber, Zenon
<1>3. m \in T /\ \A j \in T : m <= j
  BY <1>2, Zenon DEF Least
<1>4. QED  BY <1>1, <1>3, Zenon DEF T

\* A part has fewer lines than the message: the recursion of parse ends.
LEMMA SectionsShorter ==
    ASSUME NEW M, Blank \in M, NEW lines \in Seq(M), Separators(lines) # {},
           NEW i \in DOMAIN Found(lines).sections
    PROVE  /\ trim_part_section(Found(lines).sections[i]) \in Seq(M)
           /\ Len(trim_part_section(Found(lines).sections[i])) < Len(lines)
<1> DEFINE m == Least(Separators(lines))
           x == TextOf(lines)
           ss == Found(lines).sections
           y == ss[i]
<1>1. m \in 2..Len(lines) - 1
  BY SeparatorFacts, Zenon
<1>2. x \in Seq(M) /\ Len(x) < Len(lines) /\ Len(lines) > 1 /\ Len(x) \in Nat
  <2>1. x = SubSeq(lines, m + 1, Len(lines))
    BY Zenon DEF TextOf, From
  <2> HIDE DEF m, x
  <2>2. QED  BY <1>1, <2>1
<1>3. ss \in Seq(Short(M, Len(x)))
  <2>1. ss = multipart_sections(x, TypeOf(lines)[3]).sections
    BY Zenon DEF Found
  <2>2. QED  BY <1>2, <2>1, SectionsOfText, Zenon
<1>4. y \in Short(M, Len(x))
  <2> DEFINE Y == Short(M, Len(x))
  <2>1. ss \in Seq(Y) /\ i \in DOMAIN ss
    BY <1>3, Zenon
  <2> HIDE DEF Y, ss
  <2>2. ss[i] \in Y
    BY <2>1
  <2>3. QED  BY <2>2, Zenon DEF Y
<1>5. y \in Seq(M) /\ Len(y) <= Len(x)
  BY <1>4, Zenon DEF Short
<1> HIDE DEF x, y
<1>6. Len(y) < Len(lines)
  <2>1. Len(y) \in Nat /\ Len(lines) \in Nat
    BY <1>5
  <2>2. QED  BY <1>2, <1>5, <2>1
<1>7. <<Blank>> \in Seq(M) /\ Len(<<Blank>>) < Len(lines)
  <2>1. \A l \in M : <<l>> \in Seq(M) /\ Len(<<l>>) = 1
    OBVIOUS
  <2>2. <<Blank>> \in Seq(M) /\ Len(<<Blank>>) = 1
    BY <2>1, Zenon
  <2>3. 1 < Len(lines)
    BY <1>2
  <2>4. QED  BY <2>2, <2>3, Zenon
<1>8. QED  BY <1>5, <1>6, <1>7, Zenon DEF trim_part_section, y

\* f and g agree on the texts shorter than n lines.
Agree(f, g, M, n) == \A y \in Seq(M) : Len(y) < n => f[y] = g[y]

\* Parsing depends on how shorter texts are parsed, and on nothing else.
LEMMA ParseDepends ==
    ASSUME NEW M, Blank \in M, NEW lines \in Seq(M), NEW f, NEW g,
           Agree(f, g, M, Len(lines))
    PROVE  ParseBody(f, lines) = ParseBody(g, lines)
<1>1. CASE Separators(lines) = {}
  BY <1>1, Zenon DEF ParseBody
<1>2. CASE Separators(lines) # {}
  <2>1. \A i \in DOMAIN Found(lines).sections :
            f[trim_part_section(Found(lines).sections[i])]
                = g[trim_part_section(Found(lines).sections[i])]
    BY <1>2, SectionsShorter, Zenon DEF Agree
  <2>2. PartsBy(f, lines) = PartsBy(g, lines)
    BY <2>1, Zenon DEF PartsBy
  <2>3. QED  BY <2>2, Zenon DEF ParseBody
<1>3. QED  BY <1>1, <1>2, Zenon

\* The texts with fewer than n lines.
ShorterThan(M, n) == {x \in Seq(M) : Len(x) < n}

\* f parses the texts with fewer than n lines.
ParsesShort(f, M, n) == f = [lines \in ShorterThan(M, n) |-> ParseBody(f, lines)]

\* The texts with fewer than N lines can be parsed.
LEMMA ParsesShortExists ==
    ASSUME NEW M, Blank \in M, NEW N \in Nat PROVE \E f : ParsesShort(f, M, N)
<1> DEFINE T == {n \in 0..N : \E f : ParsesShort(f, M, n)}
<1>1. 0 \in 0..N /\ N \in 0..N /\ \A n \in 1..N : n \in 0..N
  OBVIOUS
<1>2. 0 \in T
  <2>1. ShorterThan(M, 0) = {}
    BY DEF ShorterThan
  <2> DEFINE f == [x \in {} |-> 0]
  <2>2. f = [x \in {} |-> ParseBody(f, x)]
    BY Zenon
  <2>3. ParsesShort(f, M, 0)
    BY <2>1, <2>2, Zenon DEF ParsesShort
  <2>4. QED  BY <1>1, <2>3, Zenon
<1>3. ASSUME NEW n \in 1..N, n - 1 \in T PROVE n \in T
  <2>1. PICK f : ParsesShort(f, M, n - 1)
    BY <1>3, Zenon
  <2> DEFINE g == [x \in ShorterThan(M, n) |-> ParseBody(f, x)]
  <2>2. \A x \in ShorterThan(M, n) : g[x] = ParseBody(f, x)
    BY Zenon
  <2>3. \A x \in ShorterThan(M, n - 1) : f[x] = ParseBody(f, x)
    BY <2>1, Zenon DEF ParsesShort
  <2>4. g = [x \in ShorterThan(M, n) |-> g[x]]
    BY Zenon
  <2> HIDE DEF g
  <2>5. ASSUME NEW x \in ShorterThan(M, n) PROVE g[x] = ParseBody(g, x)
    <3>1. x \in Seq(M) /\ Len(x) < n
      BY Zenon DEF ShorterThan
    <3>2. ASSUME NEW y \in Seq(M), Len(y) < Len(x) PROVE f[y] = g[y]
      <4>1. Len(y) < n - 1 /\ Len(y) < n
        <5>1. Len(x) \in Nat /\ Len(y) \in Nat
          BY <3>1
        <5>2. QED  BY <3>1, <3>2, <5>1
      <4>2. y \in ShorterThan(M, n - 1) /\ y \in ShorterThan(M, n)
        BY <4>1, Zenon DEF ShorterThan
      <4>3. QED  BY <2>2, <2>3, <4>2, Zenon
    <3>3. ParseBody(f, x) = ParseBody(g, x)
      <4>1. Agree(f, g, M, Len(x))
        BY <3>2, Zenon DEF Agree
      <4>2. QED  BY <3>1, <4>1, ParseDepends, Zenon
    <3>4. QED  BY <2>2, <3>3, Zenon
  <2>6. ParsesShort(g, M, n)
    BY <2>4, <2>5, Zenon DEF ParsesShort
  <2>7. QED  BY <1>1, <2>6, Zenon
<1> HIDE DEF T
<1>4. 0..N \subseteq T
  BY <1>2, <1>3, IndexInduction, Zenon
<1>5. QED  BY <1>1, <1>4, Zenon DEF T

\* f and h agree on the texts with fewer than n and fewer than m lines.
AgreeShort(f, h, M, n, m) == \A x \in Seq(M) : Len(x) < n /\ Len(x) < m => f[x] = h[x]

\* Parsing short texts leaves no choice.
LEMMA ParsesShortUnique ==
    ASSUME NEW M, Blank \in M, NEW n \in Nat, NEW f, ParsesShort(f, M, n),
           NEW m \in Nat, NEW h, ParsesShort(h, M, m)
    PROVE  AgreeShort(f, h, M, n, m)
<1> DEFINE D == Seq(M)
           rank == [x \in D |-> Len(x)]
           T == {x \in D : Len(x) < n /\ Len(x) < m => f[x] = h[x]}
<1>1. /\ \A x \in ShorterThan(M, n) : f[x] = ParseBody(f, x)
      /\ \A x \in ShorterThan(M, m) : h[x] = ParseBody(h, x)
  BY Zenon DEF ParsesShort
<1>2. rank \in [D -> Nat]
  <2>1. \A x \in D : Len(x) \in Nat
    OBVIOUS
  <2>2. QED  BY <2>1, Zenon
<1>3. \A x \in D : rank[x] = Len(x)
  BY Zenon
<1> HIDE DEF rank
<1>4. ASSUME NEW x \in D, Below(D, rank, rank[x]) \subseteq T PROVE x \in T
  <2>1. SUFFICES ASSUME Len(x) < n, Len(x) < m PROVE f[x] = h[x]
    BY Zenon
  <2>2. ASSUME NEW y \in D, Len(y) < Len(x) PROVE f[y] = h[y]
    <3>1. Len(y) < n /\ Len(y) < m
      <4>1. Len(x) \in Nat /\ Len(y) \in Nat
        OBVIOUS
      <4>2. QED  BY <2>1, <2>2, <4>1
    <3>2. y \in Below(D, rank, rank[x])
      BY <1>3, <2>2, Zenon DEF Below
    <3>3. QED  BY <1>4, <3>1, <3>2, Zenon
  <2>3. ParseBody(f, x) = ParseBody(h, x)
    <3>1. Agree(f, h, M, Len(x))
      BY <2>2, Zenon DEF Agree
    <3>2. QED  BY <3>1, ParseDepends, Zenon
  <2>4. x \in ShorterThan(M, n) /\ x \in ShorterThan(M, m)
    BY <2>1, Zenon DEF ShorterThan
  <2>5. QED  BY <1>1, <2>3, <2>4, Zenon
<1> HIDE DEF T, D
<1>5. D \subseteq T
  BY <1>2, <1>4, RankInduction, Zenon
<1>6. QED  BY <1>5, Zenon DEF T, D, AgreeShort

\* All texts can be parsed.
LEMMA ParsesExists ==
    ASSUME NEW M, Blank \in M PROVE \E f : Parses(f, M)
<1> DEFINE P(n) == CHOOSE f : ParsesShort(f, M, n)
           F == [x \in Seq(M) |-> P(Len(x) + 1)[x]]
<1>1. \A n \in Nat : ParsesShort(P(n), M, n)
  BY ParsesShortExists, Zenon
<1> HIDE DEF P
<1>2. \A x \in Seq(M) : F[x] = P(Len(x) + 1)[x]
  BY Zenon
<1>3. F = [x \in Seq(M) |-> F[x]]
  BY Zenon
<1> HIDE DEF F
<1>4. ASSUME NEW x \in Seq(M) PROVE F[x] = ParseBody(F, x)
  <2> DEFINE n == Len(x) + 1
  <2>1. n \in Nat /\ Len(x) < n
    OBVIOUS
  <2>2. ParsesShort(P(n), M, n)
    BY <1>1, <2>1, Zenon
  <2>3. x \in ShorterThan(M, n)
    BY <2>1, Zenon DEF ShorterThan
  <2>4. P(n)[x] = ParseBody(P(n), x)
    BY <2>2, <2>3, Zenon DEF ParsesShort
  <2>5. ASSUME NEW y \in Seq(M), Len(y) < Len(x) PROVE P(n)[y] = F[y]
    <3> DEFINE m == Len(y) + 1
    <3>1. m \in Nat /\ Len(y) < m /\ Len(y) < n
      BY <2>5
    <3>2. ParsesShort(P(m), M, m)
      BY <1>1, <3>1, Zenon
    <3> HIDE DEF n, m
    <3>3. P(n)[y] = P(m)[y]
      <4> DEFINE p == P(n)
                 q == P(m)
      <4>1. ParsesShort(p, M, n) /\ ParsesShort(q, M, m)
        BY <2>2, <3>2, Zenon
      <4> HIDE DEF p, q
      <4>2. AgreeShort(p, q, M, n, m)
        BY <2>1, <3>1, <4>1, ParsesShortUnique, Zenon
      <4>3. QED  BY <3>1, <4>2, Zenon DEF p, q, AgreeShort
    <3>4. QED  BY <1>2, <3>3, Zenon DEF m
  <2> HIDE DEF n
  <2>6. ParseBody(P(n), x) = ParseBody(F, x)
    <3> DEFINE p == P(n)
    <3>1. Agree(p, F, M, Len(x))
      BY <2>5, Zenon DEF Agree
    <3> HIDE DEF p
    <3>2. ParseBody(p, x) = ParseBody(F, x)
      BY <3>1, ParseDepends, Zenon
    <3>3. QED  BY <3>2, Zenon DEF p
  <2>7. QED  BY <1>2, <2>4, <2>6, Zenon DEF n
<1>5. Parses(F, M)
  BY <1>3, <1>4, Zenon DEF Parses
<1>6. QED  BY <1>5, Zenon

\* parse_message_raw is a function that Parses describes.
LEMMA ParseFacts ==
    ASSUME NEW message, NEW S, message \in Seq(S)
    PROVE  \E f : /\ Parses(f, Values(message) \cup {Blank})
                  /\ parse_message_raw(message) = f[message]
<1> DEFINE M == Values(message) \cup {Blank}
           F == CHOOSE f : Parses(f, M)
<1>1. Blank \in M
  BY Zenon
<1>2. parse_message_raw(message) = F[message]
  BY ParseIs, Zenon DEF Parses
<1> HIDE DEF M
<1>3. Parses(F, M)
  BY <1>1, ParsesExists, Zenon
<1>4. QED  BY <1>2, <1>3, Zenon DEF M

(***************************************************************************)
(* What parse makes of the lines of a leaf and of a multipart message.     *)
(***************************************************************************)

\* The header name stands at j and nowhere else.
OnlyAt(hs, name, j) == j \in Nat /\ {i \in DOMAIN hs : hs[i][1] = name} = {j}

\* header_value finds the only header of a name.
LEMMA HeaderAt ==
    ASSUME NEW hs, NEW name, NEW default, NEW j, OnlyAt(hs, name, j)
    PROVE  header_value(hs, name, default) = hs[j]
<1> DEFINE at == {i \in DOMAIN hs : hs[i][1] = name}
           c == CHOOSE i \in at : \A k \in at : k <= i
<1>1. at = {j} /\ j <= j
  <2>1. \A n \in Nat : n <= n
    OBVIOUS
  <2>2. at = {j} /\ j \in Nat
    BY Zenon DEF OnlyAt
  <2>3. QED  BY <2>1, <2>2, Zenon
<1>2. header_value(hs, name, default) = IF at = {} THEN default ELSE hs[c]
  BY Zenon DEF header_value
<1> HIDE DEF at
<1>3. c \in at
  BY <1>1, Zenon
<1> HIDE DEF c
<1>4. c = j /\ at # {}
  BY <1>1, <1>3
<1>5. QED  BY <1>2, <1>4, Zenon

\* l has two lines before r.
HeadedByTwo(l, S, a, c, r) ==
    /\ l \in Seq(S) /\ Len(l) = Len(r) + 2 /\ l[1] = a /\ l[2] = c
    /\ SubSeq(l, 1, 1) = <<a>> /\ SubSeq(l, 3, Len(l)) = r

\* A sequence with two lines before it.
LEMMA AfterTwo ==
    ASSUME NEW S, NEW a \in S, NEW c \in S, NEW r \in Seq(S)
    PROVE  HeadedByTwo(<<a, c>> \o r, S, a, c, r)
<1> DEFINE h == <<a, c>>
           x == h \o r
           y == SubSeq(x, 1, 1)
           z == SubSeq(x, 3, Len(x))
           o == <<a>>
<1>1. h \in Seq(S) /\ Len(h) = 2 /\ h[1] = a /\ h[2] = c
  OBVIOUS
<1> HIDE DEF h
<1>2. x \in Seq(S) /\ Len(x) = Len(r) + 2 /\ x[1] = a /\ x[2] = c
      /\ \A i \in 1..Len(r) : x[i + 2] = r[i]
  <2>1. /\ x \in Seq(S) /\ Len(x) = Len(h) + Len(r)
        /\ \A i \in 1..Len(h) : x[i] = h[i]
        /\ \A i \in 1..Len(r) : x[Len(h) + i] = r[i]
    <3>1. h \in Seq(S)
      BY <1>1, Zenon
    <3>2. QED  BY <3>1
  <2> HIDE DEF x
  <2>2. QED  BY <1>1, <2>1
<1>0. o \in Seq(S) /\ Len(o) = 1 /\ o[1] = a
  OBVIOUS
<1> HIDE DEF x, o
<1>3. y \in Seq(S) /\ Len(y) = 1 /\ y[1] = a
  BY <1>2
<1>4. z \in Seq(S) /\ Len(z) = Len(r) /\ \A i \in 1..Len(r) : z[i] = r[i]
  BY <1>2
<1> HIDE DEF y, z
<1>5. z = r
  BY <1>4
<1>6. y = o
  BY <1>0, <1>3
<1>7. QED  BY <1>2, <1>5, <1>6, Zenon DEF HeadedByTwo, h, x, y, z, o

\* l has three lines before r.
HeadedByThree(l, S, a, e, c, r) ==
    /\ l \in Seq(S) /\ Len(l) = Len(r) + 3 /\ l[1] = a /\ l[2] = e /\ l[3] = c
    /\ SubSeq(l, 1, 2) = <<a, e>> /\ SubSeq(l, 4, Len(l)) = r

\* A sequence with three lines before it.
LEMMA AfterThree ==
    ASSUME NEW S, NEW a \in S, NEW e \in S, NEW c \in S, NEW r \in Seq(S)
    PROVE  HeadedByThree(<<a, e, c>> \o r, S, a, e, c, r)
<1> DEFINE h == <<a, e, c>>
           x == h \o r
           y == SubSeq(x, 1, 2)
           z == SubSeq(x, 4, Len(x))
           o == <<a, e>>
<1>1. h \in Seq(S) /\ Len(h) = 3 /\ h[1] = a /\ h[2] = e /\ h[3] = c
  OBVIOUS
<1> HIDE DEF h
<1>2. x \in Seq(S) /\ Len(x) = Len(r) + 3 /\ x[1] = a /\ x[2] = e /\ x[3] = c
      /\ \A i \in 1..Len(r) : x[i + 3] = r[i]
  <2>1. /\ x \in Seq(S) /\ Len(x) = Len(h) + Len(r)
        /\ \A i \in 1..Len(h) : x[i] = h[i]
        /\ \A i \in 1..Len(r) : x[Len(h) + i] = r[i]
    <3>1. h \in Seq(S)
      BY <1>1, Zenon
    <3>2. QED  BY <3>1
  <2> HIDE DEF x
  <2>2. QED  BY <1>1, <2>1
<1>0. o \in Seq(S) /\ Len(o) = 2 /\ o[1] = a /\ o[2] = e
  OBVIOUS
<1> HIDE DEF x, o
<1>3. y \in Seq(S) /\ Len(y) = 2 /\ y[1] = a /\ y[2] = e
  BY <1>2
<1>4. z \in Seq(S) /\ Len(z) = Len(r) /\ \A i \in 1..Len(r) : z[i] = r[i]
  BY <1>2
<1> HIDE DEF y, z
<1>5. z = r
  BY <1>4
<1>6. y = o
  BY <1>0, <1>3
<1>7. QED  BY <1>2, <1>5, <1>6, Zenon DEF HeadedByThree, h, x, y, z, o

\* m is the least member of T.
IsLeast(T, m) == m \in T /\ T \subseteq Nat /\ \A k \in T : m <= k

\* Least is the least member, when there is one.
LEMMA LeastMember ==
    ASSUME NEW T, NEW m, IsLeast(T, m) PROVE Least(T) = m
<1> DEFINE n == Least(T)
<1>1. m \in T /\ T \subseteq Nat /\ \A k \in T : m <= k
  BY Zenon DEF IsLeast
<1>2. n \in T /\ \A k \in T : n <= k
  BY <1>1, Zenon DEF Least
<1> HIDE DEF n
<1>3. m \in Nat /\ n \in Nat /\ n <= m /\ m <= n
  BY <1>1, <1>2, Zenon
<1>4. n = m
  BY <1>3
<1>5. QED  BY <1>4, Zenon DEF n

\* A leaf of type x and encoding e whose rendered body is r, over the lines S.
SimpleLines(S, x, b, e, r) ==
    /\ x # "multipart" /\ r \in Seq(S) /\ r # <<>>
    /\ TypeLine(x, b) \in S /\ EncodingLine(e) \in S /\ Blank \in S

\* A leaf with these headers and the body r parses to its decoded body.
Decodes(f, x, b, e, r) ==
    ParseBody(f, <<TypeLine(x, b), EncodingLine(e), Blank>> \o r)
        = Parsed(TRUE, decode_body(r, e), <<>>)

\* parse of a text with two header lines: the body is decoded.
LEMMA ParseSimple ==
    ASSUME NEW S, NEW f, NEW x, NEW e, NEW b, NEW r, SimpleLines(S, x, b, e, r)
    PROVE  Decodes(f, x, b, e, r)
<1> DEFINE A == TypeLine(x, b)
           E == EncodingLine(e)
           l == <<A, E, Blank>> \o r
           hs == <<A, E>>
<1>0. /\ x # "multipart" /\ r \in Seq(S) /\ r # <<>> /\ A \in S /\ E \in S /\ Blank \in S
  BY Zenon DEF SimpleLines
<1>1. /\ l \in Seq(S) /\ Len(l) = Len(r) + 3 /\ l[2] = E /\ l[3] = Blank
      /\ SubSeq(l, 1, 2) = hs /\ SubSeq(l, 4, Len(l)) = r
  <2> DEFINE c == Blank
  <2>1. A \in S /\ E \in S /\ c \in S /\ r \in Seq(S)
    BY <1>0, Zenon
  <2> HIDE DEF A, E, c
  <2>2. HeadedByThree(<<A, E, c>> \o r, S, A, E, c, r)
    BY <2>1, AfterThree, Zenon
  <2>3. HeadedByThree(l, S, A, E, Blank, r)
    BY <2>2, Zenon DEF c
  <2> HIDE DEF l
  <2>4. QED  BY <2>3, Zenon DEF HeadedByThree
<1>2. A[1] = "Content-Type" /\ A[2] = x /\ E[1] = "Content-Transfer-Encoding" /\ E[2] = e
  <2>1. A[1] = "Content-Type" /\ A[2] = x
    BY TypeLineFacts, Zenon
  <2>2. E[1] = "Content-Transfer-Encoding" /\ E[2] = e
    BY EncodingLineFacts, Zenon
  <2>3. QED  BY <2>1, <2>2, Zenon
<1>3. E # Blank
  <2>1. "text" # "Content-Transfer-Encoding"
    OBVIOUS
  <2>2. QED  BY <1>2, <2>1, BlankFacts, Zenon
<1> HIDE DEF A, E
<1>4. DOMAIN hs = {1, 2} /\ hs[1] = A /\ hs[2] = E
  <2>1. Len(hs) = 2 /\ DOMAIN hs = 1..2 /\ 1..2 = {1, 2}
    OBVIOUS
  <2>2. QED  BY <2>1
<1> HIDE DEF hs, l
<1>5. 3 \in Separators(l) /\ Separators(l) \subseteq Nat /\ \A i \in Separators(l) : 3 <= i
  <2>1. Len(r) \in Nat /\ Len(r) # 0
    BY <1>0
  <2>2. 3 \in 2..Len(l) - 1 /\ 2..Len(l) - 1 \subseteq Nat
        /\ \A i \in 2..Len(l) - 1 : i # 2 => 3 <= i
    BY <1>1, <2>1
  <2>3. QED  BY <1>1, <1>3, <2>2, Zenon DEF Separators
<1>6. Least(Separators(l)) = 3
  <2>1. IsLeast(Separators(l), 3)
    BY <1>5, Zenon DEF IsLeast
  <2>2. QED  BY <2>1, LeastMember, Zenon
<1>7. HeadOf(l) = hs /\ TextOf(l) = r
  <2>1. 3 - 1 = 2 /\ 3 + 1 = 4
    OBVIOUS
  <2>2. QED  BY <1>1, <1>6, <2>1, Zenon DEF HeadOf, TextOf, From
<1>8. "Content-Type" # "Content-Transfer-Encoding" /\ 1 # 2 /\ 1 \in Nat /\ 2 \in Nat
  OBVIOUS
<1>9. TypeOf(l) = A
  <2>1. {i \in DOMAIN hs : hs[i][1] = "Content-Type"} = {1}
    BY <1>2, <1>4, <1>8, Zenon
  <2>2. OnlyAt(hs, "Content-Type", 1)
    BY <1>8, <2>1, Zenon DEF OnlyAt
  <2>3. header_value(hs, "Content-Type", TypeLine("text", NoBoundary)) = hs[1]
    BY <2>2, HeaderAt, Zenon
  <2>4. QED  BY <1>4, <1>7, <2>3, Zenon DEF TypeOf
<1>10. EncodingOf(l) = E
  <2>1. {i \in DOMAIN hs : hs[i][1] = "Content-Transfer-Encoding"} = {2}
    BY <1>2, <1>4, <1>8, Zenon
  <2>2. OnlyAt(hs, "Content-Transfer-Encoding", 2)
    BY <1>8, <2>1, Zenon DEF OnlyAt
  <2>3. header_value(hs, "Content-Transfer-Encoding", EncodingLine("7bit")) = hs[2]
    BY <2>2, HeaderAt, Zenon
  <2>4. QED  BY <1>4, <1>7, <2>3, Zenon DEF EncodingOf
<1>11. \A i \in DOMAIN hs : hs[i][1] \in Headers
  BY <1>2, <1>4, Zenon DEF Headers
<1>12. Separators(l) # {}
  BY <1>5, Zenon
<1>13. ParseBody(f, l) = Parsed(TRUE, decode_body(r, e), <<>>)
  BY <1>0, <1>2, <1>7, <1>9, <1>10, <1>11, <1>12, Zenon DEF ParseBody
<1>14. QED  BY <1>13, Zenon DEF Decodes, l, A, E

\* f parses every part.
PartsOk(f, q) == \A p \in DOMAIN q : q[p] # <<>> /\ f[q[p]].ok

\* The parts q can be framed by b and cut apart again.
FramedParts(S, f, q, b) ==
    /\ q \in Seq(Seq(S)) /\ q # <<>> /\ FrameLines(b) \subseteq S /\ b # NoBoundary
    /\ PartsOk(f, q) /\ ClearParts(q, b)

\* parse of a framed message: what the parts parse to.
LEMMA ParseFramed ==
    ASSUME NEW S, NEW f, NEW q, NEW b, FramedParts(S, f, q, b)
    PROVE  ParseBody(f, Framed(b, q)) = Parsed(TRUE, <<>>, [p \in DOMAIN q |-> f[q[p]]])
<1> DEFINE A == TypeLine("multipart", b)
           z == [p \in DOMAIN q |-> <<Marker(b)>> \o q[p]]
           r == Concat(z) \o <<Close(b), Blank>>
           hs == <<A>>
           l == <<A, Blank>> \o r
<1>a. /\ q \in Seq(Seq(S)) /\ q # <<>> /\ FrameLines(b) \subseteq S /\ b # NoBoundary
      /\ PartsOk(f, q) /\ ClearParts(q, b)
  BY Zenon DEF FramedParts
<1>0. A \in S /\ Blank \in S /\ Marker(b) \in S /\ Close(b) \in S
  BY <1>a, Zenon DEF FrameLines
<1>1. r \in Seq(S) /\ Len(r) > 1
  <2>1. z \in Seq(Seq(S))
    BY <1>a, <1>0, MarkedParts, Zenon
  <2> HIDE DEF z
  <2>2. Concat(z) \in Seq(S)
    BY <2>1, ConcatTyped, Zenon
  <2> DEFINE k == Concat(z)
             c == Close(b)
             d == Blank
  <2>3. k \in Seq(S) /\ c \in S /\ d \in S
    BY <1>0, <2>2, Zenon
  <2> HIDE DEF k, c, d
  <2>4. k \o <<c, d>> \in Seq(S) /\ Len(k \o <<c, d>>) > 1
    BY <2>3
  <2>5. QED  BY <2>4, Zenon DEF k, c, d
<1>2. Framed(b, q) = l
  <2> DEFINE h == <<A, Blank>>
             k == Concat(z)
             w == <<Close(b), Blank>>
  <2>1. Framed(b, q) = h \o k \o w
    BY Zenon DEF Framed
  <2>2. h \in Seq(S) /\ k \in Seq(S) /\ w \in Seq(S)
    <3>1. \A m, n \in S : <<m, n>> \in Seq(S)
      OBVIOUS
    <3>2. z \in Seq(Seq(S))
      BY <1>a, <1>0, MarkedParts, Zenon
    <3>3. k \in Seq(S)
      <4> HIDE DEF z
      <4>1. QED  BY <3>2, ConcatTyped, Zenon
    <3>4. QED  BY <1>0, <3>1, <3>3, Zenon
  <2> HIDE DEF h, k, w
  <2>3. h \o k \o w = h \o (k \o w)
    BY <2>2
  <2>4. QED  BY <2>1, <2>3, Zenon DEF h, k, w
<1>3. multipart_sections(r, b) = Sectioned(TRUE, TRUE, <<>>, q)
  BY <1>a, FramedSections, Zenon
<1>4. A[1] = "Content-Type" /\ A[2] = "multipart" /\ A[3] = b
  <2>1. \A x : /\ TypeLine(x, b)[1] = "Content-Type" /\ TypeLine(x, b)[2] = x
               /\ TypeLine(x, b)[3] = b
    BY TypeLineFacts, Zenon
  <2>2. QED  BY <2>1, Zenon
<1> HIDE DEF A, r
<1>5. /\ l \in Seq(S) /\ Len(l) = Len(r) + 2 /\ l[2] = Blank
      /\ SubSeq(l, 1, 1) = hs /\ SubSeq(l, 3, Len(l)) = r
  <2> DEFINE c == Blank
  <2>1. c \in S
    BY <1>0, Zenon
  <2> HIDE DEF c
  <2>2. HeadedByTwo(<<A, c>> \o r, S, A, c, r)
    BY <1>0, <1>1, <2>1, AfterTwo, Zenon
  <2>3. HeadedByTwo(l, S, A, Blank, r)
    BY <2>2, Zenon DEF c
  <2> HIDE DEF l
  <2>4. QED  BY <2>3, Zenon DEF HeadedByTwo
<1>6. DOMAIN hs = {1} /\ hs[1] = A
  <2>1. Len(hs) = 1 /\ DOMAIN hs = 1..1 /\ 1..1 = {1}
    OBVIOUS
  <2>2. QED  BY <2>1
<1> HIDE DEF hs, l
<1>7. 2 \in Separators(l) /\ Separators(l) \subseteq Nat /\ \A i \in Separators(l) : 2 <= i
  <2>1. Len(r) \in Nat
    BY <1>1
  <2>2. 2 \in 2..Len(l) - 1 /\ 2..Len(l) - 1 \subseteq Nat /\ \A i \in 2..Len(l) - 1 : 2 <= i
    BY <1>1, <1>5, <2>1
  <2>3. QED  BY <1>5, <2>2, Zenon DEF Separators
<1>8. Least(Separators(l)) = 2
  <2>1. IsLeast(Separators(l), 2)
    BY <1>7, Zenon DEF IsLeast
  <2>2. QED  BY <2>1, LeastMember, Zenon
<1>9. HeadOf(l) = hs /\ TextOf(l) = r
  <2>1. 2 - 1 = 1 /\ 2 + 1 = 3
    OBVIOUS
  <2>2. QED  BY <1>5, <1>8, <2>1, Zenon DEF HeadOf, TextOf, From
<1>10. TypeOf(l) = A
  <2>0. 1 \in Nat
    OBVIOUS
  <2>1. {i \in DOMAIN hs : hs[i][1] = "Content-Type"} = {1}
    BY <1>4, <1>6, Zenon
  <2>2. OnlyAt(hs, "Content-Type", 1)
    BY <2>0, <2>1, Zenon DEF OnlyAt
  <2> DEFINE d == TypeLine("text", NoBoundary)
  <2> HIDE DEF d
  <2>3. header_value(hs, "Content-Type", d) = hs[1]
    BY <2>2, HeaderAt, Zenon
  <2>4. QED  BY <1>6, <1>9, <2>3, Zenon DEF TypeOf, d
<1>11. Found(l).closed /\ Found(l).sections = q
  <2>1. Found(l) = Sectioned(TRUE, TRUE, <<>>, q)
    BY <1>3, <1>4, <1>9, <1>10, Zenon DEF Found
  <2>2. Sectioned(TRUE, TRUE, <<>>, q).closed /\ Sectioned(TRUE, TRUE, <<>>, q).sections = q
    BY DEF Sectioned
  <2>3. QED  BY <2>1, <2>2, Zenon
<1>12. PartsBy(f, l) = [p \in DOMAIN q |-> f[q[p]]]
  <2>1. \A p \in DOMAIN q : trim_part_section(q[p]) = q[p]
    BY <1>a, Zenon DEF trim_part_section, PartsOk
  <2>2. QED  BY <1>11, <2>1, Zenon DEF PartsBy
<1>13. \A i \in DOMAIN PartsBy(f, l) : PartsBy(f, l)[i].ok
  BY <1>a, <1>12, Zenon DEF PartsOk
<1>14. \A i \in DOMAIN hs : hs[i][1] \in Headers
  BY <1>4, <1>6, Zenon DEF Headers
<1>15. Separators(l) # {}
  BY <1>7, Zenon
<1>16. ParseBody(f, l) = Parsed(TRUE, <<>>, PartsBy(f, l))
  BY <1>a, <1>4, <1>9, <1>10, <1>11, <1>13, <1>14, <1>15, Zenon DEF ParseBody
<1>17. QED  BY <1>2, <1>12, <1>16, Zenon

(***************************************************************************)
(* parse of what compose returned.                                         *)
(***************************************************************************)

\* One level of Expected, with f for the recursive call.
ExpectedBody(f, t, k) ==
    IF t[k].parts # <<>>
    THEN Parsed(TRUE, <<>>, [p \in DOMAIN t[k].parts |-> f[t[k].parts[p]]])
    ELSE Parsed(TRUE, BodyOf(t[k]), <<>>)

\* The tree that a script expects back exists.
LEMMA ExpectedExists ==
    ASSUME NEW t, Ordered(t)
    PROVE  \E f : f = [k \in 1..Len(t) |-> ExpectedBody(f, t, k)]
<1> DEFINE N == Len(t)
           T == {n \in 0..N : \E f : f = [k \in 1..n |-> ExpectedBody(f, t, k)]}
<1>0. N \in Nat
  BY Zenon DEF Ordered
<1>1. 0 \in 0..N /\ N \in 0..N /\ \A n \in 1..N : n \in 0..N
  BY <1>0
<1>2. 0 \in T
  <2>1. 1..0 = {}
    OBVIOUS
  <2> DEFINE f == [k \in {} |-> 0]
  <2>2. f = [k \in {} |-> ExpectedBody(f, t, k)]
    BY Zenon
  <2>3. f = [k \in 1..0 |-> ExpectedBody(f, t, k)]
    BY <2>1, <2>2, Zenon
  <2>4. QED  BY <1>1, <2>3, Zenon
<1>3. ASSUME NEW n \in 1..N, n - 1 \in T PROVE n \in T
  <2>1. PICK f : f = [k \in 1..n - 1 |-> ExpectedBody(f, t, k)]
    BY <1>3, Zenon
  <2> DEFINE g == [k \in 1..n |-> ExpectedBody(f, t, k)]
  <2>2. \A k \in 1..n : g[k] = ExpectedBody(f, t, k)
    BY Zenon
  <2>3. \A k \in 1..n - 1 : f[k] = ExpectedBody(f, t, k)
    BY <2>1, Zenon
  <2>4. g = [k \in 1..n |-> g[k]]
    BY Zenon
  <2> HIDE DEF g
  <2>5. ASSUME NEW k \in 1..n PROVE g[k] = ExpectedBody(g, t, k)
    <3>1. k \in 1..N
      BY <1>0
    <3>2. \A j \in 1..k - 1 : j \in 1..n - 1 /\ j \in 1..n
      BY <1>0
    <3>3. \A j \in 1..k - 1 : f[j] = g[j]
      BY <2>2, <2>3, <3>2, Zenon
    <3>4. \A p \in DOMAIN t[k].parts : f[t[k].parts[p]] = g[t[k].parts[p]]
      BY <3>1, <3>3, PartIsOlder, Zenon
    <3>5. ExpectedBody(f, t, k) = ExpectedBody(g, t, k)
      BY <3>4, Zenon DEF ExpectedBody
    <3>6. QED  BY <2>2, <3>5, Zenon
  <2>6. g = [k \in 1..n |-> ExpectedBody(g, t, k)]
    BY <2>4, <2>5, Zenon
  <2>7. QED  BY <1>1, <2>6, Zenon
<1> HIDE DEF T, N
<1>4. 0..N \subseteq T
  BY <1>0, <1>2, <1>3, IndexInduction, Zenon
<1>5. QED  BY <1>1, <1>4, Zenon DEF T, N

\* The tree that a script expects back, one message at a time.
LEMMA ExpectedFacts ==
    ASSUME NEW t, Ordered(t), NEW k \in 1..Len(t)
    PROVE  /\ Expected(t, k).ok
           /\ t[k].parts = <<>> => Expected(t, k) = Parsed(TRUE, BodyOf(t[k]), <<>>)
           /\ t[k].parts # <<>> => Expected(t, k)
                 = Parsed(TRUE, <<>>, [p \in DOMAIN t[k].parts |-> Expected(t, t[k].parts[p])])
<1> DEFINE F == CHOOSE f : f = [j \in 1..Len(t) |-> ExpectedBody(f, t, j)]
<1>1. \A j : Expected(t, j) = F[j]
  BY Zenon DEF Expected, ExpectedBody, BodyOf
<1>2. F = [j \in 1..Len(t) |-> ExpectedBody(F, t, j)]
  BY ExpectedExists, Zenon
<1> HIDE DEF F
<1>3. Expected(t, k) = ExpectedBody(F, t, k)
  BY <1>1, <1>2, Zenon
<1>4. [p \in DOMAIN t[k].parts |-> F[t[k].parts[p]]]
          = [p \in DOMAIN t[k].parts |-> Expected(t, t[k].parts[p])]
  BY <1>1, Zenon
<1>5. \A b, ps : Parsed(TRUE, b, ps).ok
  BY Zenon DEF Parsed
<1>6. t[k].parts = <<>> => Expected(t, k) = Parsed(TRUE, BodyOf(t[k]), <<>>)
  BY <1>3, Zenon DEF ExpectedBody
<1>7. t[k].parts # <<>> => Expected(t, k)
          = Parsed(TRUE, <<>>, [p \in DOMAIN t[k].parts |-> Expected(t, t[k].parts[p])])
  BY <1>3, <1>4, Zenon DEF ExpectedBody
<1>8. QED  BY <1>5, <1>6, <1>7, Zenon

\* What BoundariesClear says of a message and its parts.
LEMMA ClearFacts ==
    ASSUME NEW t, Ordered(t), NEW k \in 1..Len(t), t[k].parts # <<>>, BoundariesClear(t, k),
           NEW p \in DOMAIN t[k].parts
    PROVE  /\ BoundariesClear(t, t[k].parts[p])
           /\ \A j \in Within(t, t[k].parts[p]) : ClearOf(t, j, boundary_of(t, k))
<1> DEFINE i == t[k].parts[p]
<1>1. k \in Within(t, k) /\ Within(t, i) \subseteq Within(t, k) /\ k \notin Within(t, i)
  BY WithinSplit, Zenon
<1> HIDE DEF i
<1>2. BoundariesClear(t, i)
  BY <1>1, Zenon DEF BoundariesClear
<1>3. \A j \in Within(t, i) : ClearOf(t, j, boundary_of(t, k))
  BY <1>1, Zenon DEF BoundariesClear, ClearOf
<1>4. QED  BY <1>2, <1>3, Zenon DEF i

\* A message is rendered with a boundary.
LEMMA OwnBoundary ==
    ASSUME NEW t, IsTable(t), NEW k \in 1..Len(t) PROVE boundary_of(t, k) # NoBoundary
<1>1. Ordered(t) /\ LinesIn(t, TableLines(t))
  BY TableOrdered, TableLinesIn, Zenon
<1>2. generate_boundary(t, k) # NoBoundary
  <2> DEFINE L == TableLines(t)
  <2>1. LinesIn(t, L)
    BY <1>1, Zenon
  <2> HIDE DEF L
  <2>2. QED  BY <1>1, <2>1, BoundaryFree, Zenon
<1>3. QED  BY <1>2, Zenon DEF boundary_of

\* The lines of a leaf.
LEMMA LeafLines ==
    ASSUME NEW t, IsTable(t), NEW k \in 1..Len(t), t[k].parts = <<>>, NEW f
    PROVE  /\ ParseBody(f, render_leaf(t[k])) = Parsed(TRUE, BodyOf(t[k]), <<>>)
           /\ render_leaf(t[k]) # <<>>
<1> DEFINE m == t[k]
           x == content_type(m)
           e == choose_encoding(m)
           r == render_body(m)
           A == TypeLine(x, NoBoundary)
           E == EncodingLine(e)
           c == Blank
           S == {A, E, c} \cup Values(r)
<1>1. m \in Leaves
  <2>1. IsMessage(m, k)
    BY Zenon DEF IsTable
  <2>2. \A ps, b : Multipart(ps, b).parts = ps
    BY MultipartFacts, Zenon
  <2>3. QED  BY <2>1, <2>2, Zenon DEF IsMessage
<1>2. x # "multipart"
  <2>1. "text" # "multipart"
    OBVIOUS
  <2>2. m.type # "multipart"
    BY <1>1, LeafFacts, Zenon
  <2>3. QED  BY <2>1, <2>2, Zenon DEF content_type
<1>3. m.body \in Seq(BodyLines)
  BY BodyTyped, Zenon
<1>4. r \in Seq(Values(r)) /\ r # <<>> /\ decode_body(r, e) = BodyOf(m)
  BY <1>3, RenderBodyFacts, Zenon
<1>5. render_leaf(m) = <<A, E, c>> \o r
  BY Zenon DEF render_leaf
<1> HIDE DEF m, x, e, r
<1>6. A \in S /\ E \in S /\ c \in S /\ Values(r) \subseteq S
  BY Zenon
<1>7. r \in Seq(S)
  <2> DEFINE V == Values(r)
  <2>1. r \in Seq(V) /\ V \subseteq S
    BY <1>4, <1>6, Zenon
  <2> HIDE DEF V, S
  <2>2. QED  BY <2>1, SeqOfMore, Zenon
<1> HIDE DEF S
<1>8. ParseBody(f, <<A, E, c>> \o r) = Parsed(TRUE, decode_body(r, e), <<>>)
  <2>1. SimpleLines(S, x, NoBoundary, e, r)
    BY <1>2, <1>4, <1>6, <1>7, Zenon DEF SimpleLines
  <2>2. Decodes(f, x, NoBoundary, e, r)
    BY <2>1, ParseSimple, Zenon
  <2>3. QED  BY <2>2, Zenon DEF Decodes
<1>9. <<A, E, c>> \o r # <<>>
  <2> HIDE DEF A, E, c
  <2>1. HeadedByThree(<<A, E, c>> \o r, S, A, E, c, r)
    BY <1>6, <1>7, AfterThree, Zenon
  <2> DEFINE l == <<A, E, c>> \o r
  <2>2. Len(l) = Len(r) + 3
    BY <2>1, Zenon DEF HeadedByThree
  <2> HIDE DEF l
  <2>3. l # <<>>
    BY <1>7, <2>2
  <2>4. QED  BY <2>3, Zenon DEF l
<1>10. QED  BY <1>4, <1>5, <1>8, <1>9, Zenon DEF m

\* A message with parts renders to something.
LEMMA FramedNotEmpty ==
    ASSUME NEW S, NEW q \in Seq(Seq(S)), NEW b, FrameLines(b) \subseteq S
    PROVE  Framed(b, q) # <<>>
<1>1. /\ TypeLine("multipart", b) \in S /\ Blank \in S /\ Marker(b) \in S /\ Close(b) \in S
  BY Zenon DEF FrameLines
<1> DEFINE A == TypeLine("multipart", b)
           c == Blank
           z == [p \in DOMAIN q |-> <<Marker(b)>> \o q[p]]
           k == Concat(z)
           d == Close(b)
<1>2. z \in Seq(Seq(S))
  BY <1>1, MarkedParts, Zenon
<1>3. k \in Seq(S)
  <2> HIDE DEF z
  <2>1. QED  BY <1>2, ConcatTyped, Zenon
<1>4. A \in S /\ c \in S /\ d \in S
  BY <1>1, Zenon
<1>5. Framed(b, q) = <<A, c>> \o k \o <<d, c>>
  BY Zenon DEF Framed
<1> HIDE DEF A, c, d, k
<1>6. <<A, c>> \o k \o <<d, c>> # <<>>
  BY <1>3, <1>4
<1>7. QED  BY <1>5, <1>6, Zenon

\* compose never gives an empty text.
LEMMA RenderNotEmpty ==
    ASSUME NEW t, IsTable(t), NEW k \in 1..Len(t) PROVE render_message(t, k) # <<>>
<1>1. CASE t[k].parts = <<>>
  <2>1. render_message(t, k) = render_leaf(t[k])
    BY <1>1, RenderFacts, Zenon
  <2>2. render_leaf(t[k]) # <<>>
    BY <1>1, LeafLines, Zenon
  <2>3. QED  BY <2>1, <2>2, Zenon
<1>2. CASE t[k].parts # <<>>
  <2> DEFINE b == boundary_of(t, k)
             q == Parts(t, k)
             S == RenderedLines(t)
  <2>1. render_message(t, k) = Framed(b, q)
    BY <1>2, RenderFacts, Zenon DEF Parts
  <2>2. q \in Seq(Seq(S)) /\ FrameLines(b) \subseteq S
    BY PartsFacts, Zenon
  <2> HIDE DEF b, q, S
  <2>3. Framed(b, q) # <<>>
    BY <2>2, FramedNotEmpty, Zenon
  <2>4. QED  BY <2>1, <2>3, Zenon
<1>3. QED  BY <1>1, <1>2, Zenon

\* The values of a sequence over M are in M.
LEMMA ValuesIn ==
    ASSUME NEW M, NEW x \in Seq(M) PROVE Values(x) \subseteq M
<1>1. \A i \in DOMAIN x : x[i] \in M
  OBVIOUS
<1>2. QED  BY <1>1, Zenon DEF Values

\* The induction hypothesis: parse[render_message(t, k)] is the tree of k.
ComesBack(f, M, t, k) ==
    BoundariesClear(t, k) /\ render_message(t, k) \in Seq(M) =>
        f[render_message(t, k)] = Expected(t, k)

\* A leaf comes back as it was.
LEMMA LeafComesBack ==
    ASSUME NEW t, IsTable(t), NEW k \in 1..Len(t), t[k].parts = <<>>,
           NEW M, NEW f, Parses(f, M)
    PROVE  ComesBack(f, M, t, k)
<1> DEFINE x == render_message(t, k)
<1>1. SUFFICES ASSUME x \in Seq(M) PROVE f[x] = Expected(t, k)
  BY Zenon DEF ComesBack
<1>2. f[x] = ParseBody(f, x)
  BY <1>1, Zenon DEF Parses
<1>3. x = render_leaf(t[k])
  BY RenderFacts, Zenon
<1>4. ParseBody(f, render_leaf(t[k])) = Parsed(TRUE, BodyOf(t[k]), <<>>)
  BY LeafLines, Zenon
<1>5. Ordered(t)
  BY TableOrdered, Zenon
<1>6. Expected(t, k) = Parsed(TRUE, BodyOf(t[k]), <<>>)
  BY <1>5, ExpectedFacts, Zenon
<1>7. QED  BY <1>2, <1>3, <1>4, <1>6, Zenon

\* A message with parts comes back when its parts do.
LEMMA PartsComeBack ==
    ASSUME NEW t, IsTable(t), NEW k \in 1..Len(t), t[k].parts # <<>>,
           NEW M, NEW f, Parses(f, M),
           \A j \in 1..k - 1 : ComesBack(f, M, t, j)
    PROVE  ComesBack(f, M, t, k)
<1> DEFINE x == render_message(t, k)
           b == boundary_of(t, k)
           q == Parts(t, k)
           S == RenderedLines(t)
           part(p) == t[k].parts[p]
<1>1. SUFFICES ASSUME BoundariesClear(t, k), x \in Seq(M) PROVE f[x] = Expected(t, k)
  BY Zenon DEF ComesBack
<1>2. f[x] = ParseBody(f, x)
  BY <1>1, Zenon DEF Parses
<1>3. x = Framed(b, q)
  BY RenderFacts, Zenon DEF Parts
<1>4. q \in Seq(Seq(S)) /\ FrameLines(b) \subseteq S
  BY PartsFacts, Zenon
<1>5. DOMAIN q = DOMAIN t[k].parts
  BY PartsFacts, Zenon
<1>6. \A p \in DOMAIN q : /\ part(p) \in 1..k - 1 /\ part(p) \in 1..Len(t)
                          /\ q[p] = render_message(t, part(p))
  BY <1>5, PartsFacts, Zenon
<1>7. Ordered(t)
  BY TableOrdered, Zenon
<1>8. q # <<>>
  <2>1. DOMAIN t[k].parts # {}
    <3>1. t[k].parts \in Seq(1..k - 1)
      BY <1>7, Zenon DEF Ordered
    <3> DEFINE s == t[k].parts
               J == 1..k - 1
    <3>2. s \in Seq(J) /\ s # <<>>
      BY <3>1, Zenon
    <3> HIDE DEF s, J
    <3>3. DOMAIN s = 1..Len(s) /\ Len(s) \in Nat /\ Len(s) # 0
      BY <3>2
    <3>4. 1 \in DOMAIN s
      <4> DEFINE n == Len(s)
      <4> HIDE DEF n
      <4>1. n \in Nat /\ n # 0
        BY <3>3, Zenon DEF n
      <4>2. 1 \in 1..n
        BY <4>1
      <4>3. QED  BY <3>3, <4>2, Zenon DEF n
    <3>5. QED  BY <3>4, Zenon DEF s
  <2>2. DOMAIN <<>> = {}
    OBVIOUS
  <2>3. QED  BY <1>5, <2>1, <2>2, Zenon
<1>9. b # NoBoundary
  BY OwnBoundary, Zenon
<1>10. \A p \in DOMAIN q : /\ BoundariesClear(t, part(p))
                           /\ \A j \in Within(t, part(p)) : ClearOf(t, j, b)
  BY <1>1, <1>5, <1>7, ClearFacts, Zenon
<1>11. ClearParts(q, b)
  <2>1. ASSUME NEW p \in DOMAIN q, NEW v \in Values(q[p]) PROVE v \notin Delimiting(b)
    <3>1. v \in Values(render_message(t, part(p)))
      BY <1>6, <2>1, Zenon
    <3>2. part(p) \in 1..Len(t) /\ \A j \in Within(t, part(p)) : ClearOf(t, j, b)
      BY <1>6, <1>10, Zenon
    <3> HIDE DEF b
    <3>3. \A i \in 1..Len(t) : (\A j \in Within(t, i) : ClearOf(t, j, b)) =>
              \A w \in Values(render_message(t, i)) : w \notin Delimiting(b)
      BY RenderClear, Zenon
    <3>4. QED  BY <3>1, <3>2, <3>3, Zenon
  <2>2. QED  BY <2>1, Zenon DEF ClearParts
<1> HIDE DEF b, q, S, x
<1>12. \A p \in DOMAIN q : q[p] \in Seq(M)
  <2>1. Values(x) \subseteq M
    BY <1>1, ValuesIn, Zenon
  <2>2. \A p \in DOMAIN q : Values(q[p]) \subseteq Values(Framed(b, q))
    BY <1>4, FramedValues, Zenon
  <2>3. ASSUME NEW p \in DOMAIN q PROVE q[p] \in Seq(M)
    <3> DEFINE y == q[p]
               V == Values(y)
    <3>1. y \in Seq(S)
      <4> DEFINE Z == Seq(S)
      <4>1. q \in Seq(Z)
        BY <1>4, Zenon
      <4> HIDE DEF Z
      <4>2. q[p] \in Z
        BY <4>1
      <4>3. QED  BY <4>2, Zenon DEF Z
    <3>2. y \in Seq(V)
      BY <3>1, OwnValues, Zenon
    <3>3. V \subseteq M
      BY <1>3, <2>1, <2>2, Zenon
    <3> HIDE DEF V, y
    <3>4. y \in Seq(M)
      BY <3>2, <3>3, SeqOfMore, Zenon
    <3>5. QED  BY <3>4, Zenon DEF y
  <2>4. QED  BY <2>3, Zenon
<1>13. \A p \in DOMAIN q : f[q[p]] = Expected(t, part(p))
  BY <1>6, <1>10, <1>12, Zenon DEF ComesBack
<1>14. \A p \in DOMAIN q : q[p] # <<>>
  <2>1. \A j \in 1..Len(t) : render_message(t, j) # <<>>
    BY RenderNotEmpty, Zenon
  <2>2. QED  BY <1>6, <2>1, Zenon
<1>15. \A p \in DOMAIN q : Expected(t, part(p)).ok
  <2>1. \A j \in 1..Len(t) : Expected(t, j).ok
    BY <1>7, ExpectedFacts, Zenon
  <2>2. QED  BY <1>6, <2>1, Zenon
<1>16. PartsOk(f, q)
  BY <1>13, <1>14, <1>15, Zenon DEF PartsOk
<1>17. ParseBody(f, Framed(b, q)) = Parsed(TRUE, <<>>, [p \in DOMAIN q |-> f[q[p]]])
  <2>1. FramedParts(S, f, q, b)
    BY <1>4, <1>8, <1>9, <1>11, <1>16, Zenon DEF FramedParts
  <2>2. QED  BY <2>1, ParseFramed, Zenon
<1>18. [p \in DOMAIN q |-> f[q[p]]] = [p \in DOMAIN t[k].parts |-> Expected(t, part(p))]
  BY <1>5, <1>13, Zenon
<1>19. Expected(t, k)
           = Parsed(TRUE, <<>>, [p \in DOMAIN t[k].parts |-> Expected(t, part(p))])
  BY <1>7, ExpectedFacts, Zenon
<1>20. QED  BY <1>2, <1>3, <1>17, <1>18, <1>19, Zenon

\* Every message of a table comes back: induction on its age.
LEMMA AllComeBack ==
    ASSUME NEW t, IsTable(t), NEW M, NEW f, Parses(f, M)
    PROVE  \A k \in 1..Len(t) : ComesBack(f, M, t, k)
<1> DEFINE N == Len(t)
           T == {k \in 1..N : ComesBack(f, M, t, k)}
<1>1. N \in Nat
  BY TableOrdered, Zenon DEF Ordered
<1>2. ASSUME NEW k \in 1..N, 1..k - 1 \subseteq T PROVE k \in T
  <2>1. \A j \in 1..k - 1 : ComesBack(f, M, t, j)
    BY <1>2, Zenon
  <2>2. ComesBack(f, M, t, k)
    <3>1. CASE t[k].parts = <<>>
      BY <3>1, LeafComesBack, Zenon
    <3>2. CASE t[k].parts # <<>>
      BY <2>1, <3>2, PartsComeBack, Zenon
    <3>3. QED  BY <3>1, <3>2, Zenon
  <2>3. QED  BY <2>2, Zenon
<1> HIDE DEF T
<1>3. 1..N \subseteq T
  BY <1>1, <1>2, TableInduction, Zenon
<1>4. QED  BY <1>3, Zenon DEF T

\* For every table of messages, every hash function and every nesting: what
\* parse (mime.rs:714-790) makes of the text that compose returned
\* (mime.rs:589-646) is the tree the script built, as long as the boundaries
\* are clear of what they enclose.
THEOREM ClearMessagesRoundTrip == Spec => []RoundTripsWhenClear
<1>1. ASSUME TreeInv PROVE RoundTripsWhenClear
  <2>1. SUFFICES ASSUME parsed # NotParsed, BoundariesClear(built, held[1])
                 PROVE  parsed = Expected(built, held[1])
    BY Zenon DEF RoundTripsWhenClear
  <2> DEFINE k == held[1]
  <2>2. /\ IsTable(built) /\ raw # <<>> /\ parsed = parse_message_raw(raw)
        /\ raw = render_message(built, k)
    BY <1>1, <2>1, Zenon DEF TreeInv
  <2>3. k \in 1..Len(built)
    <3>1. held \in Seq(1..Len(built)) /\ Len(held) = 1
      BY <1>1, <2>2, Zenon DEF TreeInv
    <3>2. QED  BY <3>1, OneElement, Zenon
  <2>4. raw \in Seq(RenderedLines(built))
    BY <2>2, <2>3, RenderFacts, Zenon
  <2> DEFINE S == RenderedLines(built)
             M == Values(raw) \cup {Blank}
  <2>5. PICK f : Parses(f, M) /\ parse_message_raw(raw) = f[raw]
    <3> HIDE DEF S
    <3>1. raw \in Seq(S)
      BY <2>4, Zenon DEF S
    <3>2. QED  BY <3>1, ParseFacts, Zenon
  <2>6. raw \in Seq(M)
    <3> DEFINE V == Values(raw)
    <3>1. raw \in Seq(V)
      <4> HIDE DEF S
      <4>1. raw \in Seq(S)
        BY <2>4, Zenon DEF S
      <4>2. QED  BY <4>1, OwnValues, Zenon
    <3>2. V \subseteq M
      BY Zenon
    <3> HIDE DEF V, M
    <3>3. QED  BY <3>1, <3>2, SeqOfMore, Zenon
  <2> HIDE DEF M
  <2>7. ComesBack(f, M, built, k)
    BY <2>2, <2>3, <2>5, AllComeBack, Zenon
  <2>8. QED  BY <2>1, <2>2, <2>5, <2>6, <2>7, Zenon DEF ComesBack
<1>2. QED  BY <1>1, TreeInvHolds, PTL
====
