------------------------- MODULE SearchParamsProofs -------------------------
(***************************************************************************)
(* Proofs about SearchParams for texts and lists of any length.  The library *)
(* states induction with an operator as a parameter; here the property is a  *)
(* set, which first-order provers can instantiate.                           *)
(***************************************************************************)
EXTENDS SearchParams, WellFoundedInduction, TLAPS

(***************************************************************************)
(* Induction and recursion.                                                *)
(***************************************************************************)

\* A set of numbers that is not empty has a least one.
LEMMA LeastNumber ==
    ASSUME NEW T \in SUBSET Nat, T # {}
    PROVE  \E m \in T : \A k \in T : m <= k
<1>1. PICK m \in T : \A k \in T : ~(<<k, m>> \in OpToRel(<, Nat))
  BY NatLessThanWellFounded, WFMin, Zenon
<1>2. ASSUME NEW k \in T, k < m PROVE FALSE
  <2>1. <<k, m>> \in Nat \X Nat /\ <<k, m>>[1] = k /\ <<k, m>>[2] = m
    OBVIOUS
  <2>2. QED  BY <1>1, <1>2, <2>1, Zenon DEF OpToRel
<1>3. \A k \in T : m <= k
  BY <1>2
<1>4. QED  BY <1>3

\* A set with 0 and with the successor of each of its numbers has all numbers.
LEMMA NatSetInduction ==
    ASSUME NEW S, 0 \in S, \A n \in Nat : n \in S => n + 1 \in S
    PROVE  Nat \subseteq S
<1> DEFINE T == Nat \ S
<1> SUFFICES ASSUME T # {} PROVE FALSE
  OBVIOUS
<1>1. PICK m \in T : \A k \in T : m <= k
  <2>1. T \in SUBSET Nat
    OBVIOUS
  <2> HIDE DEF T
  <2>2. QED  BY <2>1, LeastNumber, Zenon
<1>2. m - 1 \in Nat /\ m - 1 \in S
  BY <1>1
<1>3. QED  BY <1>2

\* The same up to a bound.
LEMMA UpToInduction ==
    ASSUME NEW L \in Nat, NEW S, 0 \in S, \A n \in 1..L : n - 1 \in S => n \in S
    PROVE  0..L \subseteq S
<1> DEFINE U == S \cup {n \in Nat : n > L}
<1>1. ASSUME NEW n \in Nat, n \in U PROVE n + 1 \in U
  <2>1. CASE n + 1 > L
    BY <2>1
  <2>2. CASE ~(n + 1 > L)
    <3>1. n + 1 \in 1..L /\ (n + 1) - 1 = n /\ n \in S
      BY <1>1, <2>2
    <3>2. QED  BY <3>1
  <2>3. QED  BY <2>1, <2>2
<1>2. 0 \in U
  OBVIOUS
<1> HIDE DEF U
<1>3. Nat \subseteq U
  BY <1>1, <1>2, NatSetInduction, Zenon
<1>4. QED  BY <1>3 DEF U

\* b is in S, and the steps g[1], ..., g[L] stay in S.
Steps(L, S, b, g) ==
    L \in Nat /\ b \in S /\ \A n \in 1..L : \A x \in S : g[n][x] \in S

\* f starts with b and takes these steps.
Follows(f, L, S, b, g) ==
    /\ f = [n \in 0..L |-> f[n]]
    /\ f[0] = b
    /\ \A n \in 1..L : f[n - 1] \in S => f[n] = g[n][f[n - 1]]

\* A function that takes the steps stays in the set.
LEMMA RecursionTyped ==
    ASSUME NEW L, NEW S, NEW b, NEW g, Steps(L, S, b, g),
           NEW f, Follows(f, L, S, b, g)
    PROVE  f \in [0..L -> S]
<1> DEFINE P == {n \in 0..L : f[n] \in S}
<1>1. L \in Nat /\ 0 \in P
  BY DEF Steps, Follows
<1>2. ASSUME NEW n \in 1..L, n - 1 \in P PROVE n \in P
  <2>1. f[n - 1] \in S /\ n \in 0..L
    BY <1>1, <1>2
  <2>2. f[n] \in S
    BY <2>1, Zenon DEF Steps, Follows
  <2>3. QED  BY <2>1, <2>2
<1>3. 0..L \subseteq P
  <2> HIDE DEF P
  <2>1. QED  BY <1>1, <1>2, UpToInduction, Zenon
<1>4. \A n \in 0..L : f[n] \in S
  BY <1>3
<1>5. QED  BY <1>4, Zenon DEF Follows

\* Some function takes the steps.
LEMMA RecursionExists ==
    ASSUME NEW L, NEW S, NEW b, NEW g, Steps(L, S, b, g)
    PROVE  \E f : Follows(f, L, S, b, g)
<1> DEFINE Good == {k \in Nat : k <= L => \E f : Follows(f, k, S, b, g)}
<1>1. 0 \in Good
  <2> DEFINE h == [n \in 0..0 |-> b]
  <2>1. h[0] = b /\ 1..0 = {} /\ h = [n \in 0..0 |-> h[n]]
    OBVIOUS
  <2>2. Follows(h, 0, S, b, g)
    BY <2>1 DEF Follows
  <2>3. QED  BY <2>2
<1>2. ASSUME NEW k \in Nat, k \in Good PROVE k + 1 \in Good
  <2> SUFFICES ASSUME k + 1 <= L PROVE \E f : Follows(f, k + 1, S, b, g)
    OBVIOUS
  <2>1. PICK f : Follows(f, k, S, b, g)
    BY <1>2 DEF Steps
  <2> DEFINE h == [n \in 0..(k + 1) |-> IF n <= k THEN f[n] ELSE g[n][f[k]]]
  <2>2. h = [n \in 0..(k + 1) |-> h[n]] /\ h[0] = f[0]
    OBVIOUS
  <2>3. ASSUME NEW n \in 1..(k + 1), h[n - 1] \in S PROVE h[n] = g[n][h[n - 1]]
    <3>1. n - 1 \in 0..k /\ h[n - 1] = f[n - 1]
      OBVIOUS
    <3>2. CASE n <= k
      <4>1. n \in 1..k /\ h[n] = f[n]
        BY <3>2
      <4> HIDE DEF h
      <4>2. QED  BY <2>1, <2>3, <3>1, <4>1, Zenon DEF Follows
    <3>3. CASE n = k + 1
      BY <3>1, <3>3
    <3>4. QED  BY <3>2, <3>3
  <2> HIDE DEF h
  <2>4. Follows(h, k + 1, S, b, g)
    BY <2>1, <2>2, <2>3, Zenon DEF Follows
  <2>5. QED  BY <2>4, Zenon
<1> HIDE DEF Good
<1>3. Nat \subseteq Good
  BY <1>1, <1>2, NatSetInduction, Zenon
<1>4. L \in Good /\ L \in Nat
  BY <1>3 DEF Steps
<1>5. QED  BY <1>4 DEF Good

\* A sequence that is not empty has a front and a last element.
Front(s) == SubSeq(s, 1, Len(s) - 1)

Last(s) == s[Len(s)]

LEMMA FrontLast ==
    ASSUME NEW A, NEW s \in Seq(A), s # <<>>
    PROVE  /\ Front(s) \in Seq(A) /\ Last(s) \in A
           /\ s = Append(Front(s), Last(s))
           /\ Len(Front(s)) = Len(s) - 1
BY DEF Front, Last

LEMMA FrontOfAppend ==
    ASSUME NEW A, NEW s \in Seq(A), NEW e \in A
    PROVE  /\ Append(s, e) \in Seq(A) /\ Append(s, e) # <<>>
           /\ Front(Append(s, e)) = s /\ Last(Append(s, e)) = e
BY DEF Front, Last

\* A set with the empty sequence, and with each of its sequences every longer
\* one by an element, has all sequences.
LEMMA SeqSetInduction ==
    ASSUME NEW A, NEW T, <<>> \in T,
           \A s \in Seq(A) : \A e \in A : s \in T => Append(s, e) \in T
    PROVE  Seq(A) \subseteq T
<1> DEFINE P == {n \in Nat : \A s \in Seq(A) : Len(s) = n => s \in T}
<1>1. 0 \in P
  OBVIOUS
<1>2. ASSUME NEW n \in Nat, n \in P PROVE n + 1 \in P
  <2> SUFFICES ASSUME NEW s \in Seq(A), Len(s) = n + 1 PROVE s \in T
    OBVIOUS
  <2>1. s # <<>>
    OBVIOUS
  <2>2. /\ Front(s) \in Seq(A) /\ Last(s) \in A
        /\ s = Append(Front(s), Last(s)) /\ Len(Front(s)) = n
    BY <2>1, FrontLast
  <2>3. Front(s) \in T
    BY <1>2, <2>2
  <2>4. QED  BY <2>2, <2>3, Zenon
<1> HIDE DEF P
<1>3. Nat \subseteq P
  BY <1>1, <1>2, NatSetInduction, Zenon
<1>4. \A s \in Seq(A) : Len(s) \in P
  BY <1>3
<1>5. QED  BY <1>4 DEF P

\* The steps g1 are the first of the steps g2.
FirstSteps(L1, g1, L2, g2, S) ==
    L1 <= L2 /\ \A n \in 1..L1 : \A x \in S : g1[n][x] = g2[n][x]

Runs(f, L, S, b, g) == Steps(L, S, b, g) /\ Follows(f, L, S, b, g)

\* Two functions that take the same first steps have the same first values.
LEMMA RecursionUnique ==
    ASSUME NEW S, NEW b, NEW L1, NEW g1, NEW f1, Runs(f1, L1, S, b, g1),
           NEW L2, NEW g2, NEW f2, Runs(f2, L2, S, b, g2),
           FirstSteps(L1, g1, L2, g2, S)
    PROVE  f1[L1] = f2[L1]
<1> DEFINE P == {n \in 0..L1 : f1[n] = f2[n]}
<1>1. L1 \in Nat /\ L2 \in Nat
  BY DEF Steps, Runs
<1>2. 0 \in P
  BY <1>1 DEF Follows, Runs
<1>3. f1 \in [0..L1 -> S]
  BY RecursionTyped, Zenon DEF Runs
<1>4. ASSUME NEW n \in 1..L1, n - 1 \in P PROVE n \in P
  <2>1. n - 1 \in 0..L1 /\ n \in 0..L1 /\ n \in 1..L2 /\ f1[n - 1] = f2[n - 1]
    BY <1>1, <1>4 DEF FirstSteps
  <2>2. f1[n - 1] \in S
    BY <1>3, <2>1, Zenon
  <2>3. f1[n] = g1[n][f1[n - 1]] /\ f2[n] = g2[n][f2[n - 1]]
    BY <2>1, <2>2, Zenon DEF Follows, Runs
  <2>4. QED  BY <2>1, <2>2, <2>3, Zenon DEF FirstSteps
<1>5. 0..L1 \subseteq P
  <2> HIDE DEF P
  <2>1. QED  BY <1>1, <1>2, <1>4, UpToInduction, Zenon
<1>6. L1 \in P
  BY <1>1, <1>5
<1>7. QED  BY <1>6

\* b is in S, and a step with an element of A stays in S.
StepsOver(A, S, b, g) == b \in S /\ \A x \in S : \A e \in A : g[x][e] \in S

\* f folds g over the sequences of A, from b.
IsFold(f, A, S, b, g) ==
    /\ f = [s \in Seq(A) |-> f[s]]
    /\ f[<<>>] = b
    /\ \A s \in Seq(A) : \A e \in A : f[s] \in S => f[Append(s, e)] = g[f[s]][e]

\* A fold stays in the set.
LEMMA FoldTyped ==
    ASSUME NEW A, NEW S, NEW b, NEW g, StepsOver(A, S, b, g),
           NEW f, IsFold(f, A, S, b, g)
    PROVE  f \in [Seq(A) -> S]
<1> DEFINE T == {s \in Seq(A) : f[s] \in S}
<1>1. <<>> \in T
  BY DEF StepsOver, IsFold
<1>2. ASSUME NEW s \in Seq(A), NEW e \in A, s \in T PROVE Append(s, e) \in T
  <2>1. f[Append(s, e)] \in S
    BY <1>2, Zenon DEF StepsOver, IsFold
  <2>2. QED  BY <2>1
<1>3. Seq(A) \subseteq T
  <2> HIDE DEF T
  <2>1. QED  BY <1>1, <1>2, SeqSetInduction, Zenon
<1>4. \A s \in Seq(A) : f[s] \in S
  BY <1>3
<1>5. QED  BY <1>4, Zenon DEF IsFold

\* There is a fold: its value for a sequence is that of a recursion along it.
LEMMA FoldExists ==
    ASSUME NEW A, NEW S, NEW b, NEW g, StepsOver(A, S, b, g)
    PROVE  \E f : IsFold(f, A, S, b, g)
<1> DEFINE G(s) == [n \in 1..Len(s) |-> [x \in S |-> g[x][s[n]]]]
           R(s) == CHOOSE h : Follows(h, Len(s), S, b, G(s))
           f == [s \in Seq(A) |-> R(s)[Len(s)]]
<1>1. ASSUME NEW s \in Seq(A)
      PROVE  /\ Steps(Len(s), S, b, G(s)) /\ Follows(R(s), Len(s), S, b, G(s))
             /\ \A n \in 1..Len(s) : \A x \in S : G(s)[n][x] = g[x][s[n]]
  <2>1. Len(s) \in Nat /\ \A n \in 1..Len(s) : s[n] \in A
    OBVIOUS
  <2>2. \A n \in 1..Len(s) : \A x \in S : G(s)[n][x] = g[x][s[n]]
    BY Zenon
  <2> HIDE DEF G
  <2>3. Steps(Len(s), S, b, G(s))
    BY <2>1, <2>2, Zenon DEF Steps, StepsOver
  <2>4. \E h : Follows(h, Len(s), S, b, G(s))
    BY <2>3, RecursionExists, Zenon
  <2>5. QED  BY <2>2, <2>3, <2>4, Zenon
<1> HIDE DEF G, R
<1>2. f[<<>>] = b
  <2>1. <<>> \in Seq(A) /\ Len(<<>>) = 0
    OBVIOUS
  <2>2. f[<<>>] = R(<<>>)[0]
    BY <2>1, Zenon
  <2>3. Follows(R(<<>>), 0, S, b, G(<<>>))
    BY <1>1, <2>1, Zenon
  <2>4. QED  BY <2>2, <2>3, Zenon DEF Follows
<1>3. ASSUME NEW s \in Seq(A), NEW e \in A
      PROVE  f[Append(s, e)] = g[f[s]][e]
  <2> DEFINE t == Append(s, e)
             m == Len(s)
  <2>1. /\ t \in Seq(A) /\ m \in Nat /\ Len(t) = m + 1
        /\ t[m + 1] = e /\ \A n \in 1..m : t[n] = s[n]
    OBVIOUS
  <2>2. m <= Len(t) /\ m + 1 \in 1..Len(t) /\ (m + 1) - 1 = m /\ m \in 0..m
        /\ \A n \in 1..m : n \in 1..Len(t)
    BY <2>1
  <2>3. f[t] = R(t)[m + 1] /\ f[s] = R(s)[m]
    BY <2>1, Zenon
  <2> HIDE DEF t, m, f
  <2>4. FirstSteps(m, G(s), Len(t), G(t), S)
    <3>1. ASSUME NEW n \in 1..m, NEW x \in S PROVE G(s)[n][x] = G(t)[n][x]
      <4>1. n \in 1..Len(t) /\ t[n] = s[n]
        BY <2>1, <2>2, Zenon
      <4>2. G(s)[n][x] = g[x][s[n]]
        BY <1>1, Zenon DEF m
      <4>3. G(t)[n][x] = g[x][t[n]]
        BY <1>1, <2>1, <4>1, Zenon
      <4>4. QED  BY <4>1, <4>2, <4>3, Zenon
    <3>2. QED  BY <2>2, <3>1, Zenon DEF FirstSteps
  <2>5. Steps(m, S, b, G(s)) /\ Follows(R(s), m, S, b, G(s))
    BY <1>1, Zenon DEF m
  <2>6. Steps(Len(t), S, b, G(t)) /\ Follows(R(t), Len(t), S, b, G(t))
    BY <1>1, <2>1, Zenon
  <2>7. R(s)[m] = R(t)[m]
    <3>1. Runs(R(s), m, S, b, G(s)) /\ Runs(R(t), Len(t), S, b, G(t))
      BY <2>5, <2>6, Zenon DEF Runs
    <3>2. QED  BY <2>4, <3>1, RecursionUnique, SMTT(20)
  <2>8. R(s)[m] \in S
    <3>1. R(s) \in [0..m -> S]
      BY <2>5, RecursionTyped, Zenon
    <3>2. QED  BY <2>2, <3>1, Zenon
  <2>9. R(t)[m + 1] = G(t)[m + 1][R(t)[m]]
    BY <2>2, <2>6, <2>7, <2>8, Zenon DEF Follows
  <2>10. G(t)[m + 1][R(t)[m]] = g[R(t)[m]][e]
    BY <1>1, <2>1, <2>2, <2>7, <2>8, ZenonT(30)
  <2>11. QED  BY <2>3, <2>7, <2>9, <2>10, Zenon DEF t
<1>4. f = [s \in Seq(A) |-> f[s]]
  BY Zenon
<1> HIDE DEF f
<1>5. IsFold(f, A, S, b, g)
  BY <1>2, <1>3, <1>4, Zenon DEF IsFold
<1>6. QED  BY <1>5, Zenon

\* A fold in terms of the front and the last element.
LEMMA FoldOfFront ==
    ASSUME NEW A, NEW S, NEW b, NEW g, StepsOver(A, S, b, g),
           NEW f, IsFold(f, A, S, b, g), NEW s \in Seq(A), s # <<>>
    PROVE  f[Front(s)] \in S /\ Last(s) \in A /\ f[s] = g[f[Front(s)]][Last(s)]
<1>1. Front(s) \in Seq(A) /\ Last(s) \in A /\ s = Append(Front(s), Last(s))
  BY FrontLast, Zenon
<1>2. f \in [Seq(A) -> S]
  BY FoldTyped, Zenon
<1>3. f[Front(s)] \in S
  BY <1>1, <1>2, Zenon
<1>4. QED  BY <1>1, <1>3, Zenon DEF IsFold

(***************************************************************************)
(* The characters.                                                         *)
(***************************************************************************)

Char == Range(Chars)

Safe == Tokens \ {"&", "="}

LEMMA CharFacts ==
    /\ Char = {"SP", "%", "&", "+", "=", "?", "x", "y"}
    /\ Range(Escapes) = {"%20", "%25", "%26", "%2B", "%3D", "%3F", "%78", "%79"}
    /\ "none" \notin Tokens
<1>1. DOMAIN Chars = 1..8 /\ DOMAIN Escapes = 1..8
  BY DEF Chars, Escapes
<1>2. 1..8 = {1, 2, 3, 4, 5, 6, 7, 8}
  OBVIOUS
<1>3. Char = {"SP", "%", "&", "+", "=", "?", "x", "y"}
  BY <1>1, <1>2 DEF Char, Range, Chars
<1>4. Range(Escapes) = {"%20", "%25", "%26", "%2B", "%3D", "%3F", "%78", "%79"}
  BY <1>1, <1>2 DEF Range, Escapes
<1>5. QED  BY <1>3, <1>4 DEF Tokens, Char

\* The place of each character and of each escape is the one it stands at.
LEMMA Places ==
    ASSUME NEW k \in 1..8
    PROVE  /\ Chars[k] \in Char /\ Escapes[k] \in Range(Escapes)
           /\ (CHOOSE i \in DOMAIN Chars : Chars[i] = Chars[k]) = k
           /\ (CHOOSE i \in DOMAIN Escapes : Escapes[i] = Escapes[k]) = k
<1>1. DOMAIN Chars = 1..8 /\ DOMAIN Escapes = 1..8
  BY DEF Chars, Escapes
<1>2. \A i \in 1..8 : Chars[i] = Chars[k] => i = k
  BY DEF Chars
<1>3. \A i \in 1..8 : Escapes[i] = Escapes[k] => i = k
  BY DEF Escapes
<1>4. (CHOOSE i \in DOMAIN Chars : Chars[i] = Chars[k]) = k
  BY <1>1, <1>2, Zenon
<1>5. (CHOOSE i \in DOMAIN Escapes : Escapes[i] = Escapes[k]) = k
  BY <1>1, <1>3, Zenon
<1>6. Chars[k] \in Char /\ Escapes[k] \in Range(Escapes)
  BY <1>1 DEF Char, Range
<1>7. QED  BY <1>4, <1>5, <1>6

\* A character is written as a token that is no separator, and read back; a
\* token is read as a character.
LEMMA CharRoundTrip ==
    /\ \A c \in Char : Encode[c] \in Safe /\ Decode[Encode[c]] = c
    /\ \A t \in Tokens : Decode[t] \in Char
<1>1. DOMAIN Chars = 1..8 /\ DOMAIN Escapes = 1..8
  BY DEF Chars, Escapes
<1>2. ASSUME NEW c \in Char PROVE Encode[c] \in Safe /\ Decode[Encode[c]] = c
  <2>1. CASE c \in {"x", "y", "SP"}
    BY <2>1, CharFacts DEF Encode, Decode, Safe, Tokens, Char
  <2>2. CASE c \notin {"x", "y", "SP"}
    <3>1. PICK k \in 1..8 : c = Chars[k]
      BY <1>1 DEF Char, Range
    <3>2. Code[c] = k
      BY <3>1, Places, Zenon DEF Code, Char
    <3>3. Encode[c] = Escapes[k]
      BY <2>2, <3>2 DEF Encode, Char
    <3>4. Escapes[k] \in Range(Escapes)
      BY Places, Zenon
    <3>5. Escapes[k] \notin Char /\ Escapes[k] # "+" /\ Escapes[k] \in Safe
      BY <3>4, CharFacts DEF Safe, Tokens, Char
    <3>6. Decode[Escapes[k]] = Chars[CHOOSE i \in DOMAIN Escapes : Escapes[i] = Escapes[k]]
      BY <3>5, Zenon DEF Decode, Char, Safe
    <3>7. QED  BY <3>1, <3>3, <3>5, <3>6, Places, Zenon
  <2>3. QED  BY <2>1, <2>2
<1>3. ASSUME NEW t \in Tokens PROVE Decode[t] \in Char
  <2>1. CASE t \in Char
    BY <2>1, CharFacts DEF Decode, Char, Tokens
  <2>2. CASE t \notin Char
    <3>1. PICK k \in 1..8 : t = Escapes[k]
      BY <1>1, <2>2 DEF Char, Range, Tokens
    <3>2. t # "+"
      BY <2>2, CharFacts
    <3>3. Decode[t] = Chars[CHOOSE i \in DOMAIN Escapes : Escapes[i] = Escapes[k]]
      BY <2>2, <3>1, <3>2, Zenon DEF Decode, Char
    <3>4. QED  BY <3>3, Places, Zenon
  <2>3. QED  BY <2>1, <2>2
<1>4. QED  BY <1>2, <1>3

(***************************************************************************)
(* Vec::retain.                                                            *)
(***************************************************************************)

\* F[n] is what is kept of the first n entries.
RetainRun(F, A, l, kept) ==
    /\ F \in [0..Len(l) -> Seq(A)]
    /\ F[0] = <<>>
    /\ \A n \in 1..Len(l) :
          F[n] = IF n \in kept THEN Append(F[n - 1], l[n]) ELSE F[n - 1]

\* retain goes through the list one entry at a time.
LEMMA RetainSteps ==
    ASSUME NEW A, NEW l \in Seq(A), NEW kept
    PROVE  \E F : RetainRun(F, A, l, kept) /\ retain(l, kept) = F[Len(l)]
<1> DEFINE L == Len(l)
           S == Seq(A)
           b == <<>>
           Step(n, x) == IF n \in kept THEN Append(x, l[n]) ELSE x
           g == [n \in 1..L |-> [x \in S |-> Step(n, x)]]
           Body(f) == [n \in 0..L |-> IF n = 0 THEN b ELSE Step(n, f[n - 1])]
           F == CHOOSE f : f = Body(f)
<1>1. L \in Nat
  OBVIOUS
<1>2. b \in S
  OBVIOUS
<1>3. \A n \in 1..L, x \in S : Step(n, x) \in S
  OBVIOUS
<1>4. retain(l, kept) = F[L]
  BY Zenon DEF retain
<1> HIDE DEF L, S, b, Step
<1>5. \A n \in 1..L, x \in S : g[n][x] = Step(n, x)
  BY Zenon
<1> HIDE DEF g
<1>6. Steps(L, S, b, g)
  BY <1>1, <1>2, <1>3, <1>5, Zenon DEF Steps
<1>7. PICK h : Follows(h, L, S, b, g)
  BY <1>6, RecursionExists, Zenon
<1>8. h = Body(h)
  <2>1. \A n \in 0..L : n # 0 => n \in 1..L /\ n - 1 \in 0..L
    BY <1>1
  <2>2. h \in [0..L -> S]
    BY <1>6, <1>7, RecursionTyped, Zenon
  <2>3. \A n \in 0..L : h[n] = IF n = 0 THEN b ELSE Step(n, h[n - 1])
    BY <1>5, <1>7, <2>1, <2>2, Zenon DEF Follows
  <2>4. QED  BY <1>7, <2>3, Zenon DEF Follows
<1>9. F = Body(F)
  BY <1>8, Zenon
<1> HIDE DEF F
<1>10. \A n \in 0..L : F[n] = IF n = 0 THEN b ELSE Step(n, F[n - 1])
  BY <1>9, Zenon
<1>11. 0 \in 0..L /\ \A n \in 1..L : n \in 0..L /\ n # 0
  BY <1>1
<1>12. F[0] = b /\ \A n \in 1..L : F[n] = Step(n, F[n - 1])
  BY <1>10, <1>11, Zenon
<1>13. Follows(F, L, S, b, g)
  BY <1>5, <1>9, <1>10, <1>12, Zenon DEF Follows
<1>14. F \in [0..L -> S]
  BY <1>6, <1>13, RecursionTyped, Zenon
<1>15. QED  BY <1>4, <1>12, <1>14, Zenon DEF L, S, b, Step, RetainRun

\* What retain leaves: the entries at the kept places, in their order.
LEMMA RetainSelected ==
    ASSUME NEW A, NEW l \in Seq(A), NEW kept \in SUBSET DOMAIN l
    PROVE  retain(l, kept) \in Seq(A) /\ Lists!Selected(l, kept, retain(l, kept))
<1>0. PICK F : RetainRun(F, A, l, kept) /\ retain(l, kept) = F[Len(l)]
  BY RetainSteps, Zenon
<1>1. /\ F \in [0..Len(l) -> Seq(A)]
      /\ F[0] = <<>>
      /\ \A n \in 1..Len(l) :
            F[n] = IF n \in kept THEN Append(F[n - 1], l[n]) ELSE F[n - 1]
      /\ retain(l, kept) = F[Len(l)]
  BY <1>0, Zenon DEF RetainRun
<1> DEFINE L == Len(l)
           K(n) == {k \in kept : k <= n}
           P == {n \in 0..L : Lists!Selected(l, K(n), F[n])}
<1>2. L \in Nat /\ DOMAIN l = 1..L /\ kept \subseteq 1..L
  OBVIOUS
<1>3. 0 \in P
  <2>1. K(0) = {} /\ DOMAIN F[0] = {}
    BY <1>1, <1>2
  <2> DEFINE from == [i \in DOMAIN F[0] |-> i]
  <2>2. from \in [DOMAIN F[0] -> K(0)]
    BY <2>1, Zenon
  <2>3. Lists!Selected(l, K(0), F[0])
    <3> HIDE DEF from, K
    <3>1. QED  BY <2>1, <2>2, Zenon DEF Lists!Selected
  <2>4. QED  BY <1>2, <2>3
<1>4. ASSUME NEW n \in 1..L, n - 1 \in P PROVE n \in P
  <2> DEFINE x == F[n - 1]
             y == F[n]
  <2>1. n \in 0..L /\ n - 1 \in 0..L /\ x \in Seq(A) /\ y \in Seq(A) /\ l[n] \in A
    <3>1. n \in 0..L /\ n - 1 \in 0..L
      BY <1>2
    <3>2. l[n] \in A
      OBVIOUS
    <3>3. QED  BY <1>1, <3>1, <3>2, Zenon
  <2>2. PICK from \in [DOMAIN x -> K(n - 1)] :
           /\ \A i, j \in DOMAIN x : i < j => from[i] < from[j]
           /\ \A k \in K(n - 1) : \E i \in DOMAIN x : from[i] = k
           /\ \A i \in DOMAIN x : x[i] = l[from[i]]
    BY <1>4, Zenon DEF Lists!Selected
  <2>3. CASE n \notin kept
    <3>1. K(n) = K(n - 1)
      BY <1>2, <2>3
    <3>2. y = x
      BY <1>1, <2>3, Zenon
    <3>3. QED  BY <1>4, <2>1, <3>1, <3>2, Zenon
  <2>4. CASE n \in kept
    <3> DEFINE m == Len(x)
               g == [i \in 1..(m + 1) |-> IF i <= m THEN from[i] ELSE n]
    <3>1. y = Append(x, l[n])
      BY <1>1, <2>4, Zenon
    <3>2. /\ m \in Nat /\ DOMAIN x = 1..m /\ DOMAIN y = 1..(m + 1) /\ y[m + 1] = l[n]
          /\ \A i \in 1..m : y[i] = x[i]
      BY <2>1, <3>1
    <3>3. K(n) = K(n - 1) \cup {n}
      BY <1>2, <2>4
    <3>4. \A i \in 1..m : from[i] \in K(n - 1) /\ from[i] < n
      <4>1. \A i \in 1..m : from[i] \in K(n - 1)
        BY <3>2, Zenon
      <4>2. \A k \in K(n - 1) : k < n
        BY <1>2
      <4>3. QED  BY <4>1, <4>2, Zenon
    <3> HIDE DEF K, x, y, m
    <3>5. g \in [DOMAIN y -> K(n)]
      BY <3>2, <3>3, <3>4
    <3>6. \A i \in 1..m : g[i] = from[i]
      BY <3>2
    <3>7. g[m + 1] = n
      BY <3>2
    <3> HIDE DEF g
    <3>8. \A i, j \in DOMAIN y : i < j => g[i] < g[j]
      <4> SUFFICES ASSUME NEW i \in DOMAIN y, NEW j \in DOMAIN y, i < j
                   PROVE  g[i] < g[j]
        OBVIOUS
      <4>1. i \in 1..m /\ g[i] = from[i]
        BY <3>2, <3>6
      <4>2. CASE j = m + 1
        BY <3>4, <3>7, <4>1, <4>2
      <4>3. CASE j # m + 1
        <5>1. j \in 1..m /\ g[j] = from[j]
          BY <3>2, <3>6, <4>3
        <5>2. QED  BY <2>2, <3>2, <4>1, <5>1
      <4>4. QED  BY <4>2, <4>3
    <3>9. \A k \in K(n) : \E i \in DOMAIN y : g[i] = k
      <4>1. m + 1 \in DOMAIN y /\ \A i \in DOMAIN x : i \in DOMAIN y /\ i \in 1..m
        BY <3>2
      <4>2. QED  BY <2>2, <3>3, <3>6, <3>7, <4>1, Zenon
    <3>10. \A i \in DOMAIN y : y[i] = l[g[i]]
      <4>1. \A i \in DOMAIN y : i = m + 1 \/ (i \in 1..m /\ i \in DOMAIN x)
        BY <3>2
      <4>2. QED  BY <2>2, <3>2, <3>6, <3>7, <4>1, Zenon
    <3>11. Lists!Selected(l, K(n), y)
      BY <3>5, <3>8, <3>9, <3>10, Zenon DEF Lists!Selected
    <3>12. QED  BY <2>1, <3>11, Zenon DEF y
  <2>5. QED  BY <2>3, <2>4
<1>5. 0..L \subseteq P
  <2> HIDE DEF P, L
  <2>1. QED  BY <1>2, <1>3, <1>4, UpToInduction, Zenon
<1>6. K(L) = kept /\ L \in P /\ F[L] \in Seq(A)
  <2>1. K(L) = kept /\ L \in 0..L
    BY <1>2
  <2>2. QED  BY <1>1, <1>5, <2>1, Zenon
<1>7. QED  BY <1>1, <1>6, Zenon

\* Keeping every place keeps the list, and keeping none leaves nothing.
LEMMA RetainAll ==
    ASSUME NEW A, NEW l \in Seq(A)
    PROVE  retain(l, DOMAIN l) = l /\ retain(l, {}) = <<>>
<1> DEFINE L == Len(l)
<1>1. L \in Nat /\ DOMAIN l = 1..L
  OBVIOUS
<1>2. retain(l, DOMAIN l) = l
  <2>0. PICK F : RetainRun(F, A, l, DOMAIN l) /\ retain(l, DOMAIN l) = F[L]
    BY RetainSteps, Zenon
  <2>1. /\ F[0] = <<>>
        /\ \A n \in 1..L :
              F[n] = IF n \in DOMAIN l THEN Append(F[n - 1], l[n]) ELSE F[n - 1]
        /\ retain(l, DOMAIN l) = F[L]
    BY <2>0, Zenon DEF RetainRun
  <2> DEFINE P == {n \in 0..L : F[n] = SubSeq(l, 1, n)}
  <2>2. 0 \in P
    <3>1. SubSeq(l, 1, 0) = <<>> /\ 0 \in 0..L
      BY <1>1
    <3>2. QED  BY <2>1, <3>1, Zenon
  <2>3. ASSUME NEW n \in 1..L, n - 1 \in P PROVE n \in P
    <3>1. n \in 0..L /\ n \in DOMAIN l /\ F[n - 1] = SubSeq(l, 1, n - 1)
      BY <1>1, <2>3
    <3>2. F[n] = Append(SubSeq(l, 1, n - 1), l[n])
      BY <2>1, <3>1, Zenon
    <3>3. Append(SubSeq(l, 1, n - 1), l[n]) = SubSeq(l, 1, n)
      BY <1>1, <3>1
    <3>4. QED  BY <3>1, <3>2, <3>3, Zenon
  <2>4. 0..L \subseteq P
    <3> HIDE DEF P, L
    <3>1. QED  BY <1>1, <2>2, <2>3, UpToInduction, Zenon
  <2>5. F[L] = SubSeq(l, 1, L)
    BY <1>1, <2>4
  <2>6. SubSeq(l, 1, L) = l
    OBVIOUS
  <2>7. QED  BY <2>1, <2>5, <2>6, Zenon
<1>3. retain(l, {}) = <<>>
  <2>0. PICK F : RetainRun(F, A, l, {}) /\ retain(l, {}) = F[L]
    BY RetainSteps, Zenon
  <2>1. /\ F[0] = <<>>
        /\ \A n \in 1..L :
              F[n] = IF n \in {} THEN Append(F[n - 1], l[n]) ELSE F[n - 1]
        /\ retain(l, {}) = F[L]
    BY <2>0, Zenon DEF RetainRun
  <2> DEFINE P == {n \in 0..L : F[n] = <<>>}
  <2>2. 0 \in P
    BY <2>1
  <2>3. ASSUME NEW n \in 1..L, n - 1 \in P PROVE n \in P
    BY <1>1, <2>1, <2>3
  <2>4. 0..L \subseteq P
    <3> HIDE DEF P, L
    <3>1. QED  BY <1>1, <2>2, <2>3, UpToInduction, Zenon
  <2>5. QED  BY <1>1, <2>1, <2>4
<1>4. QED  BY <1>2, <1>3

(***************************************************************************)
(* The query: splitting and joining, one token or one pair at a time.      *)
(***************************************************************************)

Query == Seq(Tokens)

Segments == {x \in Seq(Query) : x # <<>>}

\* A separator starts a segment; another token goes to the last one.
SplitStep(done, t) ==
    IF t = "&" THEN Append(done, <<>>)
    ELSE [done EXCEPT ![Len(done)] = Append(@, t)]

LEMMA SplitStepTyped ==
    ASSUME NEW done \in Segments, NEW t \in Tokens
    PROVE  SplitStep(done, t) \in Segments
<1>1. done \in Seq(Query) /\ Len(done) \in DOMAIN done /\ done[Len(done)] \in Query
  BY DEF Segments
<1>2. Append(done[Len(done)], t) \in Query /\ <<>> \in Query
  BY <1>1 DEF Query
<1> HIDE DEF Query
<1>3. Append(done, <<>>) \in Seq(Query) /\ Append(done, <<>>) # <<>>
  BY <1>1, <1>2
<1> DEFINE new == [done EXCEPT ![Len(done)] = Append(@, t)]
<1>4. new \in Seq(Query) /\ Len(new) = Len(done)
  BY <1>1, <1>2
<1>5. new # <<>>
  BY <1>1, <1>4
<1>6. QED  BY <1>3, <1>4, <1>5 DEF Segments, SplitStep

LEMMA SplitFold ==
    /\ Split(<<>>) = <<<<>>>>
    /\ \A q \in Query : Split(q) \in Segments
    /\ \A q \in Query : \A t \in Tokens : Split(Append(q, t)) = SplitStep(Split(q), t)
<1> DEFINE S == Segments
           b == <<<<>>>>
           g == [x \in S |-> [e \in Tokens |-> SplitStep(x, e)]]
           Body(f) == [s \in Seq(Tokens) |->
                          IF s = <<>> THEN b ELSE SplitStep(f[Front(s)], Last(s))]
           F == CHOOSE f : f = Body(f)
<1>1. b \in S
  <2>1. <<>> \in Query
    BY DEF Query
  <2> HIDE DEF Query
  <2>2. QED  BY <2>1 DEF Segments
<1>2. \A x \in S : \A e \in Tokens : SplitStep(x, e) \in S
  BY SplitStepTyped, Zenon
<1>3. \A q : Split(q) = F[q]
  BY Zenon DEF Split, SplitStep, Front, Last
<1> HIDE DEF b, S
<1>4. \A x \in S : \A e \in Tokens : g[x][e] = SplitStep(x, e)
  BY Zenon
<1> HIDE DEF g
<1>5. StepsOver(Tokens, S, b, g)
  BY <1>1, <1>2, <1>4, Zenon DEF StepsOver
<1>6. PICK h : IsFold(h, Tokens, S, b, g)
  BY <1>5, FoldExists, Zenon
<1>7. h = Body(h)
  <2>1. ASSUME NEW s \in Seq(Tokens)
        PROVE  h[s] = IF s = <<>> THEN b ELSE SplitStep(h[Front(s)], Last(s))
    <3>1. CASE s = <<>>
      BY <1>6, <3>1, Zenon DEF IsFold
    <3>2. CASE s # <<>>
      <4>1. h[Front(s)] \in S /\ Last(s) \in Tokens /\ h[s] = g[h[Front(s)]][Last(s)]
        BY <1>5, <1>6, <3>2, FoldOfFront, SMTT(20)
      <4>2. QED  BY <1>4, <3>2, <4>1, Zenon
    <3>3. QED  BY <3>1, <3>2
  <2>2. h = [s \in Seq(Tokens) |-> h[s]]
    BY <1>6, Zenon DEF IsFold
  <2>3. QED  BY <2>1, <2>2, Zenon
<1>8. F = Body(F)
  BY <1>7, Zenon
<1> HIDE DEF F
<1>9. /\ F = [s \in Seq(Tokens) |-> F[s]]
      /\ \A s \in Seq(Tokens) :
            F[s] = IF s = <<>> THEN b ELSE SplitStep(F[Front(s)], Last(s))
  BY <1>8, Zenon
<1>10. F[<<>>] = b
  <2>1. <<>> \in Seq(Tokens)
    OBVIOUS
  <2>2. QED  BY <1>9, <2>1, Zenon
<1>11. ASSUME NEW s \in Seq(Tokens), NEW e \in Tokens
       PROVE  F[Append(s, e)] = SplitStep(F[s], e)
  <2>1. /\ Append(s, e) \in Seq(Tokens) /\ Append(s, e) # <<>>
        /\ Front(Append(s, e)) = s /\ Last(Append(s, e)) = e
    BY FrontOfAppend, Zenon
  <2>2. QED  BY <1>9, <2>1, Zenon
<1>12. IsFold(F, Tokens, S, b, g)
  BY <1>4, <1>9, <1>10, <1>11, Zenon DEF IsFold
<1>13. F \in [Seq(Tokens) -> S]
  BY <1>5, <1>12, FoldTyped, Zenon
<1>14. QED  BY <1>3, <1>10, <1>11, <1>13, Zenon DEF b, S, Query

\* A character of a text through the encoding, and back.
LEMMA ThroughEncode ==
    ASSUME NEW s \in Seq(Char)
    PROVE  /\ Through(s, Encode) \in Seq(Safe) /\ Len(Through(s, Encode)) = Len(s)
           /\ Through(Through(s, Encode), Decode) = s
<1> DEFINE a == Through(s, Encode)
<1>1. DOMAIN s = 1..Len(s) /\ Len(s) \in Nat /\ \A i \in 1..Len(s) : s[i] \in Char
  OBVIOUS
<1>2. DOMAIN a = 1..Len(s) /\ \A i \in 1..Len(s) : a[i] = Encode[s[i]]
  BY <1>1, Zenon DEF Through
<1>3. \A i \in 1..Len(s) : a[i] \in Safe
  BY <1>1, <1>2, CharRoundTrip, Zenon
<1>4. a = [i \in 1..Len(s) |-> a[i]]
  BY <1>1, <1>2, Zenon DEF Through
<1>5. a \in [1..Len(s) -> Safe]
  BY <1>3, <1>4, Zenon
<1>6. a \in Seq(Safe) /\ Len(a) = Len(s)
  BY <1>1, <1>5
<1>7. Through(a, Decode) = [i \in 1..Len(s) |-> Decode[a[i]]]
  BY <1>2, Zenon DEF Through
<1>8. \A i \in 1..Len(s) : Decode[a[i]] = s[i]
  BY <1>1, <1>2, CharRoundTrip, Zenon
<1>9. s = [i \in 1..Len(s) |-> s[i]]
  BY <1>1
<1>10. Through(a, Decode) = s
  BY <1>7, <1>8, <1>9, Zenon
<1>11. QED  BY <1>6, <1>10

\* The text of tokens.
LEMMA ThroughDecode ==
    ASSUME NEW s \in Query
    PROVE  Through(s, Decode) \in Seq(Char)
<1>1. DOMAIN s = 1..Len(s) /\ Len(s) \in Nat /\ \A i \in 1..Len(s) : s[i] \in Tokens
  BY DEF Query
<1>2. \A i \in 1..Len(s) : Decode[s[i]] \in Char
  BY <1>1, CharRoundTrip, Zenon
<1>3. Through(s, Decode) = [i \in 1..Len(s) |-> Decode[s[i]]]
  BY <1>1, Zenon DEF Through
<1>4. Through(s, Decode) \in [1..Len(s) -> Char]
  BY <1>2, <1>3, Zenon
<1>5. QED  BY <1>1, <1>4

Plain == Tokens \ {"&"}

\* The segment of a pair has one "=" between the tokens of the name and those
\* of the value, and no "&".
LEMMA SegmentShape ==
    ASSUME NEW p \in Pairs
    PROVE  \E a, c \in Seq(Safe) :
              /\ Segment(p) = a \o <<"=">> \o c
              /\ Through(a, Decode) = p[1] /\ Through(c, Decode) = p[2]
<1>1. p[1] \in Seq(Char) /\ p[2] \in Seq(Char)
  BY DEF Pairs, Char
<1>2. QED  BY <1>1, ThroughEncode, Zenon DEF Segment

LEMMA SegmentParts ==
    ASSUME NEW a \in Seq(Safe), NEW c \in Seq(Safe)
    PROVE  LET seg == a \o <<"=">> \o c
           IN  /\ seg \in Seq(Plain) /\ seg # <<>>
               /\ Len(seg) = Len(a) + 1 + Len(c)
               /\ \A i \in 1..Len(seg) : seg[i] = "=" <=> i = Len(a) + 1
               /\ SubSeq(seg, 1, Len(a)) = a
               /\ SubSeq(seg, Len(a) + 2, Len(seg)) = c
<1>1. "=" \in Plain /\ Safe \subseteq Plain /\ "=" \notin Safe
  BY CharFacts DEF Plain, Safe, Tokens, Char
<1>2. a \in Seq(Plain) /\ c \in Seq(Plain) /\ <<"=">> \in Seq(Plain)
  BY <1>1
<1> HIDE DEF Safe, Plain
<1> DEFINE seg == a \o <<"=">> \o c
<1>3. /\ seg \in Seq(Plain) /\ Len(seg) = Len(a) + 1 + Len(c)
      /\ \A i \in 1..Len(seg) :
            seg[i] = IF i <= Len(a) THEN a[i]
                     ELSE IF i = Len(a) + 1 THEN "=" ELSE c[i - (Len(a) + 1)]
  BY <1>2
<1>4. ASSUME NEW i \in 1..Len(seg) PROVE seg[i] = "=" <=> i = Len(a) + 1
  <2>1. CASE i <= Len(a)
    BY <1>1, <1>3, <2>1
  <2>2. CASE i > Len(a) + 1
    <3>1. i - (Len(a) + 1) \in 1..Len(c) /\ seg[i] = c[i - (Len(a) + 1)]
      BY <1>3, <2>2
    <3>2. c[i - (Len(a) + 1)] \in Safe
      BY <3>1
    <3>3. QED  BY <1>1, <2>2, <3>1, <3>2
  <2>3. QED  BY <1>3, <2>1, <2>2
<1>5. SubSeq(seg, 1, Len(a)) = a
  BY <1>2
<1>6. SubSeq(seg, Len(a) + 2, Len(seg)) = c
  BY <1>2
<1>7. seg # <<>>
  BY <1>3
<1>8. QED  BY <1>3, <1>4, <1>5, <1>6, <1>7

\* The least element of a set of numbers.
LEMMA MinIsLeast ==
    ASSUME NEW T \in SUBSET Nat, T # {}
    PROVE  Min(T) \in T /\ \A k \in T : Min(T) <= k
BY LeastNumber, Zenon DEF Min

\* The first "=" of a sequence of tokens, 0 if there is none.
EqualsAt(seg) ==
    LET equals == {k \in DOMAIN seg : seg[k] = "="}
    IN  IF equals = {} THEN 0 ELSE Min(equals)

LEMMA FirstEquals ==
    ASSUME NEW seg \in Query
    PROVE  LET i == EqualsAt(seg)
           IN  /\ i \in 0..Len(seg) /\ (i # 0 => seg[i] = "=")
               /\ \A k \in 1..Len(seg) : seg[k] = "=" => i # 0
<1> DEFINE I == {k \in DOMAIN seg : seg[k] = "="}
           i == EqualsAt(seg)
<1>1. i = IF I = {} THEN 0 ELSE Min(I)
  BY Zenon DEF EqualsAt
<1>2. I \in SUBSET Nat /\ Len(seg) \in Nat /\ DOMAIN seg = 1..Len(seg)
  BY DEF Query
<1>3. CASE I = {}
  BY <1>1, <1>2, <1>3
<1>4. CASE I # {}
  <2>1. Min(I) \in I
    <3> HIDE DEF I
    <3>1. QED  BY <1>2, <1>4, MinIsLeast, Zenon
  <2>2. i = Min(I)
    BY <1>1, <1>4, Zenon
  <2>3. i \in 1..Len(seg) /\ seg[i] = "="
    BY <1>2, <2>1, <2>2
  <2>4. QED  BY <1>2, <2>3
<1>5. QED  BY <1>3, <1>4

\* A segment is read as a pair, and the segment of a pair as that pair.
LEMMA ParsePairTyped ==
    ASSUME NEW seg \in Query
    PROVE  parse_pair(seg) \in Pairs
<1> DEFINE i == EqualsAt(seg)
           a == SubSeq(seg, 1, i - 1)
           c == SubSeq(seg, i + 1, Len(seg))
<1>1. i \in 0..Len(seg) /\ Len(seg) \in Nat
  BY FirstEquals DEF Query
<1>2. parse_pair(seg) = IF i = 0 THEN <<Through(seg, Decode), <<>>>>
                        ELSE <<Through(a, Decode), Through(c, Decode)>>
  BY Zenon DEF parse_pair, EqualsAt
<1>3. <<>> \in Seq(Char)
  OBVIOUS
<1>4. CASE i = 0
  <2>1. Through(seg, Decode) \in Seq(Char)
    BY ThroughDecode, Zenon
  <2> DEFINE x == Through(seg, Decode)
             y == <<>>
  <2>2. parse_pair(seg) = <<x, y>>
    BY <1>2, <1>4, Zenon
  <2>3. x \in Seq(Char) /\ y \in Seq(Char)
    BY <1>3, <2>1, Zenon
  <2> HIDE DEF x, y
  <2>4. QED  BY <2>2, <2>3 DEF Pairs, Char
<1>5. CASE i # 0
  <2> HIDE DEF i
  <2>1. a \in Query /\ c \in Query
    BY <1>1, <1>5 DEF Query
  <2>2. Through(a, Decode) \in Seq(Char) /\ Through(c, Decode) \in Seq(Char)
    <3> HIDE DEF a, c
    <3>1. QED  BY <2>1, ThroughDecode, Zenon
  <2> HIDE DEF a, c
  <2>3. QED  BY <1>2, <1>5, <2>2 DEF Pairs, Char
<1>6. QED  BY <1>4, <1>5

LEMMA ParseSegment ==
    ASSUME NEW p \in Pairs
    PROVE  /\ Segment(p) \in Seq(Plain) /\ Segment(p) # <<>>
           /\ parse_pair(Segment(p)) = p
<1> DEFINE seg == Segment(p)
           i == EqualsAt(seg)
<1>1. PICK a \in Seq(Safe), c \in Seq(Safe) :
         /\ seg = a \o <<"=">> \o c
         /\ Through(a, Decode) = p[1] /\ Through(c, Decode) = p[2]
  BY SegmentShape, Zenon
<1>2. /\ seg \in Seq(Plain) /\ seg # <<>> /\ Len(seg) = Len(a) + 1 + Len(c)
      /\ \A k \in 1..Len(seg) : seg[k] = "=" <=> k = Len(a) + 1
      /\ SubSeq(seg, 1, Len(a)) = a /\ SubSeq(seg, Len(a) + 2, Len(seg)) = c
  <2>1. LET sg == a \o <<"=">> \o c
        IN  /\ sg \in Seq(Plain) /\ sg # <<>>
            /\ Len(sg) = Len(a) + 1 + Len(c)
            /\ \A k \in 1..Len(sg) : sg[k] = "=" <=> k = Len(a) + 1
            /\ SubSeq(sg, 1, Len(a)) = a
            /\ SubSeq(sg, Len(a) + 2, Len(sg)) = c
    BY SegmentParts, Zenon
  <2>2. QED  BY <1>1, <2>1, Zenon
<1> HIDE DEF seg
<1>3. seg \in Query
  BY <1>2 DEF Query, Plain
<1>4. /\ i \in 0..Len(seg) /\ (i # 0 => seg[i] = "=")
      /\ \A k \in 1..Len(seg) : seg[k] = "=" => i # 0
  BY <1>3, FirstEquals, Zenon
<1>5. parse_pair(seg) = IF i = 0 THEN <<Through(seg, Decode), <<>>>>
                        ELSE <<Through(SubSeq(seg, 1, i - 1), Decode),
                               Through(SubSeq(seg, i + 1, Len(seg)), Decode)>>
  BY Zenon DEF parse_pair, EqualsAt
<1> HIDE DEF i
<1>6. Len(a) \in Nat /\ Len(c) \in Nat
  OBVIOUS
<1>7. Len(a) + 1 \in 1..Len(seg)
  BY <1>2, <1>6
<1>8. i # 0 /\ i \in 1..Len(seg)
  BY <1>2, <1>4, <1>6, <1>7
<1>9. i = Len(a) + 1
  BY <1>2, <1>4, <1>8
<1>10. i - 1 = Len(a) /\ i + 1 = Len(a) + 2
  BY <1>6, <1>9
<1>11. parse_pair(seg) = <<p[1], p[2]>>
  BY <1>1, <1>2, <1>5, <1>8, <1>10, Zenon
<1>12. p = <<p[1], p[2]>>
  BY DEF Pairs
<1>13. QED  BY <1>2, <1>11, <1>12, Zenon DEF seg

\* A segment x goes to the last segment of what is split before it.
Extend(done, x) == [done EXCEPT ![Len(done)] = @ \o x]

LEMMA ExtendFacts ==
    ASSUME NEW done \in Segments
    PROVE  /\ Extend(done, <<>>) = done
           /\ \A x \in Query : \A t \in Plain :
                 SplitStep(Extend(done, x), t) = Extend(done, Append(x, t))
           /\ \A x \in Query : Extend(Append(done, <<>>), x) = Append(done, x)
<1>1. done \in Seq(Query) /\ Len(done) \in DOMAIN done /\ done[Len(done)] \in Query
  BY DEF Segments
<1> DEFINE m == Len(done)
           d == done[Len(done)]
<1>2. m \in 1..m /\ DOMAIN done = 1..m /\ m \in Nat
  BY <1>1
<1>3. d \o <<>> = d /\ \A x \in Query : \A t \in Plain : Append(d \o x, t) = d \o Append(x, t)
  BY <1>1, SMTT(30) DEF Query, Plain
<1>4. Extend(done, <<>>) = done
  <2>1. Extend(done, <<>>) = [done EXCEPT ![m] = d]
    BY <1>3, Zenon DEF Extend
  <2>2. QED  BY <1>1, <2>1
<1>5. ASSUME NEW x \in Query, NEW t \in Plain
      PROVE  SplitStep(Extend(done, x), t) = Extend(done, Append(x, t))
  <2> DEFINE e == Extend(done, x)
  <2>1. e = [k \in 1..m |-> IF k = m THEN d \o x ELSE done[k]]
    BY <1>2, Zenon DEF Extend
  <2>2. Len(e) = m /\ e[m] = d \o x /\ DOMAIN e = 1..m
    <3>1. DOMAIN e = 1..m /\ e[m] = d \o x
      BY <1>2, <2>1, Zenon
    <3> HIDE DEF e
    <3>2. QED  BY <1>2, <3>1
  <2>3. SplitStep(e, t) = [e EXCEPT ![Len(e)] = Append(@, t)]
    BY Zenon DEF SplitStep, Plain
  <2>4. SplitStep(e, t) = [k \in 1..m |-> IF k = m THEN Append(e[m], t) ELSE e[k]]
    <3> HIDE DEF e
    <3>1. QED  BY <2>2, <2>3, ZenonT(30)
  <2>5. SplitStep(e, t) = [k \in 1..m |-> IF k = m THEN d \o Append(x, t) ELSE done[k]]
    BY <1>3, <2>1, <2>2, <2>4, Zenon
  <2>6. Extend(done, Append(x, t)) = [k \in 1..m |-> IF k = m THEN d \o Append(x, t) ELSE done[k]]
    BY <1>2, Zenon DEF Extend
  <2>7. QED  BY <2>5, <2>6, Zenon
<1>6. ASSUME NEW x \in Query PROVE Extend(Append(done, <<>>), x) = Append(done, x)
  <2>1. <<>> \in Query /\ <<>> \o x = x
    BY DEF Query
  <2> DEFINE e == Append(done, <<>>)
             new == Extend(e, x)
  <2>2. e \in Seq(Query) /\ Len(e) = m + 1 /\ e[m + 1] = <<>> /\ \A k \in 1..m : e[k] = done[k]
    BY <1>1, <2>1
  <2> HIDE DEF e
  <2>3. new = [e EXCEPT ![m + 1] = x]
    BY <2>1, <2>2, Zenon DEF Extend
  <2>4. new \in Seq(Query) /\ Len(new) = m + 1 /\ new[m + 1] = x /\ \A k \in 1..m : new[k] = done[k]
    BY <1>2, <2>2, <2>3
  <2> HIDE DEF new
  <2>5. new = Append(done, x)
    BY <1>1, <1>2, <2>4
  <2>6. QED  BY <2>5 DEF new, e
<1>7. QED  BY <1>4, <1>5, <1>6

\* A segment after a separator, or at the start, becomes a segment of its own.
LEMMA SplitSegment ==
    ASSUME NEW x \in Seq(Plain)
    PROVE  /\ Split(x) = <<x>>
           /\ \A q \in Query : Split(Append(q, "&") \o x) = Append(Split(q), x)
<1>1. Seq(Plain) \subseteq Query
  BY DEF Query, Plain
<1>2. ASSUME NEW q \in Query, NEW y \in Seq(Plain)
      PROVE  Split(q \o y) = Extend(Split(q), y)
  <2> DEFINE T == {z \in Seq(Plain) : Split(q \o z) = Extend(Split(q), z)}
  <2>1. Split(q) \in Segments
    BY SplitFold, Zenon
  <2>2. <<>> \in T
    <3>1. <<>> \in Seq(Plain) /\ q \o <<>> = q
      BY DEF Query
    <3>2. QED  BY <2>1, <3>1, ExtendFacts, Zenon
  <2>3. ASSUME NEW z \in Seq(Plain), NEW t \in Plain, z \in T
        PROVE  Append(z, t) \in T
    <3>1. /\ Append(z, t) \in Seq(Plain) /\ q \o z \in Query
          /\ q \o Append(z, t) = Append(q \o z, t) /\ t \in Tokens /\ z \in Query
      BY <1>1 DEF Query, Plain
    <3>2. Split(Append(q \o z, t)) = SplitStep(Split(q \o z), t)
      BY <3>1, SplitFold, Zenon
    <3>3. SplitStep(Extend(Split(q), z), t) = Extend(Split(q), Append(z, t))
      BY <2>1, <3>1, ExtendFacts, Zenon
    <3>4. QED  BY <2>3, <3>1, <3>2, <3>3, Zenon
  <2>4. Seq(Plain) \subseteq T
    <3> HIDE DEF T
    <3>1. QED  BY <2>2, <2>3, SeqSetInduction, Zenon
  <2>5. QED  BY <2>4
<1>3. Split(x) = <<x>>
  <2>1. <<>> \in Query /\ <<>> \o x = x
    BY <1>1 DEF Query
  <2>2. Split(x) = Extend(<<<<>>>>, x)
    BY <1>2, <2>1, SplitFold, Zenon
  <2>3. Extend(<<<<>>>>, x) = <<x>>
    BY <2>1 DEF Extend
  <2>4. QED  BY <2>2, <2>3, Zenon
<1>4. ASSUME NEW q \in Query
      PROVE  Split(Append(q, "&") \o x) = Append(Split(q), x)
  <2>1. Append(q, "&") \in Query /\ "&" \in Tokens
    BY CharFacts DEF Query, Tokens, Char
  <2>2. Split(Append(q, "&")) = Append(Split(q), <<>>) /\ Split(q) \in Segments
    BY <2>1, SplitFold, Zenon DEF SplitStep
  <2>3. x \in Query
    BY <1>1
  <2>4. Split(Append(q, "&") \o x) = Extend(Append(Split(q), <<>>), x)
    BY <1>2, <2>1, <2>2, Zenon
  <2>5. QED  BY <2>2, <2>3, <2>4, ExtendFacts, Zenon
<1>5. QED  BY <1>3, <1>4

\* The serializer puts a separator before every segment but the first.
JoinStep(acc, p) == (IF acc = <<>> THEN acc ELSE Append(acc, "&")) \o Segment(p)

LEMMA JoinStepTyped ==
    ASSUME NEW acc \in Query, NEW p \in Pairs
    PROVE  JoinStep(acc, p) \in Query /\ JoinStep(acc, p) # <<>>
<1>1. Segment(p) \in Query /\ Segment(p) # <<>>
  BY ParseSegment DEF Query, Plain
<1>2. (IF acc = <<>> THEN acc ELSE Append(acc, "&")) \in Query
  BY CharFacts DEF Query, Tokens, Char
<1> HIDE DEF Query
<1>3. QED  BY <1>1, <1>2 DEF JoinStep, Query

LEMMA JoinFold ==
    /\ encode_pairs(<<>>) = <<>>
    /\ \A l \in Seq(Pairs) : encode_pairs(l) \in Query
    /\ \A l \in Seq(Pairs) : \A p \in Pairs :
          encode_pairs(Append(l, p)) = JoinStep(encode_pairs(l), p)
<1> DEFINE S == Query
           b == <<>>
           g == [x \in S |-> [e \in Pairs |-> JoinStep(x, e)]]
           Body(f) == [s \in Seq(Pairs) |->
                          IF s = <<>> THEN b ELSE JoinStep(f[Front(s)], Last(s))]
           F == CHOOSE f : f = Body(f)
<1>1. b \in S
  BY DEF Query
<1>2. \A x \in S : \A e \in Pairs : JoinStep(x, e) \in S
  BY JoinStepTyped, Zenon
<1>3. \A q : encode_pairs(q) = F[q]
  BY Zenon DEF encode_pairs, JoinStep, Front, Last
<1> HIDE DEF b, S
<1>4. \A x \in S : \A e \in Pairs : g[x][e] = JoinStep(x, e)
  BY Zenon
<1> HIDE DEF g
<1>5. StepsOver(Pairs, S, b, g)
  BY <1>1, <1>2, <1>4, Zenon DEF StepsOver
<1>6. PICK h : IsFold(h, Pairs, S, b, g)
  BY <1>5, FoldExists, Zenon
<1>7. h = Body(h)
  <2>1. ASSUME NEW s \in Seq(Pairs)
        PROVE  h[s] = IF s = <<>> THEN b ELSE JoinStep(h[Front(s)], Last(s))
    <3>1. CASE s = <<>>
      BY <1>6, <3>1, Zenon DEF IsFold
    <3>2. CASE s # <<>>
      <4>1. h[Front(s)] \in S /\ Last(s) \in Pairs /\ h[s] = g[h[Front(s)]][Last(s)]
        BY <1>5, <1>6, <3>2, FoldOfFront, SMTT(20)
      <4>2. QED  BY <1>4, <3>2, <4>1, Zenon
    <3>3. QED  BY <3>1, <3>2
  <2>2. h = [s \in Seq(Pairs) |-> h[s]]
    BY <1>6, Zenon DEF IsFold
  <2>3. QED  BY <2>1, <2>2, Zenon
<1>8. F = Body(F)
  BY <1>7, Zenon
<1> HIDE DEF F
<1>9. /\ F = [s \in Seq(Pairs) |-> F[s]]
      /\ \A s \in Seq(Pairs) :
            F[s] = IF s = <<>> THEN b ELSE JoinStep(F[Front(s)], Last(s))
  BY <1>8, Zenon
<1>10. F[<<>>] = b
  <2>1. <<>> \in Seq(Pairs)
    OBVIOUS
  <2>2. QED  BY <1>9, <2>1, Zenon
<1>11. ASSUME NEW s \in Seq(Pairs), NEW e \in Pairs
       PROVE  F[Append(s, e)] = JoinStep(F[s], e)
  <2>1. /\ Append(s, e) \in Seq(Pairs) /\ Append(s, e) # <<>>
        /\ Front(Append(s, e)) = s /\ Last(Append(s, e)) = e
    BY FrontOfAppend, Zenon
  <2>2. QED  BY <1>9, <2>1, Zenon
<1>12. IsFold(F, Pairs, S, b, g)
  BY <1>4, <1>9, <1>10, <1>11, Zenon DEF IsFold
<1>13. F \in [Seq(Pairs) -> S]
  BY <1>5, <1>12, FoldTyped, Zenon
<1>14. QED  BY <1>3, <1>10, <1>11, <1>13, Zenon DEF b, S

\* The query of a list splits into the segments of its pairs.
SegmentsOf(l) == [i \in DOMAIN l |-> Segment(l[i])]

LEMMA SegmentsOfAppend ==
    ASSUME NEW l \in Seq(Pairs), NEW p \in Pairs
    PROVE  /\ SegmentsOf(l) \in Seq(Seq(Plain)) /\ Len(SegmentsOf(l)) = Len(l)
           /\ SegmentsOf(Append(l, p)) = Append(SegmentsOf(l), Segment(p))
<1> DEFINE s == SegmentsOf(l)
           t == SegmentsOf(Append(l, p))
<1>1. Len(l) \in Nat /\ DOMAIN l = 1..Len(l) /\ \A i \in 1..Len(l) : l[i] \in Pairs
  OBVIOUS
<1>2. \A i \in 1..Len(l) : Segment(l[i]) \in Seq(Plain)
  BY <1>1, ParseSegment, Zenon
<1>3. s = [i \in 1..Len(l) |-> Segment(l[i])] /\ Segment(p) \in Seq(Plain)
  BY <1>1, ParseSegment, Zenon DEF SegmentsOf
<1>4. s \in [1..Len(l) -> Seq(Plain)]
  BY <1>2, <1>3, Zenon
<1>5. s \in Seq(Seq(Plain)) /\ Len(s) = Len(l)
  BY <1>1, <1>4
<1>6. /\ DOMAIN Append(l, p) = 1..(Len(l) + 1) /\ Append(l, p)[Len(l) + 1] = p
      /\ \A i \in 1..Len(l) : Append(l, p)[i] = l[i]
  OBVIOUS
<1>7. t = [i \in 1..(Len(l) + 1) |-> Segment(Append(l, p)[i])]
  BY <1>6, Zenon DEF SegmentsOf
<1>8. t = [i \in 1..(Len(l) + 1) |-> IF i <= Len(l) THEN s[i] ELSE Segment(p)]
  <2>1. ASSUME NEW i \in 1..(Len(l) + 1)
        PROVE  Segment(Append(l, p)[i]) = IF i <= Len(l) THEN s[i] ELSE Segment(p)
    <3>1. CASE i <= Len(l)
      <4>1. i \in 1..Len(l)
        BY <1>1, <3>1
      <4>2. QED  BY <1>3, <1>6, <3>1, <4>1, Zenon
    <3>2. CASE ~(i <= Len(l))
      <4>1. i = Len(l) + 1
        BY <1>1, <3>2
      <4>2. QED  BY <1>6, <3>2, <4>1, Zenon
    <3>3. QED  BY <3>1, <3>2
  <2>2. QED  BY <1>7, <2>1, Zenon
<1> HIDE DEF s, t
<1>9. t = Append(s, Segment(p))
  <2> DEFINE y == Segment(p)
             Z == Seq(Plain)
             n == Len(l)
  <2>1. /\ y \in Z /\ s \in Seq(Z) /\ Len(s) = n /\ n \in Nat
        /\ t = [i \in 1..(n + 1) |-> IF i <= n THEN s[i] ELSE y]
    BY <1>1, <1>3, <1>5, <1>8, Zenon
  <2> HIDE DEF y, Z, n
  <2>2. t = Append(s, y)
    <3>1. Append(s, y) = [i \in 1..(n + 1) |-> IF i <= n THEN s[i] ELSE y]
      <4> DEFINE a == Append(s, y)
      <4>1. /\ a \in Seq(Z) /\ Len(a) = n + 1 /\ a[n + 1] = y
            /\ \A i \in 1..n : a[i] = s[i]
        BY <2>1
      <4> HIDE DEF a
      <4>2. a = [i \in 1..(n + 1) |-> a[i]]
        BY <4>1
      <4>3. \A i \in 1..(n + 1) : a[i] = IF i <= n THEN s[i] ELSE y
        BY <2>1, <4>1
      <4>4. QED  BY <4>2, <4>3, Zenon DEF a
    <3>2. QED  BY <2>1, <3>1, Zenon
  <2>3. QED  BY <2>2 DEF y
<1>10. QED  BY <1>5, <1>9 DEF s, t

LEMMA SplitJoin ==
    ASSUME NEW l \in Seq(Pairs), l # <<>>
    PROVE  encode_pairs(l) # <<>> /\ Split(encode_pairs(l)) = SegmentsOf(l)
<1> DEFINE Good(s) == encode_pairs(s) # <<>> /\ Split(encode_pairs(s)) = SegmentsOf(s)
           T == {s \in Seq(Pairs) : s = <<>> \/ Good(s)}
<1>1. <<>> \in T
  OBVIOUS
<1>2. ASSUME NEW s \in Seq(Pairs), NEW p \in Pairs, s \in T PROVE Append(s, p) \in T
  <2> DEFINE q == encode_pairs(s)
             x == Segment(p)
             new == encode_pairs(Append(s, p))
  <2>1. q \in Query /\ new = JoinStep(q, p) /\ x \in Seq(Plain)
    BY JoinFold, ParseSegment, Zenon
  <2>2. new # <<>>
    BY <2>1, JoinStepTyped, Zenon
  <2>3. Append(s, p) \in Seq(Pairs)
    BY FrontOfAppend, Zenon
  <2>4. SegmentsOf(Append(s, p)) = Append(SegmentsOf(s), x)
    BY SegmentsOfAppend, Zenon
  <2>5. Split(new) = Append(SegmentsOf(s), x)
    <3>1. CASE s = <<>>
      <4>1. q = <<>> /\ new = <<>> \o x
        BY <2>1, <3>1, JoinFold, Zenon DEF JoinStep
      <4>2. <<>> \o x = x
        BY <2>1
      <4>3. Split(new) = <<x>>
        BY <2>1, <4>1, <4>2, SplitSegment, Zenon
      <4>4. SegmentsOf(s) = <<>>
        BY <3>1 DEF SegmentsOf
      <4>5. Append(<<>>, x) = <<x>>
        BY <2>1
      <4>6. QED  BY <4>3, <4>4, <4>5, Zenon
    <3>2. CASE s # <<>>
      <4>1. q # <<>> /\ Split(q) = SegmentsOf(s)
        BY <1>2, <3>2, Zenon
      <4>2. new = Append(q, "&") \o x
        BY <2>1, <4>1, Zenon DEF JoinStep
      <4>3. QED  BY <2>1, <4>1, <4>2, SplitSegment, Zenon
    <3>3. QED  BY <3>1, <3>2
  <2>6. QED  BY <2>2, <2>3, <2>4, <2>5, Zenon
<1>3. Seq(Pairs) \subseteq T
  <2> HIDE DEF T
  <2>1. QED  BY <1>1, <1>2, SeqSetInduction, Zenon
<1>4. QED  BY <1>3, Zenon

\* Parsing any query gives a list of pairs.
LEMMA ParseTyped ==
    ASSUME NEW q \in Query
    PROVE  parse(q) \in Seq(Pairs)
<1> DEFINE split == Split(q)
           segments == retain(split, {i \in DOMAIN split : split[i] # <<>>})
<1>1. split \in Seq(Query)
  BY SplitFold, Zenon DEF Segments
<1>2. segments \in Seq(Query)
  <2> HIDE DEF split
  <2>1. {i \in DOMAIN split : split[i] # <<>>} \in SUBSET DOMAIN split
    OBVIOUS
  <2>2. QED  BY <1>1, <2>1, RetainSelected, Zenon
<1>3. parse(q) = [i \in DOMAIN segments |-> parse_pair(segments[i])]
  BY Zenon DEF parse
<1> HIDE DEF segments
<1>4. /\ Len(segments) \in Nat /\ DOMAIN segments = 1..Len(segments)
      /\ \A i \in 1..Len(segments) : segments[i] \in Query
  <2> HIDE DEF Query
  <2>1. QED  BY <1>2
<1>5. \A i \in 1..Len(segments) : parse_pair(segments[i]) \in Pairs
  BY <1>4, ParsePairTyped, Zenon
<1>6. parse(q) \in [1..Len(segments) -> Pairs]
  BY <1>3, <1>4, <1>5, Zenon
<1>7. QED  BY <1>4, <1>6

\* Parsing the query of a list gives the list back, whatever characters its
\* names and values hold and however many pairs it has (url.rs:98-120).
THEOREM RoundTrip ==
    ASSUME NEW l \in Seq(Pairs)
    PROVE  parse(encode_pairs(l)) = l
<1> DEFINE q == encode_pairs(l)
           split == Split(q)
           segments == retain(split, {i \in DOMAIN split : split[i] # <<>>})
<1>1. parse(q) = [i \in DOMAIN segments |-> parse_pair(segments[i])]
  BY Zenon DEF parse
<1>2. CASE l = <<>>
  <2>1. split = <<<<>>>>
    BY <1>2, JoinFold, SplitFold, Zenon
  <2>2. <<<<>>>> \in Seq(Query)
    <3>1. <<>> \in Query
      BY DEF Query
    <3>2. QED  BY <3>1, SplitFold, Zenon DEF Segments
  <2>3. {i \in DOMAIN split : split[i] # <<>>} = {}
    BY <2>1
  <2>4. segments = <<>>
    BY <2>1, <2>2, <2>3, RetainAll, Zenon
  <2> HIDE DEF segments
  <2>5. QED  BY <1>1, <1>2, <2>4
<1>3. CASE l # <<>>
  <2>1. split = SegmentsOf(l)
    BY <1>3, SplitJoin, Zenon
  <2>2. /\ DOMAIN split = DOMAIN l /\ \A i \in DOMAIN l : l[i] \in Pairs
        /\ \A i \in DOMAIN l : split[i] = Segment(l[i])
    <3>1. \A i \in DOMAIN l : l[i] \in Pairs
      OBVIOUS
    <3>2. QED  BY <2>1, <3>1, Zenon DEF SegmentsOf
  <2>3. \A i \in DOMAIN l : split[i] # <<>> /\ parse_pair(split[i]) = l[i]
    BY <2>2, ParseSegment, Zenon
  <2>4. split \in Seq(Query)
    <3>1. encode_pairs(l) \in Query
      BY JoinFold, Zenon
    <3>2. QED  BY <3>1, SplitFold, Zenon DEF Segments
  <2> HIDE DEF split
  <2>5. {i \in DOMAIN split : split[i] # <<>>} = DOMAIN split
    BY <2>2, <2>3, Zenon
  <2>6. segments = split
    BY <2>4, <2>5, RetainAll, Zenon
  <2>7. parse(q) = [i \in DOMAIN l |-> l[i]]
    BY <1>1, <2>2, <2>3, <2>6, Zenon
  <2>8. l = [i \in DOMAIN l |-> l[i]]
    OBVIOUS
  <2>9. QED  BY <2>7, <2>8, Zenon
<1>4. QED  BY <1>2, <1>3

(***************************************************************************)
(* String::cmp and sort_by.                                                *)
(***************************************************************************)

\* At place i the names first differ, or m ends: m comes first.
DiffersAt(m, n, i) ==
    /\ i \in 1..Len(n) /\ i - 1 <= Len(m)
    /\ \A j \in 1..(i - 1) : m[j] = n[j]
    /\ i <= Len(m) => Code[m[i]] < Code[n[i]]

LEMMA BeforeIsDiffersAt ==
    ASSUME NEW m \in Seq(Char), NEW n \in Seq(Char)
    PROVE  Before(m, n) <=> \E i \in 1..Len(n) : DiffersAt(m, n, i)
<1>1. Len(m) \in Nat /\ Len(n) \in Nat /\ DOMAIN m = 1..Len(m) /\ DOMAIN n = 1..Len(n)
  OBVIOUS
<1>2. ASSUME Len(m) < Len(n), m = SubSeq(n, 1, Len(m))
      PROVE  DiffersAt(m, n, Len(m) + 1) /\ Len(m) + 1 \in 1..Len(n)
  <2>1. \A j \in 1..Len(m) : SubSeq(n, 1, Len(m))[j] = n[j]
    BY <1>1, <1>2
  <2>2. \A j \in 1..Len(m) : m[j] = n[j]
    BY <1>2, <2>1, Zenon
  <2>3. QED  BY <1>1, <1>2, <2>2 DEF DiffersAt
<1>3. ASSUME NEW i \in DOMAIN m \cap DOMAIN n,
             SubSeq(m, 1, i - 1) = SubSeq(n, 1, i - 1), Code[m[i]] < Code[n[i]]
      PROVE  DiffersAt(m, n, i) /\ i \in 1..Len(n)
  <2>1. i \in 1..Len(m) /\ i \in 1..Len(n)
    BY <1>1
  <2>2. \A j \in 1..(i - 1) : SubSeq(m, 1, i - 1)[j] = m[j] /\ SubSeq(n, 1, i - 1)[j] = n[j]
    BY <1>1, <2>1
  <2>3. \A j \in 1..(i - 1) : m[j] = n[j]
    BY <1>3, <2>2, Zenon
  <2>4. QED  BY <1>1, <1>3, <2>1, <2>3 DEF DiffersAt
<1>4. ASSUME NEW i \in 1..Len(n), DiffersAt(m, n, i) PROVE Before(m, n)
  <2>1. CASE i = Len(m) + 1
    <3>1. Len(m) < Len(n) /\ \A j \in 1..Len(m) : m[j] = n[j]
      BY <1>1, <1>4, <2>1 DEF DiffersAt
    <3>2. m = SubSeq(n, 1, Len(m))
      BY <1>1, <3>1
    <3>3. QED  BY <3>1, <3>2, Zenon DEF Before
  <2>2. CASE i # Len(m) + 1
    <3>1. i \in 1..Len(m) /\ Code[m[i]] < Code[n[i]] /\ \A j \in 1..(i - 1) : m[j] = n[j]
      BY <1>1, <1>4, <2>2 DEF DiffersAt
    <3>2. SubSeq(m, 1, i - 1) = SubSeq(n, 1, i - 1)
      BY <1>1, <3>1
    <3>3. i \in DOMAIN m \cap DOMAIN n
      BY <1>1, <3>1
    <3>4. QED  BY <3>1, <3>2, <3>3, Zenon DEF Before
  <2>3. QED  BY <2>1, <2>2
<1>5. ASSUME Before(m, n) PROVE \E i \in 1..Len(n) : DiffersAt(m, n, i)
  BY <1>2, <1>3, <1>5, Zenon DEF Before
<1>6. QED  BY <1>4, <1>5, Zenon

\* Different characters have different codes.
LEMMA CodeFacts ==
    /\ \A c \in Char : Code[c] \in Nat
    /\ \A c, d \in Char : Code[c] = Code[d] => c = d
<1>1. DOMAIN Chars = 1..8
  BY DEF Chars
<1>2. ASSUME NEW c \in Char PROVE Code[c] \in 1..8 /\ Chars[Code[c]] = c
  <2>1. PICK k \in 1..8 : c = Chars[k]
    BY <1>1, Zenon DEF Char, Range
  <2>2. Code[c] = k
    BY <2>1, Places, Zenon DEF Code, Char
  <2>3. QED  BY <2>1, <2>2, Zenon
<1>3. \A k \in 1..8 : k \in Nat
  OBVIOUS
<1>4. QED  BY <1>2, <1>3, Zenon

\* The order of names is total.
LEMMA BeforeTotal ==
    ASSUME NEW m \in Seq(Char), NEW n \in Seq(Char)
    PROVE  Before(m, n) \/ m = n \/ Before(n, m)
<1> DEFINE D == {i \in Nat : i \in 1..Len(m) /\ i \in 1..Len(n) /\ m[i] # n[i]}
<1>1. Len(m) \in Nat /\ Len(n) \in Nat
  OBVIOUS
<1>2. CASE D = {}
  <2>1. \A i \in 1..Len(m) : i <= Len(n) => m[i] = n[i]
    BY <1>1, <1>2
  <2>2. CASE Len(m) < Len(n)
    <3>1. DiffersAt(m, n, Len(m) + 1) /\ Len(m) + 1 \in 1..Len(n)
      BY <1>1, <2>1, <2>2 DEF DiffersAt
    <3>2. QED  BY <3>1, BeforeIsDiffersAt, Zenon
  <2>3. CASE Len(n) < Len(m)
    <3>1. DiffersAt(n, m, Len(n) + 1) /\ Len(n) + 1 \in 1..Len(m)
      BY <1>1, <2>1, <2>3 DEF DiffersAt
    <3>2. QED  BY <3>1, BeforeIsDiffersAt, Zenon
  <2>4. CASE Len(n) = Len(m)
    BY <1>1, <2>1, <2>4
  <2>5. QED  BY <1>1, <2>2, <2>3, <2>4
<1>3. CASE D # {}
  <2>1. PICK i \in D : \A k \in D : i <= k
    <3>1. D \in SUBSET Nat
      OBVIOUS
    <3> HIDE DEF D
    <3>2. QED  BY <1>3, <3>1, LeastNumber, Zenon
  <2>2. i \in 1..Len(m) /\ i \in 1..Len(n) /\ m[i] # n[i]
    OBVIOUS
  <2>3. \A j \in 1..(i - 1) : m[j] = n[j] /\ n[j] = m[j]
    BY <1>1, <2>1, <2>2
  <2>4. m[i] \in Char /\ n[i] \in Char
    BY <2>2
  <2>5. Code[m[i]] \in Nat /\ Code[n[i]] \in Nat /\ Code[m[i]] # Code[n[i]]
    BY <2>2, <2>4, CodeFacts, Zenon
  <2>6. CASE Code[m[i]] < Code[n[i]]
    <3>1. DiffersAt(m, n, i)
      BY <1>1, <2>2, <2>3, <2>6 DEF DiffersAt
    <3>2. QED  BY <2>2, <3>1, BeforeIsDiffersAt, Zenon
  <2>7. CASE Code[n[i]] < Code[m[i]]
    <3>1. DiffersAt(n, m, i)
      BY <1>1, <2>2, <2>3, <2>7 DEF DiffersAt
    <3>2. QED  BY <2>2, <3>1, BeforeIsDiffersAt, Zenon
  <2>8. QED  BY <2>5, <2>6, <2>7
<1>4. QED  BY <1>2, <1>3

\* and transitive.
LEMMA BeforeTransitive ==
    ASSUME NEW a \in Seq(Char), NEW b \in Seq(Char), NEW c \in Seq(Char),
           Before(a, b), Before(b, c)
    PROVE  Before(a, c)
<1>1. PICK i \in 1..Len(b) : DiffersAt(a, b, i)
  BY BeforeIsDiffersAt, Zenon
<1>2. PICK j \in 1..Len(c) : DiffersAt(b, c, j)
  BY BeforeIsDiffersAt, Zenon
<1>3. Len(a) \in Nat /\ Len(b) \in Nat /\ Len(c) \in Nat
  OBVIOUS
<1>4. \A k \in 1..Len(a) : Code[a[k]] \in Nat
  BY CodeFacts
<1>5. \A k \in 1..Len(b) : Code[b[k]] \in Nat
  BY CodeFacts
<1>6. \A k \in 1..Len(c) : Code[c[k]] \in Nat
  BY CodeFacts
<1>7. \E k \in 1..Len(c) : DiffersAt(a, c, k)
  <2>1. CASE i < j
    <3>1. i \in 1..Len(c) /\ b[i] = c[i]
      BY <1>2, <1>3, <2>1 DEF DiffersAt
    <3>2. DiffersAt(a, c, i)
      BY <1>1, <1>2, <1>3, <2>1, <3>1 DEF DiffersAt
    <3>3. QED  BY <3>1, <3>2, Zenon
  <2>2. CASE j < i
    <3>1. j \in 1..Len(b) /\ j \in 1..Len(a) /\ a[j] = b[j]
      BY <1>1, <1>3, <2>2 DEF DiffersAt
    <3>2. DiffersAt(a, c, j)
      BY <1>1, <1>2, <1>3, <2>2, <3>1 DEF DiffersAt
    <3>3. QED  BY <3>2, Zenon
  <2>3. CASE i = j
    <3>1. \A k \in 1..(i - 1) : a[k] = c[k]
      BY <1>1, <1>2, <1>3, <2>3 DEF DiffersAt
    <3>2. ASSUME i <= Len(a) PROVE Code[a[i]] < Code[c[i]]
      <4>1. i \in 1..Len(a) /\ i \in 1..Len(b) /\ i \in 1..Len(c)
        BY <1>3, <2>3, <3>2
      <4>2. Code[a[i]] < Code[b[i]]
        BY <1>1, <3>2, Zenon DEF DiffersAt
      <4>3. i <= Len(b)
        BY <1>3, <4>1
      <4>4. Code[b[i]] < Code[c[i]]
        BY <1>2, <2>3, <4>3, Zenon DEF DiffersAt
      <4>5. Code[a[i]] \in Nat /\ Code[b[i]] \in Nat /\ Code[c[i]] \in Nat
        BY <1>4, <1>5, <1>6, <4>1, Zenon
      <4>6. QED  BY <4>2, <4>4, <4>5
    <3>3. DiffersAt(a, c, i)
      BY <1>1, <1>3, <2>3, <3>1, <3>2 DEF DiffersAt
    <3>4. QED  BY <2>3, <3>3, Zenon
  <2>4. QED  BY <1>3, <2>1, <2>2, <2>3
<1>8. QED  BY <1>7, BeforeIsDiffersAt, Zenon

\* Where a pair goes among the sorted ones: the first place from which on it
\* precedes all.
Place(acc, p) ==
    Min({k \in 1..(Len(acc) + 1) : \A j \in k..Len(acc) : Before(p[1], acc[j][1])})

LEMMA PlaceFacts ==
    ASSUME NEW acc \in Seq(Pairs), NEW p \in Pairs
    PROVE  /\ Place(acc, p) \in 1..(Len(acc) + 1)
           /\ \A j \in Place(acc, p)..Len(acc) : Before(p[1], acc[j][1])
           /\ Place(acc, p) > 1 => ~Before(p[1], acc[Place(acc, p) - 1][1])
<1> DEFINE Later(k) == \A j \in k..Len(acc) : Before(p[1], acc[j][1])
           T == {k \in 1..(Len(acc) + 1) : Later(k)}
           m == Place(acc, p)
<1>1. Len(acc) \in Nat
  OBVIOUS
<1>2. Len(acc) + 1 \in T /\ T \in SUBSET Nat
  <2>1. (Len(acc) + 1)..Len(acc) = {} /\ Len(acc) + 1 \in 1..(Len(acc) + 1)
    BY <1>1
  <2>2. Later(Len(acc) + 1)
    BY <2>1, Zenon
  <2>3. T \in SUBSET Nat
    <3> HIDE DEF Later
    <3>1. QED  BY <1>1
  <2>4. QED  BY <2>1, <2>2, <2>3, Zenon
<1>3. m = Min(T)
  BY Zenon DEF Place
<1>4. m \in T /\ \A k \in T : m <= k
  <2> HIDE DEF T, m
  <2>1. QED  BY <1>2, <1>3, MinIsLeast, Zenon
<1>5. m \in 1..(Len(acc) + 1) /\ Later(m)
  <2> HIDE DEF Later, m
  <2>1. QED  BY <1>4, Zenon
<1>6. ASSUME m > 1, Before(p[1], acc[m - 1][1]) PROVE FALSE
  <2> HIDE DEF m
  <2>1. m - 1 \in 1..(Len(acc) + 1) /\ m \in Nat
    BY <1>1, <1>5, <1>6
  <2>2. \A j \in (m - 1)..Len(acc) : j = m - 1 \/ j \in m..Len(acc)
    BY <1>1, <2>1
  <2>3. Later(m - 1)
    BY <1>5, <1>6, <2>2, Zenon
  <2>4. m - 1 \in T
    BY <2>1, <2>3, Zenon
  <2>5. m <= m - 1
    BY <1>4, <2>4, Zenon
  <2>6. QED  BY <2>1, <2>5
<1>7. QED  BY <1>5, <1>6, Zenon

\* The list with the pair at its place.
InsertAt(acc, k, p) ==
    SubSeq(acc, 1, k - 1) \o <<p>> \o SubSeq(acc, k, Len(acc))

LEMMA InsertFacts ==
    ASSUME NEW A, NEW acc \in Seq(A), NEW p \in A, NEW k \in 1..(Len(acc) + 1)
    PROVE  LET new == InsertAt(acc, k, p)
           IN  /\ new \in Seq(A) /\ Len(new) = Len(acc) + 1
               /\ \A i \in 1..Len(new) :
                     new[i] = IF i < k THEN acc[i] ELSE IF i = k THEN p ELSE acc[i - 1]
<1> DEFINE x == SubSeq(acc, 1, k - 1)
           y == SubSeq(acc, k, Len(acc))
           new == InsertAt(acc, k, p)
<1>1. Len(acc) \in Nat /\ k \in Nat
  OBVIOUS
<1>2. x \in Seq(A) /\ Len(x) = k - 1 /\ \A i \in 1..(k - 1) : x[i] = acc[i]
  BY <1>1
<1>3. /\ y \in Seq(A) /\ Len(y) = Len(acc) - k + 1
      /\ \A i \in 1..(Len(acc) - k + 1) : y[i] = acc[k + i - 1]
  BY <1>1
<1>4. new = x \o <<p>> \o y
  BY Zenon DEF InsertAt
<1> HIDE DEF x, y
<1>5. x \o <<p>> = Append(x, p)
  BY <1>2
<1> DEFINE z == Append(x, p)
<1>6. z \in Seq(A) /\ Len(z) = k /\ z[k] = p /\ \A i \in 1..(k - 1) : z[i] = acc[i]
  BY <1>1, <1>2
<1>7. new = z \o y
  BY <1>4, <1>5, Zenon
<1> HIDE DEF z, new
<1>8. new \in Seq(A) /\ Len(new) = Len(acc) + 1
  BY <1>1, <1>3, <1>6, <1>7, SMTT(30)
<1>9. ASSUME NEW i \in 1..Len(new)
      PROVE  new[i] = IF i < k THEN acc[i] ELSE IF i = k THEN p ELSE acc[i - 1]
  <2>1. new[i] = IF i <= Len(z) THEN z[i] ELSE y[i - Len(z)]
    BY <1>3, <1>6, <1>7, <1>8
  <2>2. CASE i <= k
    BY <1>1, <1>6, <2>1, <2>2
  <2>3. CASE i > k
    <3>1. i - k \in 1..(Len(acc) - k + 1) /\ k + (i - k) - 1 = i - 1
      BY <1>1, <1>8, <2>3
    <3>2. new[i] = y[i - k]
      BY <1>1, <1>6, <2>1, <2>3
    <3>3. QED  BY <1>1, <1>3, <2>3, <3>1, <3>2
  <2>4. QED  BY <1>1, <2>2, <2>3
<1>10. QED  BY <1>8, <1>9 DEF new

\* F[n] is the first n pairs, sorted.
SortRun(F, l) ==
    /\ F \in [0..Len(l) -> Seq(Pairs)]
    /\ F[0] = <<>>
    /\ \A n \in 1..Len(l) : F[n] = InsertAt(F[n - 1], Place(F[n - 1], l[n]), l[n])

\* SortPairs goes through the list one pair at a time.
LEMMA SortSteps ==
    ASSUME NEW l \in Seq(Pairs)
    PROVE  \E F : SortRun(F, l) /\ SortPairs(l) = F[Len(l)]
<1> DEFINE L == Len(l)
           S == Seq(Pairs)
           b == <<>>
           Step(n, x) == InsertAt(x, Place(x, l[n]), l[n])
           g == [n \in 1..L |-> [x \in S |-> Step(n, x)]]
           Body(f) == [n \in 0..L |-> IF n = 0 THEN b ELSE Step(n, f[n - 1])]
           F == CHOOSE f : f = Body(f)
<1>1. L \in Nat
  OBVIOUS
<1>2. b \in S
  OBVIOUS
<1>3. \A n \in 1..L, x \in S : Step(n, x) \in S
  <2> SUFFICES ASSUME NEW n \in 1..L, NEW x \in S PROVE Step(n, x) \in S
    OBVIOUS
  <2>1. l[n] \in Pairs
    OBVIOUS
  <2>2. Place(x, l[n]) \in 1..(Len(x) + 1)
    BY <2>1, PlaceFacts, Zenon
  <2>3. QED  BY <2>1, <2>2, InsertFacts, Zenon
<1>4. SortPairs(l) = F[L]
  BY Zenon DEF SortPairs, Place, InsertAt
<1> HIDE DEF L, S, b, Step
<1>5. \A n \in 1..L, x \in S : g[n][x] = Step(n, x)
  BY Zenon
<1> HIDE DEF g
<1>6. Steps(L, S, b, g)
  BY <1>1, <1>2, <1>3, <1>5, Zenon DEF Steps
<1>7. PICK h : Follows(h, L, S, b, g)
  BY <1>6, RecursionExists, Zenon
<1>8. h = Body(h)
  <2>1. \A n \in 0..L : n # 0 => n \in 1..L /\ n - 1 \in 0..L
    BY <1>1
  <2>2. h \in [0..L -> S]
    BY <1>6, <1>7, RecursionTyped, Zenon
  <2>3. \A n \in 0..L : h[n] = IF n = 0 THEN b ELSE Step(n, h[n - 1])
    BY <1>5, <1>7, <2>1, <2>2, Zenon DEF Follows
  <2>4. QED  BY <1>7, <2>3, Zenon DEF Follows
<1>9. F = Body(F)
  BY <1>8, Zenon
<1> HIDE DEF F
<1>10. \A n \in 0..L : F[n] = IF n = 0 THEN b ELSE Step(n, F[n - 1])
  BY <1>9, Zenon
<1>11. 0 \in 0..L /\ \A n \in 1..L : n \in 0..L /\ n # 0
  BY <1>1
<1>12. F[0] = b /\ \A n \in 1..L : F[n] = Step(n, F[n - 1])
  BY <1>10, <1>11, Zenon
<1>13. Follows(F, L, S, b, g)
  BY <1>5, <1>9, <1>10, <1>12, Zenon DEF Follows
<1>14. F \in [0..L -> S]
  BY <1>6, <1>13, RecursionTyped, Zenon
<1>15. QED  BY <1>4, <1>12, <1>14, Zenon DEF L, S, b, Step, SortRun

\* acc is the first n pairs of l in the order of their names, and the pairs of
\* one name in their order; the pair at place i was at place from[i].
Ordered(l, n, acc, from) ==
    /\ from \in [1..n -> 1..n]
    /\ \A i \in 1..n : acc[i] = l[from[i]]
    /\ \A i, j \in 1..n : i < j =>
          \/ Before(acc[i][1], acc[j][1])
          \/ (acc[i][1] = acc[j][1] /\ from[i] < from[j])

\* The next pair at its place keeps the order.
LEMMA InsertKeepsOrder ==
    ASSUME NEW l \in Seq(Pairs), NEW n \in 1..Len(l), NEW acc \in Seq(Pairs),
           Len(acc) = n - 1, NEW from, Ordered(l, n - 1, acc, from)
    PROVE  LET new == InsertAt(acc, Place(acc, l[n]), l[n])
           IN  Len(new) = n /\ \E g : Ordered(l, n, new, g)
<1> DEFINE p == l[n]
           k == Place(acc, p)
           new == InsertAt(acc, k, p)
           Old(i) == IF i < k THEN i ELSE i - 1
           g == [i \in 1..n |-> IF i = k THEN n ELSE from[Old(i)]]
<1>1. p \in Pairs /\ p[1] \in Seq(Char) /\ n \in Nat /\ Len(acc) + 1 = n
  BY DEF Pairs, Char
<1>2. /\ k \in 1..n /\ \A j \in k..(n - 1) : Before(p[1], acc[j][1])
      /\ k > 1 => ~Before(p[1], acc[k - 1][1])
  <2> HIDE DEF p
  <2>1. /\ k \in 1..(Len(acc) + 1)
        /\ \A j \in k..Len(acc) : Before(p[1], acc[j][1])
        /\ k > 1 => ~Before(p[1], acc[k - 1][1])
    BY <1>1, PlaceFacts, Zenon
  <2> HIDE DEF k
  <2>2. QED  BY <1>1, <2>1, Zenon
<1> HIDE DEF k, p
<1>3. /\ Len(new) = n
      /\ \A i \in 1..n :
            new[i] = IF i < k THEN acc[i] ELSE IF i = k THEN p ELSE acc[i - 1]
  <2>1. /\ Len(new) = Len(acc) + 1
        /\ \A i \in 1..Len(new) :
              new[i] = IF i < k THEN acc[i] ELSE IF i = k THEN p ELSE acc[i - 1]
    <3>1. k \in 1..(Len(acc) + 1) /\ p \in Pairs
      BY <1>1, <1>2
    <3> HIDE DEF new
    <3>2. LET z == InsertAt(acc, k, p)
          IN  /\ z \in Seq(Pairs) /\ Len(z) = Len(acc) + 1
              /\ \A i \in 1..Len(z) :
                    z[i] = IF i < k THEN acc[i] ELSE IF i = k THEN p ELSE acc[i - 1]
      BY <3>1, InsertFacts, SMTT(20)
    <3>3. QED  BY <3>2, Zenon DEF new
  <2> HIDE DEF new
  <2>2. QED  BY <1>1, <2>1, Zenon
<1> HIDE DEF new
<1>4. \A i \in 1..n : i # k => Old(i) \in 1..(n - 1) /\ new[i] = acc[Old(i)]
  BY <1>1, <1>2, <1>3
<1>5. \A i, j \in 1..n : i # k /\ j # k /\ i < j => Old(i) < Old(j)
  BY <1>1, <1>2
<1>6. \A i \in 1..n : i < k => i = Old(i) /\ i # k
  BY <1>1, <1>2
<1>7. \A j \in 1..n : j > k => Old(j) \in k..(n - 1) /\ j # k
  BY <1>1, <1>2
<1> HIDE DEF Old
<1>8. g[k] = n /\ \A i \in 1..n : i # k => g[i] = from[Old(i)]
  BY <1>2, Zenon
<1>9. \A i \in 1..(n - 1) : from[i] \in 1..(n - 1) /\ acc[i] = l[from[i]]
  BY Zenon DEF Ordered
<1>10. g \in [1..n -> 1..n]
  <2>1. \A i \in 1..n : i # k => from[Old(i)] \in 1..(n - 1)
    BY <1>4, <1>9, Zenon
  <2>2. \A x \in 1..(n - 1) : x \in 1..n
    BY <1>1
  <2>3. n \in 1..n
    BY <1>1
  <2>4. QED  BY <2>1, <2>2, <2>3, Zenon
<1> HIDE DEF g
<1>11. \A i \in 1..n : new[i] = l[g[i]]
  <2>1. new[k] = p
    BY <1>1, <1>2, <1>3
  <2>2. new[k] = l[g[k]]
    BY <1>8, <2>1, Zenon DEF p
  <2>3. ASSUME NEW i \in 1..n, i # k PROVE new[i] = l[g[i]]
    <3>1. Old(i) \in 1..(n - 1) /\ new[i] = acc[Old(i)] /\ g[i] = from[Old(i)]
      BY <1>4, <1>8, <2>3, Zenon
    <3>2. acc[Old(i)] = l[from[Old(i)]]
      BY <1>9, <3>1, Zenon
    <3>3. QED  BY <3>1, <3>2, Zenon
  <2>4. QED  BY <2>2, <2>3, Zenon
<1>12. \A i \in 1..(n - 1) : acc[i] \in Pairs /\ acc[i][1] \in Seq(Char)
  <2>1. ASSUME NEW i \in 1..(n - 1) PROVE acc[i] \in Pairs
    BY <1>1
  <2>2. \A q \in Pairs : q[1] \in Seq(Char)
    BY DEF Pairs, Char
  <2>3. QED  BY <2>1, <2>2, Zenon
<1>13. ASSUME NEW i \in 1..(n - 1), i < k
       PROVE  Before(acc[i][1], p[1]) \/ acc[i][1] = p[1]
  <2>1. k - 1 \in 1..(n - 1) /\ k > 1
    BY <1>1, <1>2, <1>13
  <2>2. Before(acc[k - 1][1], p[1]) \/ acc[k - 1][1] = p[1]
    BY <1>1, <1>2, <1>12, <2>1, BeforeTotal, Zenon
  <2>3. CASE i = k - 1
    BY <2>2, <2>3, Zenon
  <2>4. CASE i # k - 1
    <3>1. i < k - 1
      BY <1>1, <1>2, <1>13, <2>4
    <3>2. Before(acc[i][1], acc[k - 1][1]) \/ acc[i][1] = acc[k - 1][1]
      BY <2>1, <3>1, Zenon DEF Ordered
    <3>3. QED  BY <1>1, <1>12, <2>1, <2>2, <3>2, BeforeTransitive, Zenon
  <2>5. QED  BY <2>3, <2>4
<1>14. ASSUME NEW i \in 1..n, NEW j \in 1..n, i < j
       PROVE  \/ Before(new[i][1], new[j][1])
              \/ (new[i][1] = new[j][1] /\ g[i] < g[j])
  <2>1. CASE i # k /\ j # k
    <3>1. Old(i) \in 1..(n - 1) /\ Old(j) \in 1..(n - 1) /\ Old(i) < Old(j)
      BY <1>4, <1>5, <1>14, <2>1, Zenon
    <3>2. \/ Before(acc[Old(i)][1], acc[Old(j)][1])
          \/ (acc[Old(i)][1] = acc[Old(j)][1] /\ from[Old(i)] < from[Old(j)])
      BY <3>1, Zenon DEF Ordered
    <3>3. QED  BY <1>4, <1>8, <2>1, <3>2, Zenon
  <2>2. CASE j = k
    <3>1. i < k /\ i # k /\ i = Old(i) /\ Old(i) \in 1..(n - 1)
      BY <1>4, <1>6, <1>14, <2>2, Zenon
    <3>2. new[i] = acc[i] /\ g[i] = from[i] /\ i \in 1..(n - 1)
      BY <1>4, <1>8, <3>1, Zenon
    <3>3. new[j] = p /\ g[j] = n
      <4>1. new[k] = p
        BY <1>1, <1>2, <1>3
      <4>2. QED  BY <1>8, <2>2, <4>1, Zenon
    <3>4. from[i] < n
      <4>1. from[i] \in 1..(n - 1)
        BY <1>9, <3>2, Zenon
      <4>2. QED  BY <1>1, <4>1
    <3>5. Before(acc[i][1], p[1]) \/ acc[i][1] = p[1]
      BY <1>13, <3>1, <3>2, Zenon
    <3>6. QED  BY <3>2, <3>3, <3>4, <3>5, Zenon
  <2>3. CASE i = k
    <3>1. j > k
      BY <1>1, <1>2, <1>14, <2>3
    <3>2. Old(j) \in k..(n - 1) /\ j # k
      BY <1>7, <3>1, Zenon
    <3>3. new[i] = p
      BY <1>1, <1>2, <1>3, <2>3
    <3>4. QED  BY <1>2, <1>4, <3>2, <3>3, Zenon
  <2>4. QED  BY <2>1, <2>2, <2>3
<1>15. Ordered(l, n, new, g)
  BY <1>10, <1>11, <1>14, Zenon DEF Ordered
<1>16. QED  BY <1>3, <1>15, Zenon DEF new, k, p

\* SortPairs sorts by name and is stable (url.rs:497-503).
LEMMA SortPairsSorts ==
    ASSUME NEW l \in Seq(Pairs)
    PROVE  SortPairs(l) \in Seq(Pairs) /\ Lists!SortedFrom(l, SortPairs(l))
<1>1. PICK F : SortRun(F, l) /\ SortPairs(l) = F[Len(l)]
  BY SortSteps, Zenon
<1> DEFINE L == Len(l)
           P == {n \in 0..L : Len(F[n]) = n /\ \E from : Ordered(l, n, F[n], from)}
<1>2. L \in Nat /\ DOMAIN l = 1..L /\ L \in 0..L
  OBVIOUS
<1>3. \A n \in 0..L : F[n] \in Seq(Pairs)
  BY <1>1, Zenon DEF SortRun
<1>4. 0 \in P
  <2>1. F[0] = <<>> /\ Len(F[0]) = 0 /\ 1..0 = {} /\ 0 \in 0..L
    BY <1>1, <1>2 DEF SortRun
  <2> DEFINE from == [i \in 1..0 |-> i]
  <2>2. from \in [1..0 -> 1..0]
    BY Zenon
  <2>3. Ordered(l, 0, F[0], from)
    <3> HIDE DEF from
    <3>1. QED  BY <2>1, <2>2, Zenon DEF Ordered
  <2>4. QED  BY <2>1, <2>3, Zenon
<1>5. ASSUME NEW n \in 1..L, n - 1 \in P PROVE n \in P
  <2>1. n \in 0..L /\ n - 1 \in 0..L
    BY <1>2
  <2>2. F[n - 1] \in Seq(Pairs) /\ Len(F[n - 1]) = n - 1
    BY <1>3, <1>5, <2>1, Zenon
  <2>3. PICK from : Ordered(l, n - 1, F[n - 1], from)
    BY <1>5, Zenon
  <2>4. F[n] = InsertAt(F[n - 1], Place(F[n - 1], l[n]), l[n])
    BY <1>1, Zenon DEF SortRun
  <2>5. LET new == InsertAt(F[n - 1], Place(F[n - 1], l[n]), l[n])
        IN  Len(new) = n /\ \E g : Ordered(l, n, new, g)
    BY <2>2, <2>3, InsertKeepsOrder, Zenon
  <2>6. QED  BY <2>1, <2>4, <2>5, Zenon
<1>6. 0..L \subseteq P
  <2> HIDE DEF P, L
  <2>1. QED  BY <1>2, <1>4, <1>5, UpToInduction, Zenon
<1>7. Len(F[L]) = L /\ \E from : Ordered(l, L, F[L], from)
  <2> HIDE DEF L
  <2>1. QED  BY <1>2, <1>6, Zenon
<1>8. PICK from : Ordered(l, L, F[L], from)
  BY <1>7
<1>9. F[L] \in Seq(Pairs) /\ DOMAIN F[L] = DOMAIN l
  <2>1. F[L] \in Seq(Pairs)
    BY <1>2, <1>3, Zenon
  <2>2. QED  BY <1>2, <1>7, <2>1
<1>10. Lists!SortedFrom(l, F[L])
  <2> HIDE DEF L
  <2>1. QED  BY <1>2, <1>8, <1>9, Zenon DEF Ordered, Lists!SortedFrom
<1>11. QED  BY <1>1, <1>9, <1>10, Zenon

-----------------------------------------------------------------------------
(* The methods compute what ParamList states.                                *)

LEMMA NamedPlaces ==
    ASSUME NEW l \in Seq(Pairs), NEW n
    PROVE  Named(l, n) = Lists!Places(l, n) /\ Named(l, n) \subseteq DOMAIN l
           /\ Named(l, n) \in SUBSET Nat
<1>1. Named(l, n) \subseteq DOMAIN l /\ Named(l, n) = Lists!Places(l, n)
  BY Zenon DEF Named, Lists!Places
<1>2. DOMAIN l \subseteq Nat
  OBVIOUS
<1>3. QED  BY <1>1, <1>2, Zenon

\* delete (url.rs:430-440).
LEMMA DeleteDeletes ==
    ASSUME NEW l \in Seq(Pairs), NEW n
    PROVE  LET new == retain(l, DOMAIN l \ Named(l, n))
           IN  new \in Seq(Pairs) /\ Lists!Deleted(l, n, new)
<1>1. DOMAIN l \ Named(l, n) \in SUBSET DOMAIN l
  BY Zenon
<1>2. QED  BY <1>1, NamedPlaces, RetainSelected, Zenon DEF Lists!Deleted

\* delete with a value (url.rs:430-440).
LEMMA DeletePairDeletes ==
    ASSUME NEW l \in Seq(Pairs), NEW n, NEW v
    PROVE  LET new == retain(l, {i \in DOMAIN l : l[i][1] # n \/ l[i][2] # v})
           IN  new \in Seq(Pairs) /\ Lists!DeletedPair(l, n, v, new)
<1> DEFINE kept == {i \in DOMAIN l : l[i][1] # n \/ l[i][2] # v}
<1>1. kept \in SUBSET DOMAIN l
  BY Zenon
<1>2. kept = {i \in DOMAIN l : l[i] # <<n, v>>}
  <2>1. \A p \in Pairs : p = <<n, v>> <=> p[1] = n /\ p[2] = v
    BY DEF Pairs
  <2>2. \A i \in DOMAIN l : l[i] \in Pairs
    OBVIOUS
  <2>3. QED  BY <2>1, <2>2, Zenon
<1> HIDE DEF kept
<1>3. retain(l, kept) \in Seq(Pairs) /\ Lists!DeletedPair(l, n, v, retain(l, kept))
  BY <1>1, <1>2, RetainSelected, Zenon DEF Lists!DeletedPair
<1>4. QED  BY <1>3 DEF kept

\* set (url.rs:471-495).
LEMMA SetSets ==
    ASSUME NEW l \in Seq(Pairs), NEW n, NEW v, <<n, v>> \in Pairs
    PROVE  SetPair(l, n, v) \in Seq(Pairs) /\ Lists!IsSet(l, n, v, SetPair(l, n, v))
<1> DEFINE named == Named(l, n)
           first == Min(named)
           x == [l EXCEPT ![first] = <<n, v>>]
           kept == (DOMAIN l \ named) \cup {first}
<1>1. named = Lists!Places(l, n) /\ named \subseteq DOMAIN l /\ named \in SUBSET Nat
  BY NamedPlaces, Zenon
<1>2. CASE named = {}
  <2>1. SetPair(l, n, v) = Append(l, <<n, v>>)
    BY <1>2, Zenon DEF SetPair
  <2>2. Append(l, <<n, v>>) \in Seq(Pairs)
    OBVIOUS
  <2> HIDE DEF named
  <2>3. QED  BY <1>1, <1>2, <2>1, <2>2, Zenon DEF Lists!IsSet, Lists!Appended
<1>3. CASE named # {}
  <2>1. SetPair(l, n, v) = retain(x, kept)
    BY <1>3, Zenon DEF SetPair
  <2> HIDE DEF named
  <2>2. first \in named /\ \A k \in named : first <= k
    BY <1>1, <1>3, MinIsLeast, Zenon
  <2> HIDE DEF first
  <2>3. first \in DOMAIN l
    BY <1>1, <2>2, Zenon
  <2>4. x \in Seq(Pairs) /\ DOMAIN x = DOMAIN l
    BY <2>3
  <2> HIDE DEF x
  <2>5. kept \in SUBSET DOMAIN x
    BY <2>3, <2>4, Zenon
  <2> HIDE DEF kept
  <2>6. retain(x, kept) \in Seq(Pairs) /\ Lists!Selected(x, kept, retain(x, kept))
    BY <2>4, <2>5, RetainSelected, Zenon
  <2>7. Lists!IsFirst(first, Lists!Places(l, n))
    BY <1>1, <2>2, Zenon DEF Lists!IsFirst
  <2>8. Lists!IsSet(l, n, v, retain(x, kept))
    BY <1>1, <2>3, <2>6, <2>7, Zenon DEF Lists!IsSet, x, kept
  <2>9. QED  BY <2>1, <2>6, <2>8, Zenon
<1>4. QED  BY <1>2, <1>3

\* getAll (url.rs:451-458).
LEMMA GetAllSelects ==
    ASSUME NEW l \in Seq(Pairs), NEW n
    PROVE  LET named == retain(l, Named(l, n))
           IN  Lists!Selected([i \in DOMAIN l |-> l[i][2]], Lists!Places(l, n),
                              [i \in DOMAIN named |-> named[i][2]])
<1> DEFINE places == Lists!Places(l, n)
           named == retain(l, Named(l, n))
           values == [i \in DOMAIN l |-> l[i][2]]
           answer == [i \in DOMAIN named |-> named[i][2]]
<1>1. Named(l, n) = places /\ places \in SUBSET DOMAIN l
  BY NamedPlaces, Zenon
<1>2. Lists!Selected(l, places, named)
  BY <1>1, RetainSelected, Zenon
<1> HIDE DEF places, named
<1>3. PICK from \in [DOMAIN named -> places] :
        /\ \A i, j \in DOMAIN named : i < j => from[i] < from[j]
        /\ \A k \in places : \E i \in DOMAIN named : from[i] = k
        /\ \A i \in DOMAIN named : named[i] = l[from[i]]
  BY <1>2, Zenon DEF Lists!Selected
<1>4. DOMAIN answer = DOMAIN named
  BY Zenon
<1>5. \A i \in DOMAIN named : answer[i] = values[from[i]]
  <2>1. \A i \in DOMAIN named : from[i] \in DOMAIN l
    BY <1>1, <1>3, Zenon
  <2>2. \A i \in DOMAIN named : answer[i] = named[i][2]
    BY Zenon
  <2>3. \A i \in DOMAIN l : values[i] = l[i][2]
    BY Zenon
  <2>4. QED  BY <1>3, <2>1, <2>2, <2>3, Zenon
<1> HIDE DEF answer, values
<1>6. Lists!Selected(values, places, answer)
  <2>1. /\ from \in [DOMAIN answer -> places]
        /\ \A i, j \in DOMAIN answer : i < j => from[i] < from[j]
        /\ \A k \in places : \E i \in DOMAIN answer : from[i] = k
        /\ \A i \in DOMAIN answer : answer[i] = values[from[i]]
    <3> DEFINE D == DOMAIN answer
    <3>1. D = DOMAIN named
      BY <1>4
    <3> HIDE DEF D
    <3>2. QED  BY <1>3, <1>5, <3>1, SMT DEF D
  <2>2. QED  BY <2>1, Zenon DEF Lists!Selected
<1>7. QED  BY <1>6 DEF answer, values, named, places

-----------------------------------------------------------------------------
(* The texts of the script.                                                  *)

LEMMA NoQueryApart == NoQuery \notin Query
<1>1. SUFFICES ASSUME NoQuery \in Query PROVE FALSE
  OBVIOUS
<1>2. "none" \in Tokens
  BY <1>1 DEF NoQuery, Query
<1>3. QED  BY <1>2, CharFacts, Zenon

LEMMA TextFacts ==
    ASSUME NEW text \in Searches
    PROVE  strip_prefix(text) \in Query /\ QueryText(strip_prefix(text)) \in Query
<1>1. text \in Query
  BY ParamsAssumption, Zenon DEF Query
<1>2. strip_prefix(text) \in Query
  <2>1. CASE text = <<>>
    BY <1>1, <2>1, Zenon DEF strip_prefix
  <2>2. CASE text # <<>>
    <3>1. Tail(text) \in Query
      BY <1>1, <2>2 DEF Query
    <3>2. QED  BY <1>1, <3>1, Zenon DEF strip_prefix
  <2>3. QED  BY <2>1, <2>2
<1> DEFINE s == strip_prefix(text)
<1>3. QueryText(s) \in Query
  <2> HIDE DEF s
  <2>1. s \in Seq(Tokens)
    BY <1>2, Zenon DEF Query, s
  <2>2. "%20" \in Tokens
    BY CharFacts, Zenon DEF Tokens
  <2>3. QED  BY <2>1, <2>2 DEF QueryText, Query
<1>4. QED  BY <1>2, <1>3

LEMMA ScriptPairs ==
    ASSUME NEW n \in Names, NEW v \in Values
    PROVE  <<n, v>> \in Pairs
BY ParamsAssumption DEF Pairs

-----------------------------------------------------------------------------
(* The invariant and the theorems.                                           *)

\* Every list is a list of pairs, every query one of tokens, an object holds
\* its own list or a URL, and what the script last left in a URL is what its
\* query parses to.
PairsInv ==
    /\ lists \in [Urls \cup Objs -> Seq(Pairs)]
    /\ query \in [Urls -> Query \cup {NoQuery}]
    /\ backing \in [Objs -> Urls \cup Objs \cup {"none"}]
    /\ \A o \in Objs : backing[o] \in Urls \cup {o, "none"}
    /\ QueryHoldsList

\* A write leaves a canonical query.
Canonical ==
    /\ rest' = rest
    /\ \A u \in Urls : query'[u] # query[u] =>
          \/ query'[u] = NoQuery
          \/ (query'[u] # <<>> /\ query'[u] = encode_pairs(parse(query'[u])))

LEMMA CalledFields ==
    ASSUME NEW op, NEW o, NEW n, NEW v, NEW answer, Called(op, o, n, v, answer)
    PROVE  /\ last'.op = op /\ last'.obj = o /\ last'.name = n /\ last'.value = v
           /\ last'.answer = answer /\ last' = Lists!Call(op, o, n, v, answer)
BY DEF Called, Lists!Call

\* What a method works on is the list of its object.
LEMMA SnapshotIsList ==
    ASSUME PairsInv, NEW o \in Objs, backing[o] # "none"
    PROVE  /\ backing[o] \in Urls \cup Objs
           /\ snapshot_pairs(o) = lists[backing[o]]
           /\ lists[backing[o]] \in Seq(Pairs)
<1>1. backing[o] \in Urls \/ (backing[o] \notin Urls /\ backing[o] = o)
  BY Zenon DEF PairsInv
<1>2. backing[o] \in Urls \cup Objs
  BY <1>1, Zenon
<1>3. snapshot_pairs(o) = lists[backing[o]]
  BY <1>1, Zenon DEF PairsInv, snapshot_pairs, QueryHoldsList
<1>4. QED  BY <1>2, <1>3, Zenon DEF PairsInv

\* with_pairs (url.rs:122-133) replaces one list and no other, and keeps the
\* invariant.
LEMMA WithPairsKeeps ==
    ASSUME PairsInv, NEW o \in Objs, NEW pairs \in Seq(Pairs), with_pairs(o, pairs)
    PROVE  /\ PairsInv' /\ Canonical
           /\ lists'[backing[o]] = pairs /\ backing' = backing
           /\ \A t \in (Urls \cup Objs) \ {backing[o]} : lists'[t] = lists[t]
<1> DEFINE b == backing[o]
<1>1. b # "none" /\ lists' = [lists EXCEPT ![b] = pairs] /\ rest' = rest /\ backing' = backing
  BY Zenon DEF with_pairs
<1>2. b \in Urls \cup Objs
  BY <1>1, SnapshotIsList, Zenon
<1>3. lists \in [Urls \cup Objs -> Seq(Pairs)] /\ query \in [Urls -> Query \cup {NoQuery}]
  BY Zenon DEF PairsInv
<1>4. CASE b \in Urls
  <2> DEFINE q == IF pairs = <<>> THEN NoQuery ELSE encode_pairs(pairs)
  <2>1. query' = [query EXCEPT ![b] = q]
    BY <1>4, Zenon DEF with_pairs, write_query_pairs
  <2>2. \/ (pairs = <<>> /\ q = NoQuery)
        \/ (q = encode_pairs(pairs) /\ q \in Query /\ q # <<>> /\ q # NoQuery /\ parse(q) = pairs)
    <3>1. CASE pairs = <<>>
      BY <3>1, Zenon
    <3>2. CASE pairs # <<>>
      <4>1. q = encode_pairs(pairs)
        BY <3>2, Zenon
      <4> HIDE DEF q
      <4>2. q \in Query /\ q # <<>>
        BY <3>2, <4>1, JoinFold, SplitJoin, Zenon
      <4>3. parse(q) = pairs
        BY <4>1, RoundTrip, Zenon
      <4>4. QED  BY <4>1, <4>2, <4>3, NoQueryApart, Zenon
    <3>3. QED  BY <3>1, <3>2
  <2> HIDE DEF q, b
  <2>3. /\ query' \in [Urls -> Query \cup {NoQuery}]
        /\ query'[b] = q /\ \A u \in Urls : u # b => query'[u] = query[u]
    <3>1. q \in Query \cup {NoQuery}
      BY <2>2, Zenon
    <3>2. QED  BY <1>3, <1>4, <2>1, <3>1, Zenon
  <2>4. /\ lists' \in [Urls \cup Objs -> Seq(Pairs)]
        /\ lists'[b] = pairs /\ \A t \in (Urls \cup Objs) \ {b} : lists'[t] = lists[t]
    BY <1>1, <1>2, <1>3, Zenon
  <2>5. QueryHoldsList'
    <3>1. ASSUME NEW u \in Urls PROVE read_query_pairs(u)' = lists'[u]
      <4>1. CASE u = b
        BY <2>2, <2>3, <2>4, <4>1, Zenon DEF read_query_pairs
      <4>2. CASE u # b
        <5>1. read_query_pairs(u) = lists[u] /\ u \in (Urls \cup Objs) \ {b}
          BY <4>2, Zenon DEF PairsInv, QueryHoldsList
        <5>2. QED  BY <2>3, <2>4, <4>2, <5>1, Zenon DEF read_query_pairs
      <4>3. QED  BY <4>1, <4>2
    <3>2. QED  BY <3>1, Zenon DEF QueryHoldsList
  <2>6. PairsInv'
    <3>1. /\ backing' \in [Objs -> Urls \cup Objs \cup {"none"}]
          /\ \A p \in Objs : backing'[p] \in Urls \cup {p, "none"}
      BY <1>1, Zenon DEF PairsInv
    <3>2. QED  BY <2>3, <2>4, <2>5, <3>1, Zenon DEF PairsInv
  <2>7. Canonical
    <3>1. ASSUME NEW u \in Urls, query'[u] # query[u]
          PROVE  \/ query'[u] = NoQuery
                 \/ (query'[u] # <<>> /\ query'[u] = encode_pairs(parse(query'[u])))
      <4>1. query'[u] = q
        BY <2>3, <3>1, Zenon
      <4>2. QED  BY <2>2, <4>1, Zenon
    <3>2. QED  BY <1>1, <3>1, Zenon DEF Canonical
  <2>8. QED  BY <1>1, <2>4, <2>6, <2>7, Zenon DEF b
<1>5. CASE b \notin Urls
  <2>1. query' = query
    BY <1>5, Zenon DEF with_pairs
  <2> HIDE DEF b
  <2>2. /\ lists' \in [Urls \cup Objs -> Seq(Pairs)]
        /\ lists'[b] = pairs /\ \A t \in (Urls \cup Objs) \ {b} : lists'[t] = lists[t]
    BY <1>1, <1>2, <1>3, Zenon
  <2>3. QueryHoldsList'
    <3>1. ASSUME NEW u \in Urls PROVE read_query_pairs(u)' = lists'[u]
      <4>1. read_query_pairs(u) = lists[u] /\ u \in (Urls \cup Objs) \ {b}
        BY <1>5, Zenon DEF PairsInv, QueryHoldsList
      <4>2. QED  BY <2>1, <2>2, <4>1, Zenon DEF read_query_pairs
    <3>2. QED  BY <3>1, Zenon DEF QueryHoldsList
  <2>4. PairsInv'
    <3>1. /\ backing' \in [Objs -> Urls \cup Objs \cup {"none"}]
          /\ \A p \in Objs : backing'[p] \in Urls \cup {p, "none"}
      BY <1>1, Zenon DEF PairsInv
    <3>2. query' \in [Urls -> Query \cup {NoQuery}]
      BY <1>3, <2>1, Zenon
    <3>3. QED  BY <2>2, <2>3, <3>1, <3>2, Zenon DEF PairsInv
  <2>5. Canonical
    BY <1>1, <2>1, Zenon DEF Canonical
  <2>6. QED  BY <1>1, <2>2, <2>4, <2>5, Zenon DEF b
<1>6. QED  BY <1>4, <1>5

\* What every step must do: keep the invariant, leave a canonical query behind
\* unless the script assigns to a URL, and be a step of ParamList.
Good ==
    /\ PairsInv'
    /\ (query' # query /\ last'.op # "assign") => Canonical
    /\ Lists!Next

LEMMA NothingNew ==
    ASSUME PairsInv, UNCHANGED <<query, lists, backing>>
    PROVE  PairsInv'
<1>1. QueryHoldsList'
  BY Zenon DEF PairsInv, QueryHoldsList, read_query_pairs
<1>2. QED  BY <1>1, Zenon DEF PairsInv

\* A method that writes: its list becomes what ParamList states.
LEMMA ChangeGood ==
    ASSUME PairsInv, NEW o \in Objs, NEW pairs \in Seq(Pairs), with_pairs(o, pairs),
           last'.obj = o, Lists!Changed(last', lists[backing[o]], pairs)
    PROVE  Good
<1>1. /\ PairsInv' /\ Canonical
      /\ lists'[backing[o]] = pairs /\ backing' = backing
      /\ \A t \in (Urls \cup Objs) \ {backing[o]} : lists'[t] = lists[t]
  BY WithPairsKeeps, Zenon
<1>2. backing[o] # "none"
  BY Zenon DEF with_pairs
<1>3. Lists!Changed(last', lists[backing[o]], lists'[backing[o]])
  BY <1>1, Zenon
<1>4. Lists!Change
  BY <1>1, <1>2, <1>3, Zenon DEF Lists!Change
<1>5. QED  BY <1>1, <1>4, Zenon DEF Good, Lists!Next

LEMMA AppendGood ==
    ASSUME PairsInv, NEW o \in Objs, NEW n \in Names, NEW v \in Values, params_append(o, n, v)
    PROVE  Good
<1> DEFINE l == lists[backing[o]]
           new == Append(l, <<n, v>>)
<1>1. backing[o] # "none"
  BY Zenon DEF params_append, with_pairs
<1>2. l \in Seq(Pairs) /\ snapshot_pairs(o) = l
  BY <1>1, SnapshotIsList, Zenon
<1>3. with_pairs(o, new)
  BY <1>2, Zenon DEF params_append
<1>4. last'.op = "append" /\ last'.obj = o /\ last'.name = n /\ last'.value = v
  BY CalledFields, Zenon DEF params_append
<1>5. new \in Seq(Pairs)
  <2> HIDE DEF l
  <2>1. QED  BY <1>2, ScriptPairs
<1>6. Lists!Changed(last', l, new)
  BY <1>4, Zenon DEF Lists!Changed, Lists!Appended
<1>7. QED  BY <1>3, <1>4, <1>5, <1>6, ChangeGood, Zenon

LEMMA DeleteGood ==
    ASSUME PairsInv, NEW o \in Objs, NEW n \in Names, params_delete(o, n)
    PROVE  Good
<1> DEFINE l == lists[backing[o]]
           new == retain(l, DOMAIN l \ Named(l, n))
<1>1. backing[o] # "none"
  BY Zenon DEF params_delete, with_pairs
<1>2. l \in Seq(Pairs) /\ snapshot_pairs(o) = l
  BY <1>1, SnapshotIsList, Zenon
<1>3. with_pairs(o, new)
  BY <1>2, Zenon DEF params_delete
<1>4. last'.op = "delete" /\ last'.obj = o /\ last'.name = n
  BY CalledFields, Zenon DEF params_delete
<1>5. new \in Seq(Pairs) /\ Lists!Deleted(l, n, new)
  BY <1>2, DeleteDeletes, Zenon
<1>6. Lists!Changed(last', l, new)
  <2> HIDE DEF new
  <2>1. QED  BY <1>4, <1>5, Zenon DEF Lists!Changed
<1>7. QED  BY <1>3, <1>4, <1>5, <1>6, ChangeGood, Zenon

LEMMA DeletePairGood ==
    ASSUME PairsInv, NEW o \in Objs, NEW n \in Names, NEW v \in Values, params_delete_pair(o, n, v)
    PROVE  Good
<1> DEFINE l == lists[backing[o]]
           new == retain(l, {i \in DOMAIN l : l[i][1] # n \/ l[i][2] # v})
<1>1. backing[o] # "none"
  BY Zenon DEF params_delete_pair, with_pairs
<1>2. l \in Seq(Pairs) /\ snapshot_pairs(o) = l
  BY <1>1, SnapshotIsList, Zenon
<1>3. with_pairs(o, new)
  BY <1>2, Zenon DEF params_delete_pair
<1>4. last'.op = "deletePair" /\ last'.obj = o /\ last'.name = n /\ last'.value = v
  BY CalledFields, Zenon DEF params_delete_pair
<1>5. new \in Seq(Pairs) /\ Lists!DeletedPair(l, n, v, new)
  BY <1>2, DeletePairDeletes, Zenon
<1>6. Lists!Changed(last', l, new)
  <2> HIDE DEF new
  <2>1. QED  BY <1>4, <1>5, Zenon DEF Lists!Changed
<1>7. QED  BY <1>3, <1>4, <1>5, <1>6, ChangeGood, Zenon

LEMMA SetGood ==
    ASSUME PairsInv, NEW o \in Objs, NEW n \in Names, NEW v \in Values, params_set(o, n, v)
    PROVE  Good
<1> DEFINE l == lists[backing[o]]
           new == SetPair(l, n, v)
<1>1. backing[o] # "none"
  BY Zenon DEF params_set, with_pairs
<1>2. l \in Seq(Pairs) /\ snapshot_pairs(o) = l
  BY <1>1, SnapshotIsList, Zenon
<1>3. with_pairs(o, new)
  BY <1>2, Zenon DEF params_set
<1>4. last'.op = "set" /\ last'.obj = o /\ last'.name = n /\ last'.value = v
  BY CalledFields, Zenon DEF params_set
<1>5. new \in Seq(Pairs) /\ Lists!IsSet(l, n, v, new)
  BY <1>2, ScriptPairs, SetSets, Zenon
<1>6. Lists!Changed(last', l, new)
  <2> HIDE DEF new
  <2>1. QED  BY <1>4, <1>5, Zenon DEF Lists!Changed
<1>7. QED  BY <1>3, <1>4, <1>5, <1>6, ChangeGood, Zenon

LEMMA SortGood ==
    ASSUME PairsInv, NEW o \in Objs, params_sort(o)
    PROVE  Good
<1> DEFINE l == lists[backing[o]]
           new == SortPairs(l)
<1>1. backing[o] # "none"
  BY Zenon DEF params_sort, with_pairs
<1>2. l \in Seq(Pairs) /\ snapshot_pairs(o) = l
  BY <1>1, SnapshotIsList, Zenon
<1>3. with_pairs(o, new)
  BY <1>2, Zenon DEF params_sort
<1>4. last'.op = "sort" /\ last'.obj = o
  BY CalledFields, Zenon DEF params_sort
<1>5. new \in Seq(Pairs) /\ Lists!SortedFrom(l, new)
  BY <1>2, SortPairsSorts, Zenon
<1>6. Lists!Changed(last', l, new)
  <2> HIDE DEF new
  <2>1. QED  BY <1>4, <1>5, Zenon DEF Lists!Changed
<1>7. QED  BY <1>3, <1>4, <1>5, <1>6, ChangeGood, Zenon

LEMMA AskGood ==
    ASSUME PairsInv, NEW o \in Objs, NEW n \in Names, Ask(o, n)
    PROVE  Good
<1> DEFINE l == lists[backing[o]]
           places == Lists!Places(l, n)
<1>1. backing[o] # "none" /\ UNCHANGED <<rest, query, lists, backing>>
  BY Zenon DEF Ask
<1>2. l \in Seq(Pairs) /\ snapshot_pairs(o) = l
  BY <1>1, SnapshotIsList, Zenon
<1>3. Named(l, n) = places /\ places \in SUBSET Nat
  BY <1>2, NamedPlaces, Zenon
<1>4. CASE Called("getAll", o, n, <<>>, params_get_all(o, n))
  <2> DEFINE answer == params_get_all(o, n)
  <2>1. last'.op = "getAll" /\ last'.obj = o /\ last'.name = n /\ last'.answer = answer
    BY <1>4, CalledFields, Zenon
  <2>2. Lists!Selected([i \in DOMAIN l |-> l[i][2]], places, answer)
    BY <1>2, GetAllSelects, Zenon DEF params_get_all
  <2> HIDE DEF answer
  <2>3. Lists!Ask
    BY <1>1, <2>1, <2>2, Zenon DEF Lists!Ask
  <2>4. QED  BY <1>1, <2>3, NothingNew, Zenon DEF Good, Lists!Next
<1>5. CASE Called("get", o, n, <<>>, params_get(o, n))
  <2> DEFINE answer == params_get(o, n)
  <2>1. last'.op = "get" /\ last'.obj = o /\ last'.name = n /\ last'.answer = answer
    BY <1>5, CalledFields, Zenon
  <2>2. answer = IF places = {} THEN <<>> ELSE <<l[Min(places)][2]>>
    <3> HIDE DEF places
    <3>1. QED  BY <1>2, <1>3, Zenon DEF params_get
  <2>3. \/ (places = {} /\ answer = <<>>)
        \/ \E k \in places : Lists!IsFirst(k, places) /\ answer = <<l[k][2]>>
    <3> HIDE DEF answer, places, l
    <3>1. CASE places = {}
      BY <2>2, <3>1, Zenon
    <3>2. CASE places # {}
      <4>1. Min(places) \in places /\ \A k \in places : Min(places) <= k
        BY <1>3, <3>2, MinIsLeast, Zenon
      <4>2. QED  BY <2>2, <3>2, <4>1, Zenon DEF Lists!IsFirst
    <3>3. QED  BY <3>1, <3>2
  <2> HIDE DEF answer
  <2>4. Lists!Ask
    BY <1>1, <2>1, <2>3, Zenon DEF Lists!Ask
  <2>5. QED  BY <1>1, <2>4, NothingNew, Zenon DEF Good, Lists!Next
<1>6. QED  BY <1>4, <1>5, Zenon DEF Ask

LEMMA NewParamsGood ==
    ASSUME PairsInv, NEW o \in Objs, NewParams(o)
    PROVE  Good
<1>1. /\ backing[o] = "none" /\ backing' = [backing EXCEPT ![o] = o]
      /\ rest' = rest /\ query' = query
  BY Zenon DEF NewParams
<1>2. PICK init :
        /\ \/ init = <<>> \/ \E t \in Searches : init = parse(strip_prefix(t))
           \/ \E n \in Names, v \in Values : init = <<<<n, v>>>>
        /\ lists' = [lists EXCEPT ![o] = init]
  BY Zenon DEF NewParams
<1>3. init \in Seq(Pairs)
  <2>1. CASE init = <<>>
    BY <2>1
  <2>2. CASE \E t \in Searches : init = parse(strip_prefix(t))
    BY <2>2, TextFacts, ParseTyped, Zenon
  <2>3. ASSUME NEW n \in Names, NEW v \in Values, init = <<<<n, v>>>>
        PROVE  init \in Seq(Pairs)
    <3> DEFINE p == <<n, v>>
    <3>1. p \in Pairs
      BY ScriptPairs
    <3> HIDE DEF p
    <3>2. <<p>> \in Seq(Pairs)
      BY <3>1
    <3>3. QED  BY <2>3, <3>2 DEF p
  <2>4. QED  BY <1>2, <2>1, <2>2, <2>3, Zenon
<1>4. o \notin Urls /\ o # "none" /\ o \in Urls \cup Objs
  BY ParamsAssumption, Zenon
<1>5. /\ lists' \in [Urls \cup Objs -> Seq(Pairs)]
      /\ \A t \in (Urls \cup Objs) \ {o} : lists'[t] = lists[t]
  BY <1>2, <1>3, <1>4, Zenon DEF PairsInv
<1>6. /\ backing' \in [Objs -> Urls \cup Objs \cup {"none"}]
      /\ backing'[o] = o /\ \A p \in Objs : p # o => backing'[p] = backing[p]
  BY <1>1, <1>4, Zenon DEF PairsInv
<1>7. PairsInv'
  <2>1. QueryHoldsList'
    <3>1. ASSUME NEW u \in Urls PROVE read_query_pairs(u)' = lists'[u]
      <4>1. u \in (Urls \cup Objs) \ {o} /\ read_query_pairs(u) = lists[u]
        BY <1>4, Zenon DEF PairsInv, QueryHoldsList
      <4>2. QED  BY <1>1, <1>5, <4>1, Zenon DEF read_query_pairs
    <3>2. QED  BY <3>1, Zenon DEF QueryHoldsList
  <2>2. \A p \in Objs : backing'[p] \in Urls \cup {p, "none"}
    BY <1>6, Zenon DEF PairsInv
  <2>3. query' \in [Urls -> Query \cup {NoQuery}]
    BY <1>1, Zenon DEF PairsInv
  <2>4. QED  BY <1>5, <1>6, <2>1, <2>2, <2>3, Zenon DEF PairsInv
<1>8. last'.op = "new" /\ last' = Lists!Call("new", o, <<>>, <<>>, <<>>)
  <2>1. Called("new", o, <<>>, <<>>, <<>>)
    BY Zenon DEF NewParams
  <2>2. QED  BY <2>1, CalledFields, Zenon
<1>9. \A p \in Objs : backing[p] # o
  BY <1>1, <1>4, Zenon DEF PairsInv
<1>10. Lists!Create
  <2>1. last'.op # "searchParams"
    BY <1>8
  <2>2. last' = Lists!Call(last'.op, o, <<>>, <<>>, <<>>)
    BY <1>8, Zenon
  <2>3. last'.op \in {"new", "searchParams"}
    BY <1>8, Zenon
  <2>4. QED  BY <1>1, <1>4, <1>5, <1>9, <2>1, <2>2, <2>3, Zenon DEF Lists!Create
<1>11. QED  BY <1>1, <1>7, <1>10, Zenon DEF Good, Lists!Next

LEMMA SearchParamsGood ==
    ASSUME PairsInv, NEW o \in Objs, NEW u \in Urls, url_search_params_get(o, u)
    PROVE  Good
<1>1. /\ backing[o] = "none" /\ backing' = [backing EXCEPT ![o] = u]
      /\ query' = query /\ lists' = lists
  BY Zenon DEF url_search_params_get
<1>2. /\ backing' \in [Objs -> Urls \cup Objs \cup {"none"}]
      /\ backing'[o] = u /\ \A p \in Objs : p # o => backing'[p] = backing[p]
  BY <1>1, Zenon DEF PairsInv
<1>3. PairsInv'
  <2>1. QueryHoldsList'
    BY <1>1, Zenon DEF PairsInv, QueryHoldsList, read_query_pairs
  <2>2. \A p \in Objs : backing'[p] \in Urls \cup {p, "none"}
    BY <1>2, Zenon DEF PairsInv
  <2>3. QED  BY <1>1, <1>2, <2>1, <2>2, Zenon DEF PairsInv
<1>4. /\ last'.op = "searchParams"
      /\ last' = Lists!Call("searchParams", o, <<>>, <<>>, <<>>)
  BY CalledFields, Zenon DEF url_search_params_get
<1>5. Lists!Create
  <2>1. last' = Lists!Call(last'.op, o, <<>>, <<>>, <<>>)
    BY <1>4, Zenon
  <2>2. last'.op \in {"new", "searchParams"} /\ u \in Urls \cup Objs
    BY <1>4, Zenon
  <2>3. QED  BY <1>1, <1>4, <2>1, <2>2, Zenon DEF Lists!Create
<1>6. QED  BY <1>1, <1>3, <1>5, Zenon DEF Good, Lists!Next

\* A URL whose query the script assigns: its list is what the text says.
LEMMA TakeQueryKeeps ==
    ASSUME PairsInv, NEW u \in Urls, NEW text \in Searches, TakeQuery(u, text),
           backing' = backing
    PROVE  PairsInv' /\ \A t \in (Urls \cup Objs) \ {u} : lists'[t] = lists[t]
<1> DEFINE q == IF text = <<>> THEN NoQuery ELSE QueryText(strip_prefix(text))
           l == IF q = NoQuery THEN <<>> ELSE parse(q)
<1>1. query' = [query EXCEPT ![u] = q] /\ lists' = [lists EXCEPT ![u] = l]
  BY Zenon DEF TakeQuery
<1>2. q \in Query \cup {NoQuery}
  BY TextFacts, Zenon
<1> HIDE DEF q
<1>3. l \in Seq(Pairs)
  <2>1. CASE q = NoQuery
    <3>1. <<>> \in Seq(Pairs)
      OBVIOUS
    <3>2. QED  BY <2>1, <3>1, Zenon
  <2>2. CASE q # NoQuery
    BY <1>2, <2>2, ParseTyped, Zenon
  <2>3. QED  BY <2>1, <2>2
<1>4. l = IF q = NoQuery THEN <<>> ELSE parse(q)
  OBVIOUS
<1> HIDE DEF l
<1>5. /\ query' \in [Urls -> Query \cup {NoQuery}]
      /\ query'[u] = q /\ \A w \in Urls : w # u => query'[w] = query[w]
  BY <1>1, <1>2, Zenon DEF PairsInv
<1>6. /\ lists' \in [Urls \cup Objs -> Seq(Pairs)]
      /\ lists'[u] = l /\ \A t \in (Urls \cup Objs) \ {u} : lists'[t] = lists[t]
  BY <1>1, <1>3, Zenon DEF PairsInv
<1>7. QueryHoldsList'
  <2>1. ASSUME NEW w \in Urls PROVE read_query_pairs(w)' = lists'[w]
    <3>1. CASE w = u
      BY <1>4, <1>5, <1>6, <3>1, Zenon DEF read_query_pairs
    <3>2. CASE w # u
      <4>1. w \in (Urls \cup Objs) \ {u} /\ read_query_pairs(w) = lists[w]
        BY <3>2, Zenon DEF PairsInv, QueryHoldsList
      <4>2. QED  BY <1>5, <1>6, <3>2, <4>1, Zenon DEF read_query_pairs
    <3>3. QED  BY <3>1, <3>2
  <2>2. QED  BY <2>1, Zenon DEF QueryHoldsList
<1>8. QED  BY <1>5, <1>6, <1>7, Zenon DEF PairsInv

LEMMA AssignGood ==
    ASSUME PairsInv, NEW u \in Urls, NEW r,
           \/ \E text \in Searches : url_search_set(u, text) \/ url_href_set(u, text, r)
           \/ url_other_set(u, r)
    PROVE  Good
<1>1. last'.op = "assign" /\ backing' = backing
  BY CalledFields, Zenon DEF url_search_set, url_href_set, url_other_set
<1>2. UNCHANGED <<query, lists>> \/ \E text \in Searches : TakeQuery(u, text)
  BY Zenon DEF url_search_set, url_href_set, url_other_set
<1>3. PairsInv' /\ \A t \in (Urls \cup Objs) \ {u} : lists'[t] = lists[t]
  <2>1. CASE UNCHANGED <<query, lists>>
    BY <1>1, <2>1, NothingNew, Zenon
  <2>2. CASE \E text \in Searches : TakeQuery(u, text)
    BY <1>1, <2>2, TakeQueryKeeps, Zenon
  <2>3. QED  BY <1>2, <2>1, <2>2
<1>4. Lists!Assign
  BY <1>1, <1>3, Zenon DEF Lists!Assign
<1>5. QED  BY <1>1, <1>3, <1>4, Zenon DEF Good, Lists!Next

LEMMA StepGood ==
    ASSUME PairsInv, Next
    PROVE  Good
<1>1. ASSUME NEW o \in Objs, NewParams(o) \/ params_sort(o) PROVE Good
  BY <1>1, NewParamsGood, SortGood, Zenon
<1>2. ASSUME NEW o \in Objs, NEW u \in Urls, url_search_params_get(o, u) PROVE Good
  BY <1>2, SearchParamsGood, Zenon
<1>3. ASSUME NEW o \in Objs, NEW n \in Names, params_delete(o, n) \/ Ask(o, n) PROVE Good
  BY <1>3, DeleteGood, AskGood, Zenon
<1>4. ASSUME NEW o \in Objs, NEW n \in Names, NEW v \in Values,
             params_append(o, n, v) \/ params_delete_pair(o, n, v) \/ params_set(o, n, v)
      PROVE  Good
  BY <1>4, AppendGood, DeletePairGood, SetGood, Zenon
<1>5. ASSUME NEW u \in Urls, NEW text \in Searches, url_search_set(u, text) PROVE Good
  BY <1>5, AssignGood, Zenon
<1>6. ASSUME NEW u \in Urls, NEW r \in Rests,
             url_other_set(u, r) \/ \E text \in Searches : url_href_set(u, text, r)
      PROVE  Good
  BY <1>6, AssignGood, Zenon
<1>7. QED  BY <1>1, <1>2, <1>3, <1>4, <1>5, <1>6, Zenon DEF Next

LEMMA InitGood == Init => PairsInv /\ Lists!Init
<1> SUFFICES ASSUME Init PROVE PairsInv /\ Lists!Init
  OBVIOUS
<1>1. <<>> \in Seq(Pairs)
  OBVIOUS
<1>2. lists \in [Urls \cup Objs -> Seq(Pairs)] /\ \A s \in Urls \cup Objs : lists[s] = <<>>
  BY <1>1, Zenon DEF Init
<1>3. query \in [Urls -> Query \cup {NoQuery}] /\ \A u \in Urls : query[u] = NoQuery
  BY Zenon DEF Init
<1>4. /\ backing \in [Objs -> Urls \cup Objs \cup {"none"}]
      /\ \A o \in Objs : backing[o] \in Urls \cup {o, "none"}
  BY Zenon DEF Init
<1>5. QueryHoldsList
  BY <1>2, <1>3, Zenon DEF QueryHoldsList, read_query_pairs
<1>6. Lists!Init
  BY Zenon DEF Init, Lists!Init, Lists!Call
<1>7. QED  BY <1>2, <1>3, <1>4, <1>5, <1>6, Zenon DEF PairsInv

LEMMA AlwaysPairsInv == Spec => []PairsInv
<1>1. ASSUME PairsInv, [Next]_vars PROVE PairsInv'
  <2>1. CASE Next
    BY <1>1, <2>1, StepGood, Zenon DEF Good
  <2>2. CASE UNCHANGED vars
    BY <1>1, <2>2, NothingNew, Zenon DEF vars
  <2>3. QED  BY <1>1, <2>1, <2>2
<1>2. QED  BY <1>1, InitGood, PTL DEF Spec

\* Whatever the script does, for any number of URLs and objects and texts of
\* any length: what the next operation through a URL reads is what the last
\* one left (url.rs:98-133).
THEOREM QueryAlwaysHoldsList == Spec => []QueryHoldsList
<1>1. PairsInv => QueryHoldsList
  BY Zenon DEF PairsInv
<1>2. QED  BY <1>1, AlwaysPairsInv, PTL

\* A method that writes through a URL leaves no query for an empty list, the
\* encoding of its list otherwise, and the rest of the URL (url.rs:114-120).
THEOREM CanonicalWrites == Spec => WritesLeaveCanonicalQuery
<1>1. PairsInv /\ [Next]_vars =>
        [query' # query /\ last'.op # "assign" =>
          /\ rest' = rest
          /\ \A u \in Urls : query'[u] # query[u] =>
                \/ query'[u] = NoQuery
                \/ /\ query'[u] # <<>>
                   /\ query'[u] = encode_pairs(parse(query'[u]))]_vars
  BY StepGood, Zenon DEF Good, Canonical
<1>2. QED  BY <1>1, AlwaysPairsInv, PTL DEF Spec, WritesLeaveCanonicalQuery

\* URLSearchParams keeps what ParamList promises: each operation is one change
\* of the list the object is bound to, seen through every object of that list
\* and no other (url.rs:36-38).
THEOREM ParamsImplementList == Spec => ImplementsParamList
<1>1. ASSUME PairsInv, [Next]_vars PROVE [Lists!Next]_<<lists, backing, last>>
  <2>1. CASE Next
    BY <1>1, <2>1, StepGood, Zenon DEF Good
  <2>2. CASE UNCHANGED vars
    BY <2>2, Zenon DEF vars
  <2>3. QED  BY <1>1, <2>1, <2>2
<1>2. QED  BY <1>1, InitGood, AlwaysPairsInv, PTL DEF Spec, ImplementsParamList, Lists!Spec

=============================================================================
