-------------------------- MODULE MimeLinesProofs --------------------------
(***************************************************************************)
(* The encodings of mime.rs, for every text, every header value, every     *)
(* sequence of words and every width: the quoted-printable body and the    *)
(* encoded word decode to what was encoded, no line is too long, and       *)
(* folding keeps the words.                                                *)
(*                                                                         *)
(* The encoders and decoders are functions on texts that recur on shorter  *)
(* ones.  Each is first shown to exist, then how it unfolds on a symbol;   *)
(* the properties follow by induction on the length of the text.  The      *)
(* folding of a header is a loop over the words, with an invariant of its  *)
(* own (FoldInv).                                                          *)
(***************************************************************************)
EXTENDS MimeMultipart, WellFoundedInduction, TLAPS

(***************************************************************************)
(* Induction and recursion.  The library states induction with an operator *)
(* as a parameter; here the property is a set, which first-order provers   *)
(* can instantiate.                                                        *)
(***************************************************************************)

\* A set of numbers that is not empty has a least one.
LEMMA LeastNumber ==
    ASSUME NEW T \in SUBSET Nat, T # {}
    PROVE  \E m \in T : \A k \in T : m <= k
<1>1. PICK m \in T : \A k \in T : ~(<<k, m>> \in OpToRel(<, Nat))
  BY NatLessThanWellFounded, WFMin, Zenon
<1>2. ASSUME NEW k \in T, k < m PROVE FALSE
  <2>1. <<k, m>> \in Nat \X Nat /\ <<k, m>>[1] = k /\ <<k, m>>[2] = m
    OBVIOUS
  <2>2. QED  BY <1>1, <1>2, <2>1, Zenon DEF OpToRel
<1>3. \A k \in T : m <= k
  BY <1>2
<1>4. QED  BY <1>3

\* The elements of D whose rank is less than n.
Below(D, rank, n) == {y \in D : rank[y] < n}

\* A set that has an element whenever it has all those of lower rank has all.
LEMMA RankInduction ==
    ASSUME NEW D, NEW rank \in [D -> Nat], NEW T,
           \A x \in D : Below(D, rank, rank[x]) \subseteq T => x \in T
    PROVE  D \subseteq T
<1> DEFINE N == {n \in Nat : \E x \in D : rank[x] = n /\ x \notin T}
<1> SUFFICES ASSUME NEW z \in D, z \notin T PROVE FALSE
  OBVIOUS
<1>1. N \in SUBSET Nat /\ N # {}
  OBVIOUS
<1> HIDE DEF N
<1>2. PICK m \in N : \A k \in N : m <= k
  BY <1>1, LeastNumber, Zenon
<1>3. PICK x \in D : rank[x] = m /\ x \notin T
  BY <1>2 DEF N
<1>4. ASSUME NEW y \in Below(D, rank, rank[x]) PROVE y \in T
  BY <1>2, <1>3, <1>4 DEF N, Below
<1>5. QED  BY <1>3, <1>4

\* What f says of the elements of rank less than n.
Prior(f, D, rank, n) == [y \in Below(D, rank, n) |-> f[y]]

\* g[x] computes a value in R for x from values in R for the lower elements.
Computes(D, rank, R, g) ==
    /\ rank \in [D -> Nat]
    /\ \A x \in D : \A h \in [Below(D, rank, rank[x]) -> R] : g[x][h] \in R

\* f is what g computes.
Solves(f, D, rank, R, g) ==
    /\ f = [x \in D |-> f[x]]
    /\ \A x \in D : Prior(f, D, rank, rank[x]) \in [Below(D, rank, rank[x]) -> R]
                        => f[x] = g[x][Prior(f, D, rank, rank[x])]

\* What g computes is in R.
LEMMA SolutionTyped ==
    ASSUME NEW D, NEW rank, NEW R, NEW g, Computes(D, rank, R, g),
           NEW f, Solves(f, D, rank, R, g)
    PROVE  f \in [D -> R]
<1> DEFINE T == {x \in D : f[x] \in R}
<1>1. ASSUME NEW x \in D, Below(D, rank, rank[x]) \subseteq T PROVE x \in T
  <2>1. \A y \in Below(D, rank, rank[x]) : f[y] \in R
    BY <1>1
  <2>2. Prior(f, D, rank, rank[x]) \in [Below(D, rank, rank[x]) -> R]
    BY <2>1, Zenon DEF Prior
  <2>3. f[x] \in R
    BY <2>2, Zenon DEF Computes, Solves
  <2>4. QED  BY <2>3
<1> HIDE DEF T
<1>2. rank \in [D -> Nat]
  BY DEF Computes
<1>3. D \subseteq T
  BY <1>1, <1>2, RankInduction, Zenon
<1>4. \A x \in D : f[x] \in R
  BY <1>3 DEF T
<1>5. QED  BY <1>4, Zenon DEF Solves

\* f computes the elements of rank less than n.
Partial(f, D, rank, R, g, n) ==
    /\ f \in [Below(D, rank, n) -> R]
    /\ \A x \in Below(D, rank, n) : f[x] = g[x][Prior(f, D, rank, rank[x])]

\* Two functions that compute some elements agree on those both compute.
LEMMA PartialUnique ==
    ASSUME NEW D, NEW rank, NEW R, NEW g, Computes(D, rank, R, g),
           NEW n \in Nat, NEW f, Partial(f, D, rank, R, g, n),
           NEW m \in Nat, NEW h, Partial(h, D, rank, R, g, m)
    PROVE  \A x \in D : rank[x] < n /\ rank[x] < m => f[x] = h[x]
<1> DEFINE T == {x \in D : rank[x] < n /\ rank[x] < m => f[x] = h[x]}
<1>1. rank \in [D -> Nat]
  BY DEF Computes
<1>2. ASSUME NEW x \in D, Below(D, rank, rank[x]) \subseteq T PROVE x \in T
  <2> SUFFICES ASSUME rank[x] < n, rank[x] < m PROVE f[x] = h[x]
    OBVIOUS
  <2>1. \A y \in Below(D, rank, rank[x]) : f[y] = h[y]
    BY <1>1, <1>2 DEF Below
  <2>2. Prior(f, D, rank, rank[x]) = Prior(h, D, rank, rank[x])
    BY <2>1, Zenon DEF Prior
  <2>3. x \in Below(D, rank, n) /\ x \in Below(D, rank, m)
    BY DEF Below
  <2>4. QED  BY <2>2, <2>3, Zenon DEF Partial
<1> HIDE DEF T
<1>3. D \subseteq T
  BY <1>1, <1>2, RankInduction, Zenon
<1>4. QED  BY <1>3 DEF T

\* The elements of each rank can be computed.
LEMMA PartialExists ==
    ASSUME NEW D, NEW rank, NEW R, NEW g, Computes(D, rank, R, g), NEW n \in Nat
    PROVE  \E f : Partial(f, D, rank, R, g, n)
<1> DEFINE S == {k \in Nat : \E f : Partial(f, D, rank, R, g, k)}
           id == [k \in Nat |-> k]
<1>1. rank \in [D -> Nat]
  BY DEF Computes
<1>2. ASSUME NEW k \in Nat, Below(Nat, id, id[k]) \subseteq S PROVE k \in S
  <2>1. CASE k = 0
    <3>1. Below(D, rank, 0) = {}
      BY <1>1 DEF Below
    <3>2. Partial([y \in {} |-> y], D, rank, R, g, 0)
      BY <3>1 DEF Partial
    <3>3. QED  BY <2>1, <3>2
  <2>2. CASE k # 0
    <3>1. k - 1 \in Nat /\ k - 1 \in S
      BY <1>2, <2>2 DEF Below
    <3>2. PICK f : Partial(f, D, rank, R, g, k - 1)
      BY <3>1
    <3> DEFINE h == [x \in Below(D, rank, k) |-> g[x][Prior(f, D, rank, rank[x])]]
    <3>3. ASSUME NEW x \in Below(D, rank, k)
          PROVE  /\ x \in D
                 /\ Prior(f, D, rank, rank[x]) \in [Below(D, rank, rank[x]) -> R]
                 /\ \A y \in Below(D, rank, rank[x]) :
                        y \in Below(D, rank, k - 1) /\ y \in Below(D, rank, k)
      <4>1. \A y \in Below(D, rank, rank[x]) : y \in Below(D, rank, k - 1)
        BY <1>1 DEF Below
      <4>2. \A y \in Below(D, rank, rank[x]) : y \in Below(D, rank, k)
        BY <1>1 DEF Below
      <4>3. \A y \in Below(D, rank, rank[x]) : f[y] \in R
        BY <3>2, <4>1, Zenon DEF Partial
      <4>4. x \in D
        BY DEF Below
      <4>5. QED  BY <4>1, <4>2, <4>3, <4>4, Zenon DEF Prior
    <3>4. ASSUME NEW x \in Below(D, rank, k - 1) PROVE h[x] = f[x]
      <4>1. x \in Below(D, rank, k)
        BY <1>1, <2>2 DEF Below
      <4>2. QED  BY <3>2, <4>1, Zenon DEF Partial
    <3>5. h \in [Below(D, rank, k) -> R]
      BY <3>3, Zenon DEF Computes
    <3>6. ASSUME NEW x \in Below(D, rank, k)
          PROVE  h[x] = g[x][Prior(h, D, rank, rank[x])]
      <4>1. h[x] = g[x][Prior(f, D, rank, rank[x])]
        BY Zenon
      <4> HIDE DEF h
      <4>2. Prior(f, D, rank, rank[x]) = Prior(h, D, rank, rank[x])
        BY <3>3, <3>4, Zenon DEF Prior
      <4>3. QED  BY <4>1, <4>2, Zenon
    <3> HIDE DEF h
    <3>7. Partial(h, D, rank, R, g, k)
      BY <3>5, <3>6, Zenon DEF Partial
    <3>8. QED  BY <3>7
  <2>3. QED  BY <2>1, <2>2
<1> HIDE DEF S
<1>3. id \in [Nat -> Nat]
  OBVIOUS
<1> HIDE DEF id
<1>4. Nat \subseteq S
  BY <1>2, <1>3, RankInduction, Zenon
<1>5. QED  BY <1>4 DEF S

\* What g computes for all elements exists.
LEMMA SolutionExists ==
    ASSUME NEW D, NEW rank, NEW R, NEW g, Computes(D, rank, R, g)
    PROVE  \E f : Solves(f, D, rank, R, g)
<1> DEFINE P(n) == CHOOSE f : Partial(f, D, rank, R, g, n)
           f == [x \in D |-> P(rank[x] + 1)[x]]
<1>1. rank \in [D -> Nat]
  BY DEF Computes
<1>2. ASSUME NEW n \in Nat PROVE Partial(P(n), D, rank, R, g, n)
  BY PartialExists, Zenon
<1> HIDE DEF P
<1>3. ASSUME NEW x \in D PROVE f[x] = g[x][Prior(f, D, rank, rank[x])]
  <2> DEFINE n == rank[x] + 1
  <2>1. n \in Nat /\ x \in Below(D, rank, n)
    BY <1>1 DEF Below
  <2>2. f[x] = P(n)[x]
    BY Zenon
  <2>3. f[x] = g[x][Prior(P(n), D, rank, rank[x])]
    BY <1>2, <2>1, <2>2, Zenon DEF Partial
  <2>4. ASSUME NEW y \in Below(D, rank, rank[x]) PROVE P(n)[y] = f[y]
    <3>1. y \in D /\ rank[y] + 1 \in Nat /\ rank[y] < n /\ rank[y] < rank[y] + 1
      BY <1>1 DEF Below
    <3>2. f[y] = P(rank[y] + 1)[y]
      BY <3>1, Zenon
    <3> HIDE DEF f, n
    <3>3. Partial(P(n), D, rank, R, g, n)
          /\ Partial(P(rank[y] + 1), D, rank, R, g, rank[y] + 1)
      BY <1>2, <2>1, <3>1, Zenon
    <3>4. QED  BY <2>1, <3>1, <3>2, <3>3, PartialUnique, SMTT(20)
  <2> HIDE DEF f, n
  <2>5. Prior(P(n), D, rank, rank[x]) = Prior(f, D, rank, rank[x])
    BY <2>4, Zenon DEF Prior
  <2>6. QED  BY <2>3, <2>5, Zenon
<1>4. f = [x \in D |-> f[x]]
  BY Zenon
<1> HIDE DEF f
<1>5. Solves(f, D, rank, R, g)
  BY <1>3, <1>4, Zenon DEF Solves
<1>6. QED  BY <1>5, Zenon

\* f is what g computes, and has values in R.
Solution(f, D, rank, R, g) ==
    /\ f \in [D -> R]
    /\ \A x \in D : /\ Prior(f, D, rank, rank[x]) \in [Below(D, rank, rank[x]) -> R]
                    /\ f[x] = g[x][Prior(f, D, rank, rank[x])]

\* What g computes exists, and has values in R.
LEMMA SolutionFound ==
    ASSUME NEW D, NEW rank, NEW R, NEW g, Computes(D, rank, R, g)
    PROVE  \E f : Solution(f, D, rank, R, g)
<1>1. PICK f : Solves(f, D, rank, R, g)
  BY SolutionExists, Zenon
<1>2. f \in [D -> R]
  BY <1>1, SolutionTyped, Zenon
<1>3. ASSUME NEW x \in D
      PROVE  Prior(f, D, rank, rank[x]) \in [Below(D, rank, rank[x]) -> R]
  <2>1. \A y \in Below(D, rank, rank[x]) : f[y] \in R
    BY <1>2, Zenon DEF Below
  <2>2. QED  BY <2>1, Zenon DEF Prior
<1>4. Solution(f, D, rank, R, g)
  BY <1>1, <1>2, <1>3, Zenon DEF Solves, Solution
<1>5. QED  BY <1>4, Zenon

(***************************************************************************)
(* Texts.                                                                  *)
(***************************************************************************)

Texts == Seq(Symbols)

Shorter(s) == {r \in Texts : Len(r) < Len(s)}

Lens == [s \in Texts |-> Len(s)]

\* The length ranks the texts.
LEMMA ShorterIsBelow ==
    /\ Lens \in [Texts -> Nat]
    /\ \A s \in Texts : Shorter(s) = Below(Texts, Lens, Lens[s])
BY DEF Texts, Lens, Shorter, Below

\* Induction on the length of a text.
LEMMA TextInduction ==
    ASSUME NEW T, \A s \in Texts : Shorter(s) \subseteq T => s \in T
    PROVE  Texts \subseteq T
<1>1. Lens \in [Texts -> Nat]
  BY ShorterIsBelow, Zenon
<1>2. \A s \in Texts : Below(Texts, Lens, Lens[s]) \subseteq T => s \in T
  BY ShorterIsBelow, Zenon
<1>3. QED  BY <1>1, <1>2, RankInduction, Zenon

\* g[s] computes a value in R for a text from values in R for shorter texts.
TextComputes(R, g) ==
    \A s \in Texts : \A h \in [Shorter(s) -> R] : g[s][h] \in R

\* What f says of the texts that are shorter than s.
OfShorter(f, s) == [r \in Shorter(s) |-> f[r]]

TextSolves(f, R, g) ==
    /\ f = [s \in Texts |-> f[s]]
    /\ \A s \in Texts : OfShorter(f, s) \in [Shorter(s) -> R]
                            => f[s] = g[s][OfShorter(f, s)]

\* What g computes from shorter texts is in R.
LEMMA TextTyped ==
    ASSUME NEW R, NEW g, TextComputes(R, g), NEW f, TextSolves(f, R, g)
    PROVE  f \in [Texts -> R]
<1>1. Computes(Texts, Lens, R, g)
  BY ShorterIsBelow, Zenon DEF Computes, TextComputes
<1>2. \A s \in Texts : OfShorter(f, s) = Prior(f, Texts, Lens, Lens[s])
  BY ShorterIsBelow, Zenon DEF OfShorter, Prior
<1>3. Solves(f, Texts, Lens, R, g)
  BY <1>2, ShorterIsBelow, Zenon DEF Solves, TextSolves
<1>4. QED  BY <1>1, <1>3, SolutionTyped, Zenon

TextSolution(f, R, g) ==
    /\ f \in [Texts -> R]
    /\ \A s \in Texts : /\ OfShorter(f, s) \in [Shorter(s) -> R]
                        /\ f[s] = g[s][OfShorter(f, s)]

\* A function on texts may be defined from its values for shorter texts.
LEMMA TextSolutionFound ==
    ASSUME NEW R, NEW g, TextComputes(R, g)
    PROVE  \E f : TextSolution(f, R, g)
<1>1. Computes(Texts, Lens, R, g)
  BY ShorterIsBelow, Zenon DEF Computes, TextComputes
<1>2. PICK f : Solution(f, Texts, Lens, R, g)
  BY <1>1, SolutionFound, Zenon
<1>3. \A s \in Texts : OfShorter(f, s) = Prior(f, Texts, Lens, Lens[s])
  BY ShorterIsBelow, Zenon DEF OfShorter, Prior
<1>4. TextSolution(f, R, g)
  BY <1>2, <1>3, ShorterIsBelow, Zenon DEF Solution, TextSolution
<1>5. QED  BY <1>4, Zenon

\* The parts of a text that is not empty.
LEMMA HeadTail ==
    ASSUME NEW s \in Texts, s # <<>>
    PROVE  /\ Head(s) \in Symbols /\ Tail(s) \in Texts /\ Tail(s) \in Shorter(s)
           /\ s[1] = Head(s) /\ From(s, 2) = Tail(s) /\ s = <<Head(s)>> \o Tail(s)
<1>1. /\ Head(s) \in Symbols /\ Tail(s) \in Texts /\ Len(Tail(s)) < Len(s)
      /\ s[1] = Head(s) /\ From(s, 2) = Tail(s) /\ s = <<Head(s)>> \o Tail(s)
  BY DEF Texts, From
<1>2. QED  BY <1>1, Zenon DEF Shorter

\* A text with a symbol before it.
LEMMA Cons ==
    ASSUME NEW c \in Symbols, NEW r \in Texts
    PROVE  /\ <<c>> \o r \in Texts /\ <<c>> \o r # <<>>
           /\ Head(<<c>> \o r) = c /\ Tail(<<c>> \o r) = r
           /\ Len(<<c>> \o r) = Len(r) + 1 /\ (<<c>> \o r)[1] = c
BY DEF Texts

\* What Replace does: the empty text, a text with a first symbol.
LEMMA ReplaceFacts ==
    ASSUME NEW by \in [Symbols -> Texts]
    PROVE  /\ Replace(<<>>, by) = <<>>
           /\ \A s \in Texts : Replace(s, by) \in Texts
           /\ \A c \in Symbols : \A r \in Texts :
                  Replace(<<c>> \o r, by) = by[c] \o Replace(r, by)
<1> DEFINE Body(f, rest) == IF rest = <<>> THEN <<>> ELSE by[Head(rest)] \o f[Tail(rest)]
           g == [x \in Texts |-> [h \in [Shorter(x) -> Texts] |-> Body(h, x)]]
           F == CHOOSE f : f = [rest \in Texts |-> Body(f, rest)]
<1>1. ASSUME NEW x \in Texts, NEW h \in [Shorter(x) -> Texts] PROVE Body(h, x) \in Texts
  <2>1. CASE x = <<>>
    BY <2>1 DEF Texts
  <2>2. CASE x # <<>>
    <3>1. by[Head(x)] \in Texts /\ h[Tail(x)] \in Texts
      BY <2>2, HeadTail, Zenon
    <3>2. by[Head(x)] \o h[Tail(x)] \in Texts
      BY <3>1 DEF Texts
    <3>3. QED  BY <2>2, <3>2, Zenon
  <2>3. QED  BY <2>1, <2>2, Zenon
<1>2. ASSUME NEW x \in Texts, NEW f PROVE Body(f, x) = Body(OfShorter(f, x), x)
  BY HeadTail, Zenon DEF OfShorter
<1>3. \A x \in Texts : \A h \in [Shorter(x) -> Texts] : g[x][h] = Body(h, x)
  BY Zenon
<1> HIDE DEF Body, g
<1>4. TextComputes(Texts, g)
  BY <1>1, <1>3, Zenon DEF TextComputes
<1>5. \E f : f = [rest \in Texts |-> Body(f, rest)]
  <2>1. PICK f : TextSolution(f, Texts, g)
    BY <1>4, TextSolutionFound, Zenon
  <2>2. \A x \in Texts : f[x] = Body(f, x)
    BY <1>2, <1>3, <2>1, Zenon DEF TextSolution
  <2>3. QED  BY <2>1, <2>2, Zenon DEF TextSolution
<1>6. F = [rest \in Texts |-> Body(F, rest)]
  BY <1>5, Zenon
<1>7. \A s : Replace(s, by) = F[s]
  BY Zenon DEF Replace, Body, Texts
<1> HIDE DEF F
<1>8. F = [s \in Texts |-> F[s]] /\ \A x \in Texts : F[x] = Body(F, x)
  BY <1>6, Zenon
<1>9. F \in [Texts -> Texts]
  <2>1. TextSolves(F, Texts, g)
    BY <1>2, <1>3, <1>8, Zenon DEF TextSolves
  <2>2. QED  BY <1>4, <2>1, TextTyped, Zenon
<1>10. QED
  <2>1. <<>> \in Texts
    BY DEF Texts
  <2>2. F[<<>>] = <<>>
    BY <1>8, <2>1, Zenon DEF Body
  <2>3. ASSUME NEW c \in Symbols, NEW r \in Texts PROVE F[<<c>> \o r] = by[c] \o F[r]
    <3>1. /\ <<c>> \o r \in Texts /\ <<c>> \o r # <<>>
          /\ Head(<<c>> \o r) = c /\ Tail(<<c>> \o r) = r
      BY Cons
    <3>2. F[<<c>> \o r] = Body(F, <<c>> \o r)
      BY <1>8, <3>1, Zenon
    <3>3. QED  BY <3>1, <3>2, Zenon DEF Body
  <2>4. QED  BY <1>7, <1>9, <2>2, <2>3, Zenon

\* The rest of a sequence from an index on.
LEMMA FromFacts ==
    ASSUME NEW S, NEW s \in Seq(S), NEW i \in 1..Len(s) + 1
    PROVE  /\ From(s, i) \in Seq(S) /\ Len(From(s, i)) = Len(s) - i + 1
           /\ \A k \in 1..Len(s) - i + 1 : From(s, i)[k] = s[k + i - 1]
BY DEF From

\* A text that begins with CR LF.
LEMMA Pair ==
    ASSUME NEW s \in Texts, StartsWithCRLF(s)
    PROVE  /\ s # <<>> /\ From(s, 3) \in Texts /\ From(s, 3) \in Shorter(s)
           /\ s = CRLF \o From(s, 3)
<1>1. Len(s) >= 2 /\ s[1] = "CR" /\ s[2] = "LF"
  BY DEF StartsWithCRLF, get, Texts
<1>2. From(s, 3) \in Texts /\ Len(From(s, 3)) = Len(s) - 2
  <2>1. s \in Seq(Symbols) /\ 3 \in 1..Len(s) + 1
    BY <1>1 DEF Texts
  <2>2. From(s, 3) \in Seq(Symbols) /\ Len(From(s, 3)) = Len(s) - 3 + 1
    BY <2>1, FromFacts, Zenon
  <2>3. QED  BY <2>1, <2>2 DEF Texts
<1>3. s = CRLF \o From(s, 3)
  BY <1>1 DEF Texts, From, CRLF
<1>4. s # <<>>
  BY <1>1
<1>5. QED  BY <1>2, <1>3, <1>4 DEF Shorter, Texts

\* A text with a CRLF before it.
LEMMA PairCons ==
    ASSUME NEW r \in Texts
    PROVE  /\ CRLF \o r \in Texts /\ CRLF \o r # <<>>
           /\ StartsWithCRLF(CRLF \o r) /\ From(CRLF \o r, 3) = r
<1>1. CRLF \o r \in Texts /\ Len(CRLF \o r) = Len(r) + 2
      /\ (CRLF \o r)[1] = "CR" /\ (CRLF \o r)[2] = "LF"
  <2>1. "CR" \in Symbols /\ "LF" \in Symbols
    BY DEF Symbols
  <2>2. QED  BY <2>1 DEF CRLF, Texts
<1>2. From(CRLF \o r, 3) = r
  BY <1>1 DEF CRLF, Texts, From
<1>3. CRLF \o r # <<>> /\ StartsWithCRLF(CRLF \o r)
  BY <1>1 DEF StartsWithCRLF, get, Texts
<1>4. QED  BY <1>1, <1>2, <1>3

\* A symbol opens a CRLF only when it is a CR and the next one is a LF.
LEMMA NoPairCons ==
    ASSUME NEW c \in Symbols, NEW r \in Texts
    PROVE  StartsWithCRLF(<<c>> \o r) <=> c = "CR" /\ r # <<>> /\ Head(r) = "LF"
<1>1. Len(<<c>> \o r) = Len(r) + 1 /\ (<<c>> \o r)[1] = c
      /\ (r # <<>> => (<<c>> \o r)[2] = Head(r)) /\ Len(r) \in Nat
      /\ (r = <<>> <=> Len(r) = 0)
  BY DEF Texts
<1>2. QED  BY <1>1 DEF StartsWithCRLF, get

\* PairToLF, symbol by symbol: how its recursion unfolds.
LEMMA PairToLFFacts ==
    /\ PairToLF(<<>>) = <<>>
    /\ \A s \in Texts : PairToLF(s) \in Texts
    /\ \A r \in Texts : PairToLF(CRLF \o r) = <<"LF">> \o PairToLF(r)
    /\ \A c \in Symbols : \A r \in Texts :
           ~StartsWithCRLF(<<c>> \o r) => PairToLF(<<c>> \o r) = <<c>> \o PairToLF(r)
<1> DEFINE Body(f, rest) == IF rest = <<>> THEN <<>>
                            ELSE IF StartsWithCRLF(rest) THEN <<"LF">> \o f[From(rest, 3)]
                            ELSE <<Head(rest)>> \o f[Tail(rest)]
           g == [x \in Texts |-> [h \in [Shorter(x) -> Texts] |-> Body(h, x)]]
           F == CHOOSE f : f = [rest \in Texts |-> Body(f, rest)]
<1>1. ASSUME NEW x \in Texts, NEW h \in [Shorter(x) -> Texts] PROVE Body(h, x) \in Texts
  <2>1. CASE x = <<>>
    BY <2>1 DEF Texts
  <2>2. CASE x # <<>> /\ StartsWithCRLF(x)
    <3>1. h[From(x, 3)] \in Texts /\ "LF" \in Symbols
      BY <2>2, Pair DEF Symbols
    <3>2. <<"LF">> \o h[From(x, 3)] \in Texts
      BY <3>1, Cons, Zenon
    <3>3. QED  BY <2>2, <3>2, Zenon
  <2>3. CASE x # <<>> /\ ~StartsWithCRLF(x)
    <3>1. Head(x) \in Symbols /\ h[Tail(x)] \in Texts
      BY <2>3, HeadTail, Zenon
    <3>2. <<Head(x)>> \o h[Tail(x)] \in Texts
      BY <3>1, Cons, Zenon
    <3>3. QED  BY <2>3, <3>2, Zenon
  <2>4. QED  BY <2>1, <2>2, <2>3, Zenon
<1>2. ASSUME NEW x \in Texts, NEW f PROVE Body(f, x) = Body(OfShorter(f, x), x)
  BY HeadTail, Pair, Zenon DEF OfShorter
<1>3. \A x \in Texts : \A h \in [Shorter(x) -> Texts] : g[x][h] = Body(h, x)
  BY Zenon
<1> HIDE DEF Body, g
<1>4. TextComputes(Texts, g)
  BY <1>1, <1>3, Zenon DEF TextComputes
<1>5. \E f : f = [rest \in Texts |-> Body(f, rest)]
  <2>1. PICK f : TextSolution(f, Texts, g)
    BY <1>4, TextSolutionFound, Zenon
  <2>2. \A x \in Texts : f[x] = Body(f, x)
    BY <1>2, <1>3, <2>1, Zenon DEF TextSolution
  <2>3. QED  BY <2>1, <2>2, Zenon DEF TextSolution
<1>6. F = [rest \in Texts |-> Body(F, rest)]
  BY <1>5, Zenon
<1>7. \A s : PairToLF(s) = F[s]
  BY Zenon DEF PairToLF, Body, Texts
<1> HIDE DEF F
<1>8. F = [s \in Texts |-> F[s]] /\ \A x \in Texts : F[x] = Body(F, x)
  BY <1>6, Zenon
<1>9. F \in [Texts -> Texts]
  <2>1. TextSolves(F, Texts, g)
    BY <1>2, <1>3, <1>8, Zenon DEF TextSolves
  <2>2. QED  BY <1>4, <2>1, TextTyped, Zenon
<1>10. <<>> \in Texts /\ F[<<>>] = <<>>
  <2>1. <<>> \in Texts
    BY DEF Texts
  <2>2. QED  BY <1>8, <2>1, Zenon DEF Body
<1>11. ASSUME NEW r \in Texts PROVE F[CRLF \o r] = <<"LF">> \o F[r]
  BY <1>8, PairCons, Zenon DEF Body
<1>12. ASSUME NEW c \in Symbols, NEW r \in Texts, ~StartsWithCRLF(<<c>> \o r)
       PROVE  F[<<c>> \o r] = <<c>> \o F[r]
  <2>1. /\ <<c>> \o r \in Texts /\ <<c>> \o r # <<>>
        /\ Head(<<c>> \o r) = c /\ Tail(<<c>> \o r) = r
    BY Cons
  <2>2. F[<<c>> \o r] = Body(F, <<c>> \o r)
    BY <1>8, <2>1, Zenon
  <2>3. QED  BY <1>12, <2>1, <2>2, Zenon DEF Body
<1>13. QED  BY <1>7, <1>9, <1>10, <1>11, <1>12, Zenon

\* What normalize_raw_message does to a line end and to any other symbol.
ToLF == [c \in Symbols |-> IF c = "CR" THEN <<"LF">> ELSE <<c>>]

\* normalize_raw_message, symbol by symbol (both replacements).
LEMMA NormalizeFacts ==
    /\ normalize_raw_message(<<>>) = <<>>
    /\ \A s \in Texts : normalize_raw_message(s) \in Texts
    /\ \A r \in Texts : normalize_raw_message(CRLF \o r) =
                            <<"LF">> \o normalize_raw_message(r)
    /\ \A c \in Symbols : \A r \in Texts : c # "CR" =>
           normalize_raw_message(<<c>> \o r) = <<c>> \o normalize_raw_message(r)
    /\ \A r \in Texts : ~StartsWithCRLF(<<"CR">> \o r) =>
           normalize_raw_message(<<"CR">> \o r) = <<"LF">> \o normalize_raw_message(r)
<1>1. ToLF \in [Symbols -> Texts]
  BY DEF ToLF, Texts, Symbols
<1>2. ToLF["LF"] = <<"LF">> /\ ToLF["CR"] = <<"LF">> /\ "LF" \in Symbols /\ "CR" \in Symbols
      /\ \A c \in Symbols : c # "CR" => ToLF[c] = <<c>>
  BY DEF ToLF, Symbols
<1>3. \A s : normalize_raw_message(s) = Replace(PairToLF(s), ToLF)
  BY Zenon DEF normalize_raw_message, ToLF
<1>4. /\ Replace(<<>>, ToLF) = <<>>
      /\ \A s \in Texts : Replace(s, ToLF) \in Texts
      /\ \A c \in Symbols : \A r \in Texts :
             Replace(<<c>> \o r, ToLF) = ToLF[c] \o Replace(r, ToLF)
  BY <1>1, ReplaceFacts, Zenon
<1>5. ASSUME NEW c \in Symbols, NEW r \in Texts, c # "CR"
      PROVE  normalize_raw_message(<<c>> \o r) = <<c>> \o normalize_raw_message(r)
  <2>1. ~StartsWithCRLF(<<c>> \o r)
    BY <1>5, NoPairCons, Zenon
  <2>2. PairToLF(<<c>> \o r) = <<c>> \o PairToLF(r) /\ PairToLF(r) \in Texts
    BY <2>1, PairToLFFacts, Zenon
  <2>3. QED  BY <1>2, <1>3, <1>4, <1>5, <2>2, Zenon
<1>6. ASSUME NEW r \in Texts, ~StartsWithCRLF(<<"CR">> \o r)
      PROVE  normalize_raw_message(<<"CR">> \o r) = <<"LF">> \o normalize_raw_message(r)
  <2>1. PairToLF(<<"CR">> \o r) = <<"CR">> \o PairToLF(r) /\ PairToLF(r) \in Texts
    BY <1>2, <1>6, PairToLFFacts, Zenon
  <2>2. QED  BY <1>2, <1>3, <1>4, <2>1, Zenon
<1>7. ASSUME NEW r \in Texts
      PROVE  normalize_raw_message(CRLF \o r) = <<"LF">> \o normalize_raw_message(r)
  <2>1. PairToLF(CRLF \o r) = <<"LF">> \o PairToLF(r) /\ PairToLF(r) \in Texts
    BY PairToLFFacts, Zenon
  <2>2. QED  BY <1>2, <1>3, <1>4, <2>1, Zenon
<1>8. QED  BY <1>3, <1>4, <1>5, <1>6, <1>7, PairToLFFacts, Zenon

(***************************************************************************)
(* Quoted-printable.                                                       *)
(***************************************************************************)

\* The hex digits of a byte that is escaped give the byte back.
LEMMA HexFacts ==
    ASSUME NEW b \in Escaped
    PROVE  \E h, l \in HexDigits : hex_pair(b) = <<h, l>> /\ ByteOf(h, l) = b
<1>1. /\ hex_pair("=") = <<"3", "D">> /\ hex_pair("?") = <<"3", "F">>
      /\ hex_pair("UND") = <<"5", "F">> /\ hex_pair("CR") = <<"0", "D">>
      /\ hex_pair("LF") = <<"0", "A">> /\ hex_pair("hi") = <<"C", "3">>
  BY DEF hex_pair
<1>2. \E h, l \in HexDigits : hex_pair(b) = <<h, l>>
  <2>1. {"0", "3", "5", "A", "C", "D", "F"} \subseteq HexDigits
    BY DEF HexDigits
  <2>2. b = "=" \/ b = "?" \/ b = "UND" \/ b = "CR" \/ b = "LF" \/ b = "hi"
    BY DEF Escaped
  <2>3. QED  BY <1>1, <2>1, <2>2, Zenon
<1>3. \A c, d \in Escaped : hex_pair(c) = hex_pair(d) => c = d
  <2>1. \A p, x, y : p = <<x, y>> => p[1] = x /\ p[2] = y
    OBVIOUS
  <2>2. /\ hex_pair("=")[1] = "3" /\ hex_pair("=")[2] = "D"
        /\ hex_pair("?")[1] = "3" /\ hex_pair("?")[2] = "F"
        /\ hex_pair("UND")[1] = "5" /\ hex_pair("CR")[1] = "0" /\ hex_pair("CR")[2] = "D"
        /\ hex_pair("LF")[1] = "0" /\ hex_pair("LF")[2] = "A" /\ hex_pair("hi")[1] = "C"
    <3>1. hex_pair("=") = <<"3", "D">> /\ hex_pair("?") = <<"3", "F">>
      BY <1>1
    <3>2. hex_pair("UND") = <<"5", "F">> /\ hex_pair("CR") = <<"0", "D">>
      BY <1>1
    <3>3. hex_pair("LF") = <<"0", "A">> /\ hex_pair("hi") = <<"C", "3">>
      BY <1>1
    <3>4. /\ hex_pair("=")[1] = "3" /\ hex_pair("=")[2] = "D"
          /\ hex_pair("?")[1] = "3" /\ hex_pair("?")[2] = "F"
      BY <2>1, <3>1, Zenon
    <3>5. hex_pair("UND")[1] = "5" /\ hex_pair("CR")[1] = "0" /\ hex_pair("CR")[2] = "D"
      BY <2>1, <3>2, Zenon
    <3>6. hex_pair("LF")[1] = "0" /\ hex_pair("LF")[2] = "A" /\ hex_pair("hi")[1] = "C"
      BY <2>1, <3>3, Zenon
    <3>7. QED  BY <3>4, <3>5, <3>6
  <2>3. QED  BY <2>2 DEF Escaped
<1>4. PICK h \in HexDigits, l \in HexDigits : hex_pair(b) = <<h, l>>
  BY <1>2
<1>5. ByteOf(h, l) = b
  BY <1>3, <1>4, Zenon DEF ByteOf
<1>6. QED  BY <1>4, <1>5, Zenon

\* Sequences with the same length and elements are the same.
LEMMA SameSequence ==
    ASSUME NEW S, NEW s \in Seq(S), NEW t \in Seq(S), Len(s) = Len(t),
           \A i \in 1..Len(s) : s[i] = t[i]
    PROVE  s = t
OBVIOUS

\* Three symbols, from one and two.
LEMMA Triple ==
    ASSUME NEW S, NEW a \in S, NEW b \in S, NEW c \in S
    PROVE  <<a>> \o <<b, c>> = <<a, b, c>>
<1>1. <<a>> \o <<b, c>> \in Seq(S) /\ <<a, b, c>> \in Seq(S)
  OBVIOUS
<1>2. Len(<<a>> \o <<b, c>>) = 3 /\ Len(<<a, b, c>>) = 3
  OBVIOUS
<1>3. /\ (<<a>> \o <<b, c>>)[1] = a /\ (<<a>> \o <<b, c>>)[2] = b
      /\ (<<a>> \o <<b, c>>)[3] = c
  OBVIOUS
<1>4. \A i \in 1..3 : (<<a>> \o <<b, c>>)[i] = <<a, b, c>>[i]
  BY <1>3
<1>5. QED  BY <1>1, <1>2, <1>4, SameSequence, Zenon

\* A token is the byte itself, or three symbols.
LEMMA TokenFacts ==
    ASSUME NEW c \in Symbols
    PROVE  /\ Token(c) \in Texts /\ Len(Token(c)) \in 1..3
           /\ \/ c \notin {"=", "CR"} /\ Token(c) = <<c>>
              \/ \E h, l \in HexDigits :
                     Token(c) = <<"=", h, l>> /\ ByteOf(h, l) = c
<1>0. HexDigits \subseteq Symbols /\ "=" \in Symbols
  BY DEF HexDigits, Symbols
<1>1. CASE c \in {"=", "CR", "LF", "hi"}
  <2>1. c \in Escaped
    BY <1>1 DEF Escaped
  <2>2. PICK h \in HexDigits, l \in HexDigits : hex_pair(c) = <<h, l>> /\ ByteOf(h, l) = c
    BY <2>1, HexFacts, Zenon
  <2>3. Token(c) = <<"=">> \o <<h, l>>
    BY <1>1, <2>2, Zenon DEF Token
  <2>4. <<"=">> \o <<h, l>> = <<"=", h, l>>
    BY <1>0, Triple
  <2>5. Token(c) = <<"=", h, l>>
    BY <2>3, <2>4, Zenon
  <2>6. <<"=", h, l>> \in Texts /\ Len(<<"=", h, l>>) \in 1..3
    BY <1>0 DEF Texts
  <2>7. QED  BY <2>2, <2>5, <2>6, Zenon
<1>2. CASE c \notin {"=", "CR", "LF", "hi"}
  <2>1. Token(c) = <<c>>
    BY <1>2, Zenon DEF Token
  <2>2. <<c>> \in Texts /\ Len(<<c>>) \in 1..3
    BY DEF Texts
  <2>3. c \notin {"=", "CR"}
    BY <1>2
  <2>4. QED  BY <2>1, <2>2, <2>3, Zenon
<1>3. QED  BY <1>1, <1>2, Zenon

SoftBreak == <<"=">> \o CRLF

\* The token is pushed as it is, or after a soft line break.
LEMMA PushFacts ==
    ASSUME NEW n \in Nat, NEW token \in Texts
    PROVE  /\ qp_push_token(n, token).line_len \in Nat
           /\ \/ /\ qp_push_token(n, token).pushed = token
                 /\ n + Len(token) <= QpWidth
                 /\ qp_push_token(n, token).line_len = n + Len(token)
              \/ /\ qp_push_token(n, token).pushed = SoftBreak \o token
                 /\ qp_push_token(n, token).line_len = Len(token)
<1>1. Len(token) \in Nat
  BY DEF Texts
<1>2. QpWidth \in Nat
  BY LinesAssumption DEF LinesAssumption
<1>3. QED  BY <1>1, <1>2 DEF qp_push_token, SoftBreak

\* qp_push_token pushes a text and keeps a length.
LEMMA PushedText ==
    ASSUME NEW n \in Nat, NEW c \in Symbols
    PROVE  /\ qp_push_token(n, Token(c)).line_len \in Nat
           /\ qp_push_token(n, Token(c)).pushed \in Texts
<1>1. Token(c) \in Texts
  BY TokenFacts, Zenon
<1>2. SoftBreak \in Texts
  <2>1. "=" \in Symbols /\ "CR" \in Symbols /\ "LF" \in Symbols
    BY DEF Symbols
  <2>2. CRLF \in Texts
    BY <2>1 DEF CRLF, Texts
  <2>3. QED  BY <2>1, <2>2, Cons, Zenon DEF SoftBreak
<1>3. SoftBreak \o Token(c) \in Texts
  BY <1>1, <1>2 DEF Texts
<1>4. QED  BY <1>1, <1>3, PushFacts, Zenon

\* The function of the text that is left and of the length of the line.
QpEncodes(e) ==
    /\ e \in [Texts -> [Nat -> Texts]]
    /\ \A n \in Nat : e[<<>>][n] = <<>>
    /\ \A r \in Texts : \A n \in Nat : e[CRLF \o r][n] = CRLF \o e[r][0]
    /\ \A c \in Symbols : \A r \in Texts : \A n \in Nat :
           ~StartsWithCRLF(<<c>> \o r) =>
               e[<<c>> \o r][n] =
                   qp_push_token(n, Token(c)).pushed
                   \o e[r][qp_push_token(n, Token(c)).line_len]

\* qp_encode is the function that QpEncodes describes, from column 0.
LEMMA QpEncodeFacts == \E e : QpEncodes(e) /\ \A s : qp_encode(s) = e[s][0]
<1> DEFINE R == [Nat -> Texts]
           At(f, rest, n) == IF rest = <<>> THEN <<>>
                   ELSE IF StartsWithCRLF(rest) THEN CRLF \o f[From(rest, 3)][0]
                   ELSE qp_push_token(n, Token(Head(rest))).pushed
                        \o f[Tail(rest)][qp_push_token(n, Token(Head(rest))).line_len]
           Body(f, rest) == [n \in Nat |-> At(f, rest, n)]
           g == [x \in Texts |-> [h \in [Shorter(x) -> R] |-> Body(h, x)]]
           F == CHOOSE f : f = [rest \in Texts |-> Body(f, rest)]
<1>1. ASSUME NEW x \in Texts, NEW h \in [Shorter(x) -> R] PROVE Body(h, x) \in R
  <2> SUFFICES ASSUME NEW n \in Nat PROVE At(h, x, n) \in Texts
    BY Zenon
  <2>1. CASE x = <<>>
    BY <2>1 DEF Texts
  <2>2. CASE x # <<>> /\ StartsWithCRLF(x)
    <3>1. h[From(x, 3)][0] \in Texts
      BY <2>2, Pair
    <3>2. CRLF \o h[From(x, 3)][0] \in Texts
      BY <3>1, PairCons, Zenon
    <3>3. QED  BY <2>2, <3>2, Zenon
  <2>3. CASE x # <<>> /\ ~StartsWithCRLF(x)
    <3> DEFINE next == qp_push_token(n, Token(Head(x)))
    <3>1. Head(x) \in Symbols /\ Tail(x) \in Shorter(x)
      BY <2>3, HeadTail, Zenon
    <3>2. next.line_len \in Nat /\ next.pushed \in Texts
      BY <3>1, PushedText, Zenon
    <3>3. h[Tail(x)][next.line_len] \in Texts
      BY <3>1, <3>2, Zenon
    <3>4. next.pushed \o h[Tail(x)][next.line_len] \in Texts
      BY <3>2, <3>3 DEF Texts
    <3>5. QED  BY <2>3, <3>4, Zenon
  <2>4. QED  BY <2>1, <2>2, <2>3, Zenon
<1>2. ASSUME NEW x \in Texts, NEW f PROVE Body(f, x) = Body(OfShorter(f, x), x)
  <2>1. ASSUME NEW n \in Nat PROVE At(f, x, n) = At(OfShorter(f, x), x, n)
    <3> HIDE DEF At
    <3>1. CASE x = <<>>
      BY <3>1, Zenon DEF At
    <3>2. CASE x # <<>> /\ StartsWithCRLF(x)
      <4>1. OfShorter(f, x)[From(x, 3)] = f[From(x, 3)]
        BY <3>2, Pair, Zenon DEF OfShorter
      <4>2. QED  BY <3>2, <4>1, Zenon DEF At
    <3>3. CASE x # <<>> /\ ~StartsWithCRLF(x)
      <4>1. OfShorter(f, x)[Tail(x)] = f[Tail(x)]
        BY <3>3, HeadTail, Zenon DEF OfShorter
      <4>2. QED  BY <3>3, <4>1, Zenon DEF At
    <3>4. QED  BY <3>1, <3>2, <3>3, Zenon
  <2> HIDE DEF At
  <2>2. QED  BY <2>1, Zenon
<1>3. \A x \in Texts : \A h \in [Shorter(x) -> R] : g[x][h] = Body(h, x)
  BY Zenon
<1> HIDE DEF Body, g
<1>4. TextComputes(R, g)
  BY <1>1, <1>3, Zenon DEF TextComputes
<1>5. \E f : f = [rest \in Texts |-> Body(f, rest)]
  <2>1. PICK f : TextSolution(f, R, g)
    BY <1>4, TextSolutionFound, Zenon
  <2>2. \A x \in Texts : f[x] = Body(f, x)
    BY <1>2, <1>3, <2>1, Zenon DEF TextSolution
  <2>3. QED  BY <2>1, <2>2, Zenon DEF TextSolution
<1>6. F = [rest \in Texts |-> Body(F, rest)]
  BY <1>5, Zenon
<1>7. \A s : qp_encode(s) = F[s][0]
  BY Zenon DEF qp_encode, Body, Texts
<1> HIDE DEF F
<1>8. F = [s \in Texts |-> F[s]] /\ \A x \in Texts : F[x] = Body(F, x)
  BY <1>6, Zenon
<1>9. F \in [Texts -> R]
  <2>1. TextSolves(F, R, g)
    BY <1>2, <1>3, <1>8, Zenon DEF TextSolves
  <2>2. QED  BY <1>4, <2>1, TextTyped, Zenon
<1> HIDE DEF At
<1>10. \A x \in Texts : \A n \in Nat : F[x][n] = At(F, x, n)
  BY <1>8, Zenon DEF Body
<1>11. \A n \in Nat : F[<<>>][n] = <<>>
  <2>1. <<>> \in Texts
    BY DEF Texts
  <2>2. QED  BY <1>10, <2>1, Zenon DEF At
<1>12. \A r \in Texts : \A n \in Nat : F[CRLF \o r][n] = CRLF \o F[r][0]
  <2> SUFFICES ASSUME NEW r \in Texts, NEW n \in Nat PROVE F[CRLF \o r][n] = CRLF \o F[r][0]
    BY Zenon
  <2>1. F[CRLF \o r][n] = At(F, CRLF \o r, n)
    BY <1>10, PairCons, Zenon
  <2>2. QED  BY <2>1, PairCons, Zenon DEF At
<1>13. ASSUME NEW c \in Symbols, NEW r \in Texts, NEW n \in Nat, ~StartsWithCRLF(<<c>> \o r)
       PROVE  F[<<c>> \o r][n] = qp_push_token(n, Token(c)).pushed
                                 \o F[r][qp_push_token(n, Token(c)).line_len]
  <2>1. /\ <<c>> \o r \in Texts /\ <<c>> \o r # <<>>
        /\ Head(<<c>> \o r) = c /\ Tail(<<c>> \o r) = r
    BY Cons
  <2>2. F[<<c>> \o r][n] = At(F, <<c>> \o r, n)
    BY <1>10, <2>1, Zenon
  <2>3. QED  BY <1>13, <2>1, <2>2, Zenon DEF At
<1>14. QpEncodes(F)
  <2>1. \A c \in Symbols : \A r \in Texts : \A n \in Nat :
            ~StartsWithCRLF(<<c>> \o r) =>
               F[<<c>> \o r][n] = qp_push_token(n, Token(c)).pushed
                                 \o F[r][qp_push_token(n, Token(c)).line_len]
    BY <1>13, Zenon
  <2>2. QED  BY <1>9, <1>11, <1>12, <2>1, Zenon DEF QpEncodes
<1>15. QED  BY <1>7, <1>14, Zenon

\* What qp_decode and decode_encoded_words return.
Outcomes == {Decoded(x) : x \in Texts} \cup {Invalid}

\* The outcomes of a decoder, and the output put before one.
LEMMA OutcomeFacts ==
    /\ Invalid \in Outcomes
    /\ \A x \in Texts : Decoded(x) \in Outcomes
    /\ \A x \in Texts : \A y \in Outcomes : Before(x, y) \in Outcomes
    /\ \A x, y \in Texts : Before(x, Decoded(y)) = Decoded(x \o y)
    /\ \A x \in Texts : Decoded(x).ok /\ Decoded(x).out = x
<1>1. Invalid \in Outcomes /\ \A x \in Texts : Decoded(x) \in Outcomes
  BY Zenon DEF Outcomes
<1>2. \A x \in Texts : Decoded(x).ok /\ Decoded(x).out = x
  BY DEF Decoded
<1>3. \A x, y \in Texts : Before(x, Decoded(y)) = Decoded(x \o y)
  BY <1>2, Zenon DEF Before
<1>4. ASSUME NEW x \in Texts, NEW y \in Outcomes PROVE Before(x, y) \in Outcomes
  <2>1. CASE y = Invalid
    <3>1. ~Invalid.ok
      BY DEF Invalid
    <3>2. QED  BY <1>1, <2>1, <3>1, Zenon DEF Before
  <2>2. CASE \E z \in Texts : y = Decoded(z)
    <3>1. PICK z \in Texts : y = Decoded(z)
      BY <2>2, Zenon
    <3>2. x \o z \in Texts
      BY DEF Texts
    <3>3. QED  BY <1>1, <1>3, <3>1, <3>2, Zenon
  <2>3. QED  BY <2>1, <2>2, Zenon DEF Outcomes
<1>5. QED  BY <1>1, <1>2, <1>3, <1>4, Zenon

\* The rest of a text is shorter; a symbol that get finds is in the text.
LEMMA RestFacts ==
    ASSUME NEW s \in Texts, s # <<>>
    PROVE  /\ From(s, 2) \in Shorter(s)
           /\ get(s, 2) \in Symbols => From(s, 3) \in Shorter(s) /\ get(s, 2) = s[2]
           /\ get(s, 3) \in Symbols => From(s, 4) \in Shorter(s) /\ get(s, 3) = s[3]
<1>1. s \in Seq(Symbols) /\ Len(s) \in Nat /\ Len(s) > 0
  BY DEF Texts
<1>2. "none" \notin Symbols
  BY DEF Symbols
<1>3. ASSUME NEW i \in 2..Len(s) + 1 PROVE From(s, i) \in Shorter(s)
  <2>1. i \in 1..Len(s) + 1
    BY <1>1
  <2>2. From(s, i) \in Seq(Symbols) /\ Len(From(s, i)) = Len(s) - i + 1
    BY <1>1, <2>1, FromFacts, Zenon
  <2>3. Len(From(s, i)) < Len(s)
    BY <1>1, <2>2
  <2>4. QED  BY <2>2, <2>3, Zenon DEF Shorter, Texts
<1>4. 2 \in 2..Len(s) + 1
  BY <1>1
<1>5. get(s, 2) \in Symbols => 3 \in 2..Len(s) + 1 /\ get(s, 2) = s[2]
  BY <1>1, <1>2 DEF get
<1>6. get(s, 3) \in Symbols => 4 \in 2..Len(s) + 1 /\ get(s, 3) = s[3]
  BY <1>1, <1>2 DEF get
<1>7. QED  BY <1>3, <1>4, <1>5, <1>6, Zenon

\* The byte that two hexadecimal digits stand for is a symbol.
LEMMA ByteIsSymbol == \A h, l : ByteOf(h, l) \in Symbols
<1>1. Escaped \subseteq Symbols /\ "other" \in Symbols
  BY DEF Escaped, Symbols
<1>2. QED  BY <1>1, Zenon DEF ByteOf

\* A sequence with two elements before it.
LEMMA TwoBefore ==
    ASSUME NEW S, NEW a \in S, NEW b \in S, NEW r \in Seq(S)
    PROVE  /\ <<a, b>> \o r \in Seq(S) /\ Len(<<a, b>> \o r) = Len(r) + 2
           /\ (<<a, b>> \o r)[1] = a /\ (<<a, b>> \o r)[2] = b
           /\ From(<<a, b>> \o r, 3) = r
<1>1. /\ <<a, b>> \o r \in Seq(S) /\ Len(<<a, b>> \o r) = Len(r) + 2
      /\ (<<a, b>> \o r)[1] = a /\ (<<a, b>> \o r)[2] = b
  OBVIOUS
<1>2. QED  BY <1>1 DEF From

\* A sequence with three elements before it.
LEMMA ThreeBefore ==
    ASSUME NEW S, NEW a \in S, NEW b \in S, NEW c \in S, NEW r \in Seq(S)
    PROVE  /\ <<a, b, c>> \o r \in Seq(S) /\ Len(<<a, b, c>> \o r) = Len(r) + 3
           /\ (<<a, b, c>> \o r)[1] = a /\ (<<a, b, c>> \o r)[2] = b
           /\ (<<a, b, c>> \o r)[3] = c /\ From(<<a, b, c>> \o r, 4) = r
<1>1. /\ <<a, b, c>> \o r \in Seq(S) /\ Len(<<a, b, c>> \o r) = Len(r) + 3
      /\ (<<a, b, c>> \o r)[1] = a /\ (<<a, b, c>> \o r)[2] = b
      /\ (<<a, b, c>> \o r)[3] = c
  OBVIOUS
<1>2. QED  BY <1>1 DEF From

\* The function of the bytes that are left.
QpDecodes(d, w) ==
    /\ d \in [Texts -> Outcomes]
    /\ d[<<>>] = Decoded(<<>>)
    /\ \A c \in Symbols : \A r \in Texts :
           c # "=" /\ ~(c = "UND" /\ w) => d[<<c>> \o r] = Before(<<c>>, d[r])
    /\ w => \A r \in Texts : d[<<"UND">> \o r] = Before(<<"SP">>, d[r])
    /\ \A r \in Texts : d[<<"=", "LF">> \o r] = d[r]
    /\ \A h, l \in HexDigits : \A r \in Texts :
           d[<<"=", h, l>> \o r] = Before(<<ByteOf(h, l)>>, d[r])

\* qp_decode is the function that QpDecodes describes.
LEMMA QpDecodeFacts ==
    ASSUME NEW w PROVE \E d : QpDecodes(d, w) /\ \A s : qp_decode(s, w) = d[s]
<1> DEFINE
      Body(f, rest) ==
            IF rest = <<>> THEN Decoded(<<>>)
            ELSE IF rest[1] = "UND" /\ w THEN Before(<<"SP">>, f[From(rest, 2)])
            ELSE IF rest[1] # "=" THEN Before(<<rest[1]>>, f[From(rest, 2)])
            ELSE IF get(rest, 2) = "CR" /\ get(rest, 3) = "LF" THEN f[From(rest, 4)]
            ELSE IF get(rest, 2) = "LF" THEN f[From(rest, 3)]
            ELSE IF {get(rest, 2), get(rest, 3)} \subseteq HexDigits
                 THEN Before(<<ByteOf(rest[2], rest[3])>>, f[From(rest, 4)])
            ELSE Invalid
      g == [x \in Texts |-> [h \in [Shorter(x) -> Outcomes] |-> Body(h, x)]]
      F == CHOOSE f : f = [rest \in Texts |-> Body(f, rest)]
<1>0. /\ {"UND", "SP", "CR", "LF", "="} \subseteq Symbols /\ HexDigits \subseteq Symbols
      /\ {"UND", "CR", "LF", "=", "none"} \cap HexDigits = {}
      /\ \A c \in Symbols : <<c>> \in Texts
      /\ <<>> \in Texts
  <2>1. /\ {"UND", "SP", "CR", "LF", "="} \subseteq Symbols /\ HexDigits \subseteq Symbols
        /\ {"UND", "CR", "LF", "=", "none"} \cap HexDigits = {}
    BY DEF Symbols, HexDigits
  <2>2. \A c \in Symbols : <<c>> \in Texts
    BY DEF Texts
  <2>3. <<>> \in Texts
    BY DEF Texts
  <2>4. QED  BY <2>1, <2>2, <2>3, Zenon
<1>1. ASSUME NEW x \in Texts, NEW h \in [Shorter(x) -> Outcomes]
      PROVE  Body(h, x) \in Outcomes
  <2>1. CASE x = <<>>
    BY <1>0, <2>1, OutcomeFacts, Zenon
  <2>2. CASE x # <<>>
    <3>1. x[1] \in Symbols
      BY <2>2, HeadTail, Zenon
    <3>2. /\ h[From(x, 2)] \in Outcomes
          /\ get(x, 2) \in Symbols => h[From(x, 3)] \in Outcomes
          /\ get(x, 3) \in Symbols => h[From(x, 4)] \in Outcomes
      BY <2>2, RestFacts, Zenon
    <3>3. \A c \in Symbols : \A y \in Outcomes : Before(<<c>>, y) \in Outcomes
      BY <1>0, OutcomeFacts, Zenon
    <3>4. ASSUME {get(x, 2), get(x, 3)} \subseteq HexDigits
          PROVE  Before(<<ByteOf(x[2], x[3])>>, h[From(x, 4)]) \in Outcomes
      BY <1>0, <3>2, <3>3, <3>4, ByteIsSymbol, Zenon
    <3>5. ASSUME get(x, 2) = "CR" /\ get(x, 3) = "LF" PROVE h[From(x, 4)] \in Outcomes
      BY <1>0, <3>2, <3>5, Zenon
    <3>6. ASSUME get(x, 2) = "LF" PROVE h[From(x, 3)] \in Outcomes
      BY <1>0, <3>2, <3>6, Zenon
    <3>7. Before(<<"SP">>, h[From(x, 2)]) \in Outcomes /\ Before(<<x[1]>>, h[From(x, 2)]) \in Outcomes
      BY <1>0, <3>1, <3>2, <3>3, Zenon
    <3>8. QED  BY <2>2, <3>4, <3>5, <3>6, <3>7, OutcomeFacts, Zenon
  <2>3. QED  BY <2>1, <2>2, Zenon
<1>2. ASSUME NEW x \in Texts, NEW f PROVE Body(f, x) = Body(OfShorter(f, x), x)
  <2>1. CASE x = <<>>
    BY <2>1, Zenon
  <2>2. CASE x # <<>>
    <3>1. /\ OfShorter(f, x)[From(x, 2)] = f[From(x, 2)]
          /\ get(x, 2) \in Symbols => OfShorter(f, x)[From(x, 3)] = f[From(x, 3)]
          /\ get(x, 3) \in Symbols => OfShorter(f, x)[From(x, 4)] = f[From(x, 4)]
      BY <2>2, RestFacts, Zenon DEF OfShorter
    <3>2. /\ get(x, 2) = "LF" => OfShorter(f, x)[From(x, 3)] = f[From(x, 3)]
          /\ get(x, 2) = "CR" /\ get(x, 3) = "LF" => OfShorter(f, x)[From(x, 4)] = f[From(x, 4)]
          /\ {get(x, 2), get(x, 3)} \subseteq HexDigits
                 => OfShorter(f, x)[From(x, 4)] = f[From(x, 4)]
      BY <1>0, <3>1, Zenon
    <3>3. QED  BY <2>2, <3>1, <3>2, Zenon
  <2>3. QED  BY <2>1, <2>2, Zenon
<1>3. \A x \in Texts : \A h \in [Shorter(x) -> Outcomes] : g[x][h] = Body(h, x)
  BY Zenon
<1> HIDE DEF Body, g
<1>4. TextComputes(Outcomes, g)
  BY <1>1, <1>3, Zenon DEF TextComputes
<1>5. \E f : f = [rest \in Texts |-> Body(f, rest)]
  <2>1. PICK f : TextSolution(f, Outcomes, g)
    BY <1>4, TextSolutionFound, Zenon
  <2>2. \A x \in Texts : f[x] = Body(f, x)
    BY <1>2, <1>3, <2>1, Zenon DEF TextSolution
  <2>3. QED  BY <2>1, <2>2, Zenon DEF TextSolution
<1>6. F = [rest \in Texts |-> Body(F, rest)]
  BY <1>5, Zenon
<1>7. \A s : qp_decode(s, w) = F[s]
  BY Zenon DEF qp_decode, Body, Texts
<1> HIDE DEF F
<1>8. F = [s \in Texts |-> F[s]] /\ \A x \in Texts : F[x] = Body(F, x)
  BY <1>6, Zenon
<1>9. F \in [Texts -> Outcomes]
  <2>1. TextSolves(F, Outcomes, g)
    BY <1>2, <1>3, <1>8, Zenon DEF TextSolves
  <2>2. QED  BY <1>4, <2>1, TextTyped, Zenon
<1>10. F[<<>>] = Decoded(<<>>)
  BY <1>0, <1>8, Zenon DEF Body
<1>11. ASSUME NEW c \in Symbols, NEW r \in Texts
       PROVE  /\ c # "=" /\ ~(c = "UND" /\ w) => F[<<c>> \o r] = Before(<<c>>, F[r])
              /\ w /\ c = "UND" => F[<<c>> \o r] = Before(<<"SP">>, F[r])
  <2>1. /\ <<c>> \o r \in Texts /\ <<c>> \o r # <<>> /\ (<<c>> \o r)[1] = c
        /\ Tail(<<c>> \o r) = r
    BY Cons
  <2>2. From(<<c>> \o r, 2) = r
    BY <2>1, HeadTail, Zenon
  <2>3. F[<<c>> \o r] = Body(F, <<c>> \o r)
    BY <1>8, <2>1, Zenon
  <2>4. ASSUME c # "=", ~(c = "UND" /\ w) PROVE F[<<c>> \o r] = Before(<<c>>, F[r])
    BY <2>1, <2>2, <2>3, <2>4, Zenon DEF Body
  <2>5. ASSUME w, c = "UND" PROVE F[<<c>> \o r] = Before(<<"SP">>, F[r])
    BY <2>1, <2>2, <2>3, <2>5, Zenon DEF Body
  <2>6. QED  BY <2>4, <2>5, Zenon
<1>12. ASSUME NEW r \in Texts PROVE F[<<"=", "LF">> \o r] = F[r]
  <2> DEFINE x == <<"=", "LF">> \o r
  <2>1. /\ x \in Texts /\ x # <<>> /\ x[1] = "=" /\ get(x, 2) = "LF" /\ From(x, 3) = r
    <3>0. r \in Seq(Symbols) /\ Len(r) \in Nat
      BY DEF Texts
    <3>1. "=" \in Symbols /\ "LF" \in Symbols /\ r \in Seq(Symbols) /\ Len(r) \in Nat
      BY <1>0, <3>0, Zenon
    <3>2. /\ x \in Seq(Symbols) /\ Len(x) = Len(r) + 2 /\ x[1] = "=" /\ x[2] = "LF"
          /\ From(x, 3) = r
      BY <3>1, TwoBefore, SMTT(20)
    <3> HIDE DEF x
    <3>3. QED  BY <3>1, <3>2 DEF Texts, get
  <2> HIDE DEF x
  <2>2. F[x] = Body(F, x)
    BY <1>8, <2>1, Zenon
  <2>3. F[x] = F[r]
    BY <2>1, <2>2, Zenon DEF Body
  <2>4. QED  BY <2>3, Zenon DEF x
<1>13. ASSUME NEW h \in HexDigits, NEW l \in HexDigits, NEW r \in Texts
       PROVE  F[<<"=", h, l>> \o r] = Before(<<ByteOf(h, l)>>, F[r])
  <2> DEFINE x == <<"=", h, l>> \o r
  <2>1. /\ x \in Texts /\ x # <<>> /\ x[1] = "=" /\ x[2] = h /\ x[3] = l
        /\ get(x, 2) = h /\ get(x, 3) = l /\ From(x, 4) = r
    <3>1. /\ "=" \in Symbols /\ h \in Symbols /\ l \in Symbols
          /\ r \in Seq(Symbols) /\ Len(r) \in Nat
      <4>1. r \in Seq(Symbols) /\ Len(r) \in Nat
        BY DEF Texts
      <4>2. QED  BY <1>0, <4>1, Zenon
    <3>2. /\ x \in Seq(Symbols) /\ Len(x) = Len(r) + 3 /\ x[1] = "=" /\ x[2] = h
          /\ x[3] = l /\ From(x, 4) = r
      BY <3>1, ThreeBefore, SMTT(20)
    <3> HIDE DEF x
    <3>3. QED  BY <3>1, <3>2 DEF Texts, get
  <2> HIDE DEF x
  <2>2. F[x] = Body(F, x)
    BY <1>8, <2>1, Zenon
  <2>3. h # "CR" /\ h # "LF" /\ {h, l} \subseteq HexDigits
    BY <1>0, Zenon
  <2>4. "=" # "UND"
    OBVIOUS
  <2>5. F[x] = Before(<<ByteOf(h, l)>>, F[r])
    BY <2>1, <2>2, <2>3, <2>4, Zenon DEF Body
  <2>6. QED  BY <2>5, Zenon DEF x
<1>14. QpDecodes(F, w)
  <2>1. w => \A r \in Texts : F[<<"UND">> \o r] = Before(<<"SP">>, F[r])
    BY <1>0, <1>11, Zenon
  <2>2. \A c \in Symbols : \A r \in Texts :
           c # "=" /\ ~(c = "UND" /\ w) => F[<<c>> \o r] = Before(<<c>>, F[r])
    BY <1>11, Zenon
  <2>3. QED  BY <1>9, <1>10, <1>12, <1>13, <2>1, <2>2, Zenon DEF QpDecodes
<1>15. QED  BY <1>7, <1>14, Zenon

\* The texts and symbols that the encoders write.
LEMMA SmallTexts ==
    /\ <<>> \in Texts /\ CRLF \in Texts /\ SoftBreak \in Texts
    /\ \A c \in Symbols : <<c>> \in Texts
    /\ "=" \in Symbols /\ "LF" \in Symbols /\ "CR" \in Symbols /\ "SP" \in Symbols
    /\ "UND" \in Symbols /\ "?" \in Symbols
<1>1. /\ "=" \in Symbols /\ "LF" \in Symbols /\ "CR" \in Symbols /\ "SP" \in Symbols
      /\ "UND" \in Symbols /\ "?" \in Symbols
  BY DEF Symbols
<1>2. <<>> \in Texts /\ \A c \in Symbols : <<c>> \in Texts
  BY DEF Texts
<1>3. CRLF \in Texts
  BY <1>1 DEF CRLF, Texts
<1>4. SoftBreak \in Texts
  BY <1>1, <1>3, Cons, Zenon DEF SoftBreak
<1>5. QED  BY <1>1, <1>2, <1>3, <1>4, Zenon

\* Two texts joined are a text.
LEMMA Join == ASSUME NEW a \in Texts, NEW b \in Texts PROVE a \o b \in Texts
BY DEF Texts

\* Joining texts is associative.
LEMMA JoinThree ==
    ASSUME NEW a \in Texts, NEW b \in Texts, NEW c \in Texts
    PROVE  (a \o b) \o c = a \o (b \o c)
BY DEF Texts

\* Two symbols before a text, one at a time.
LEMMA SplitTwo ==
    ASSUME NEW a \in Symbols, NEW b \in Symbols, NEW r \in Texts
    PROVE  <<a, b>> \o r = <<a>> \o (<<b>> \o r)
<1> DEFINE x == <<a, b>> \o r
           y == <<a>> \o (<<b>> \o r)
           At(i) == IF i = 1 THEN a ELSE IF i = 2 THEN b ELSE r[i - 2]
<1>1. x \in Texts /\ Len(x) = Len(r) + 2 /\ \A i \in 1..Len(r) + 2 : x[i] = At(i)
  BY DEF Texts
<1>2. y \in Texts /\ Len(y) = Len(r) + 2 /\ \A i \in 1..Len(r) + 2 : y[i] = At(i)
  BY DEF Texts
<1> HIDE DEF x, y, At
<1>3. Len(x) = Len(y) /\ \A i \in 1..Len(x) : x[i] = y[i]
  BY <1>1, <1>2, Zenon
<1>4. x = y
  BY <1>1, <1>2, <1>3, SameSequence, Zenon DEF Texts
<1>5. QED  BY <1>4, Zenon DEF x, y

\* Three symbols before a text, one at a time.
LEMMA SplitThree ==
    ASSUME NEW a \in Symbols, NEW b \in Symbols, NEW c \in Symbols, NEW r \in Texts
    PROVE  <<a, b, c>> \o r = <<a>> \o (<<b>> \o (<<c>> \o r))
<1> DEFINE x == <<a, b, c>> \o r
           y == <<a>> \o (<<b, c>> \o r)
           At(i) == IF i = 1 THEN a ELSE IF i = 2 THEN b ELSE IF i = 3 THEN c ELSE r[i - 3]
<1>1. x \in Texts /\ Len(x) = Len(r) + 3 /\ \A i \in 1..Len(r) + 3 : x[i] = At(i)
  BY DEF Texts
<1>2. y \in Texts /\ Len(y) = Len(r) + 3 /\ \A i \in 1..Len(r) + 3 : y[i] = At(i)
  BY DEF Texts
<1> HIDE DEF x, y, At
<1>3. Len(x) = Len(y) /\ \A i \in 1..Len(x) : x[i] = y[i]
  BY <1>1, <1>2, Zenon
<1>4. x = y
  BY <1>1, <1>2, <1>3, SameSequence, Zenon DEF Texts
<1>5. <<b, c>> \o r = <<b>> \o (<<c>> \o r)
  BY SplitTwo, Zenon
<1>6. QED  BY <1>4, <1>5, Zenon DEF x, y

\* An escape before a text, one symbol at a time.
LEMMA SplitEscape ==
    ASSUME NEW h \in HexDigits, NEW l \in HexDigits, NEW r \in Texts
    PROVE  <<"=", h, l>> \o r = <<"=">> \o (<<h>> \o (<<l>> \o r))
<1>1. "=" \in Symbols /\ h \in Symbols /\ l \in Symbols
  BY DEF HexDigits, Symbols
<1>2. QED  BY <1>1, SplitThree, ZenonT(20)

\* Normalising keeps a symbol that is not a CR.
LEMMA NormalizePlain ==
    ASSUME NEW c \in Symbols, c # "CR", NEW r \in Texts
    PROVE  normalize_raw_message(<<c>> \o r) = <<c>> \o normalize_raw_message(r)
BY NormalizeFacts, Zenon

\* Normalising turns a CRLF into a LF.
LEMMA NormalizePair ==
    ASSUME NEW r \in Texts
    PROVE  normalize_raw_message(CRLF \o r) = <<"LF">> \o normalize_raw_message(r)
BY NormalizeFacts, Zenon

\* Normalising a text gives a text.
LEMMA NormalizeTyped ==
    ASSUME NEW r \in Texts PROVE normalize_raw_message(r) \in Texts
BY NormalizeFacts, Zenon

\* Output before what was decoded is decoded too.
LEMMA BeforeDecoded ==
    ASSUME NEW x \in Texts, NEW y \in Texts
    PROVE  Before(x, Decoded(y)) = Decoded(x \o y)
BY OutcomeFacts, Zenon

\* The decoder reads an escape as its byte.
LEMMA DecodeThree ==
    ASSUME NEW d, NEW w, QpDecodes(d, w), NEW h \in HexDigits, NEW l \in HexDigits,
           NEW r \in Texts
    PROVE  d[<<"=", h, l>> \o r] = Before(<<ByteOf(h, l)>>, d[r])
BY Zenon DEF QpDecodes

\* The decoder copies a symbol that is no escape and no underscore of a word.
LEMMA DecodePlain ==
    ASSUME NEW d, NEW w, QpDecodes(d, w), NEW c \in Symbols, c # "=", ~(c = "UND" /\ w),
           NEW r \in Texts
    PROVE  d[<<c>> \o r] = Before(<<c>>, d[r])
BY Zenon DEF QpDecodes

\* One token, after the line ends of the message have been normalised, is
\* decoded to its byte; a soft break is decoded to nothing.
LEMMA TokenSent ==
    ASSUME NEW d, QpDecodes(d, FALSE), NEW c \in Symbols, NEW u \in Texts
    PROVE  /\ d[normalize_raw_message(Token(c) \o u)] = Before(<<c>>, d[normalize_raw_message(u)])
           /\ d[normalize_raw_message(SoftBreak \o u)] = d[normalize_raw_message(u)]
<1> DEFINE v == normalize_raw_message(u)
<1>1. v \in Texts /\ HexDigits \subseteq Symbols /\ "CR" \notin HexDigits
  <2>1. HexDigits \subseteq Symbols /\ "CR" \notin HexDigits
    BY DEF HexDigits, Symbols
  <2>2. QED  BY <2>1, NormalizeTyped, Zenon
<1>2. d[normalize_raw_message(Token(c) \o u)] = Before(<<c>>, d[v])
  <2>1. CASE c \notin {"=", "CR"} /\ Token(c) = <<c>>
    <3>0. c # "=" /\ c # "CR"
      BY <2>1
    <3>1. normalize_raw_message(<<c>> \o u) = <<c>> \o v
      BY <3>0, NormalizePlain, Zenon
    <3>2. d[<<c>> \o v] = Before(<<c>>, d[v])
      BY <1>1, <3>0, DecodePlain, Zenon
    <3>3. QED  BY <2>1, <3>1, <3>2, Zenon
  <2>2. CASE \E h, l \in HexDigits : Token(c) = <<"=", h, l>> /\ ByteOf(h, l) = c
    <3>1. PICK h \in HexDigits, l \in HexDigits : Token(c) = <<"=", h, l>> /\ ByteOf(h, l) = c
      BY <2>2, Zenon
    <3>2. h \in Symbols /\ l \in Symbols /\ h # "CR" /\ l # "CR" /\ "=" # "CR" /\ "=" \in Symbols
      BY <1>1, SmallTexts, Zenon
    <3>3. <<l>> \o u \in Texts /\ <<h>> \o (<<l>> \o u) \in Texts
      BY <3>2, Cons, Zenon
    <3>4. normalize_raw_message(<<l>> \o u) = <<l>> \o v
      BY <3>2, NormalizePlain, Zenon
    <3>5. normalize_raw_message(<<h>> \o (<<l>> \o u)) = <<h>> \o (<<l>> \o v)
      BY <3>2, <3>3, <3>4, NormalizePlain, Zenon
    <3>6. normalize_raw_message(<<"=">> \o (<<h>> \o (<<l>> \o u)))
              = <<"=">> \o (<<h>> \o (<<l>> \o v))
      BY <3>2, <3>3, <3>5, NormalizePlain, Zenon
    <3>7. /\ <<"=", h, l>> \o u = <<"=">> \o (<<h>> \o (<<l>> \o u))
          /\ <<"=", h, l>> \o v = <<"=">> \o (<<h>> \o (<<l>> \o v))
      BY <1>1, SplitEscape, Zenon
    <3>8. d[<<"=", h, l>> \o v] = Before(<<ByteOf(h, l)>>, d[v])
      BY <1>1, DecodeThree, Zenon
    <3>9. QED  BY <3>1, <3>6, <3>7, <3>8, Zenon
  <2>3. QED  BY <2>1, <2>2, TokenFacts, Zenon
<1>3. d[normalize_raw_message(SoftBreak \o u)] = d[v]
  <2>1. SoftBreak \o u = <<"=">> \o (CRLF \o u)
    <3>1. <<"=">> \in Texts /\ CRLF \in Texts
      BY SmallTexts, Zenon
    <3>2. QED  BY <3>1, JoinThree, Zenon DEF SoftBreak
  <2>2. normalize_raw_message(CRLF \o u) = <<"LF">> \o v /\ CRLF \o u \in Texts
    BY NormalizePair, PairCons, Zenon
  <2>3. "=" # "CR" /\ "=" \in Symbols /\ "LF" \in Symbols
    BY SmallTexts, Zenon
  <2>4. normalize_raw_message(<<"=">> \o (CRLF \o u)) = <<"=">> \o (<<"LF">> \o v)
    BY <2>2, <2>3, NormalizePlain, Zenon
  <2>5. <<"=", "LF">> \o v = <<"=">> \o (<<"LF">> \o v)
    BY <1>1, <2>3, SplitTwo, Zenon
  <2>6. d[<<"=", "LF">> \o v] = d[v]
    BY <1>1, Zenon DEF QpDecodes
  <2>7. QED  BY <2>1, <2>4, <2>5, <2>6, Zenon
<1>4. QED  BY <1>2, <1>3, Zenon

\* Whatever the length of the line, what is encoded is decoded to the text
\* without the CRs of its CR LF pairs.
LEMMA EncodingIsUndone ==
    ASSUME NEW e, QpEncodes(e), NEW d, QpDecodes(d, FALSE)
    PROVE  \A s \in Texts : \A n \in Nat :
               d[normalize_raw_message(e[s][n])] = Decoded(PairToLF(s))
<1> DEFINE Holds(s) == \A n \in Nat : d[normalize_raw_message(e[s][n])] = Decoded(PairToLF(s))
           T == {s \in Texts : Holds(s)}
<1>1. ASSUME NEW s \in Texts, Shorter(s) \subseteq T PROVE s \in T
  <2> SUFFICES ASSUME NEW n \in Nat
               PROVE  d[normalize_raw_message(e[s][n])] = Decoded(PairToLF(s))
    BY Zenon
  <2>1. CASE s = <<>>
    <3>1. e[<<>>][n] = <<>> /\ d[<<>>] = Decoded(<<>>)
      BY Zenon DEF QpEncodes, QpDecodes
    <3>2. QED  BY <2>1, <3>1, NormalizeFacts, PairToLFFacts, Zenon
  <2>2. CASE s # <<>> /\ StartsWithCRLF(s)
    <3> DEFINE r == From(s, 3)
               v == normalize_raw_message(e[r][0])
    <3>1. r \in Texts /\ s = CRLF \o r /\ Holds(r)
      BY <1>1, <2>2, Pair, Zenon
    <3>2. e[r][0] \in Texts /\ e[s][n] = CRLF \o e[r][0]
      BY <3>1, Zenon DEF QpEncodes
    <3>3. normalize_raw_message(e[s][n]) = <<"LF">> \o v /\ v \in Texts
      BY <3>2, NormalizeFacts, Zenon
    <3>4. "LF" \in Symbols /\ "LF" # "=" /\ <<"LF">> \in Texts
      BY SmallTexts, Zenon
    <3>5. d[<<"LF">> \o v] = Before(<<"LF">>, d[v])
      BY <3>3, <3>4, DecodePlain, Zenon
    <3>6. d[v] = Decoded(PairToLF(r)) /\ PairToLF(r) \in Texts
      BY <3>1, PairToLFFacts, Zenon
    <3>7. d[normalize_raw_message(e[s][n])] = Decoded(<<"LF">> \o PairToLF(r))
      BY <3>3, <3>4, <3>5, <3>6, BeforeDecoded, Zenon
    <3>8. PairToLF(s) = <<"LF">> \o PairToLF(r)
      BY <3>1, PairToLFFacts, Zenon
    <3>9. QED  BY <3>7, <3>8, Zenon
  <2>3. CASE s # <<>> /\ ~StartsWithCRLF(s)
    <3> DEFINE c == Head(s)
               r == Tail(s)
               next == qp_push_token(n, Token(c))
               u == e[r][next.line_len]
               v == normalize_raw_message(u)
    <3>1. c \in Symbols /\ r \in Texts /\ s = <<c>> \o r /\ Holds(r)
      BY <1>1, <2>3, HeadTail, Zenon
    <3> HIDE DEF c, r
    <3>2. next.line_len \in Nat /\ Token(c) \in Texts /\ SoftBreak \in Texts
      BY <3>1, SmallTexts, PushedText, TokenFacts, Zenon
    <3>3. u \in Texts /\ e[s][n] = next.pushed \o u
      <4>1. u \in Texts
        BY <3>1, <3>2, Zenon DEF QpEncodes
      <4>2. e[s][n] = next.pushed \o u
        BY <2>3, <3>1, Zenon DEF QpEncodes
      <4>3. QED  BY <4>1, <4>2, Zenon
    <3>4. d[v] = Decoded(PairToLF(r)) /\ PairToLF(r) \in Texts
      BY <3>1, <3>2, PairToLFFacts, Zenon
    <3> HIDE DEF u
    <3>5. d[normalize_raw_message(Token(c) \o u)] = Before(<<c>>, d[v])
      BY <3>1, <3>3, TokenSent, Zenon
    <3>6. Token(c) \o u \in Texts
      BY <3>2, <3>3, Join, Zenon
    <3>7. d[normalize_raw_message(SoftBreak \o (Token(c) \o u))] = Before(<<c>>, d[v])
      BY <3>1, <3>5, <3>6, TokenSent, Zenon
    <3>8. next.pushed \o u = Token(c) \o u \/ next.pushed \o u = SoftBreak \o (Token(c) \o u)
      <4>1. next.pushed = Token(c) \/ next.pushed = SoftBreak \o Token(c)
        BY <3>2, PushFacts, Zenon
      <4>2. (SoftBreak \o Token(c)) \o u = SoftBreak \o (Token(c) \o u)
        BY <3>2, <3>3, JoinThree, Zenon
      <4>3. QED  BY <4>1, <4>2, Zenon
    <3>9. d[normalize_raw_message(e[s][n])] = Before(<<c>>, d[v])
      BY <3>3, <3>5, <3>7, <3>8, Zenon
    <3>10. <<c>> \in Texts
      BY <3>1 DEF Texts
    <3>11. Before(<<c>>, d[v]) = Decoded(<<c>> \o PairToLF(r))
      BY <3>4, <3>10, BeforeDecoded, Zenon
    <3>12. PairToLF(s) = <<c>> \o PairToLF(r)
      BY <2>3, <3>1, PairToLFFacts, Zenon
    <3>13. QED  BY <3>9, <3>11, <3>12, Zenon
  <2>4. QED  BY <2>1, <2>2, <2>3, Zenon
<1> HIDE DEF Holds
<1>2. \A s \in Texts : Shorter(s) \subseteq T => s \in T
  BY <1>1, Zenon
<1>3. Texts \subseteq T
  BY <1>2, TextInduction, Zenon
<1>4. QED  BY <1>3, Zenon DEF Holds

\* Texts without CR, which normalize_raw_message gives.
NoCR == Seq(Symbols \ {"CR"})

ToCRLF == [c \in Symbols |-> IF c = "LF" THEN CRLF ELSE <<c>>]

\* What every replacement is made of, the whole text is made of.
LEMMA ReplaceInto ==
    ASSUME NEW A, A \subseteq Symbols, NEW by \in [Symbols -> Seq(A)]
    PROVE  \A s \in Texts : Replace(s, by) \in Seq(A)
<1> DEFINE T == {s \in Texts : Replace(s, by) \in Seq(A)}
<1>1. by \in [Symbols -> Texts]
  <2>1. Seq(A) \subseteq Texts
    BY DEF Texts
  <2>2. QED  BY <2>1, Zenon
<1>2. ASSUME NEW s \in Texts, Shorter(s) \subseteq T PROVE s \in T
  <2>1. CASE s = <<>>
    <3>1. Replace(s, by) = <<>>
      BY <1>1, <2>1, ReplaceFacts, Zenon
    <3>2. <<>> \in Seq(A)
      OBVIOUS
    <3>3. QED  BY <3>1, <3>2, Zenon
  <2>2. CASE s # <<>>
    <3>1. Head(s) \in Symbols /\ Tail(s) \in Texts /\ Tail(s) \in T
          /\ s = <<Head(s)>> \o Tail(s)
      BY <1>2, <2>2, HeadTail, Zenon
    <3>2. Replace(s, by) = by[Head(s)] \o Replace(Tail(s), by)
      BY <1>1, <3>1, ReplaceFacts, Zenon
    <3>3. by[Head(s)] \in Seq(A) /\ Replace(Tail(s), by) \in Seq(A)
      BY <3>1, Zenon
    <3>4. by[Head(s)] \o Replace(Tail(s), by) \in Seq(A)
      BY <3>3
    <3>5. QED  BY <3>2, <3>4, Zenon
  <2>3. QED  BY <2>1, <2>2, Zenon
<1>3. Texts \subseteq T
  BY <1>2, TextInduction, Zenon
<1>4. QED  BY <1>3, Zenon

\* No CR is left in a normalised text.
LEMMA NormalizedHasNoCR == \A s \in Texts : normalize_raw_message(s) \in NoCR
<1>1. Symbols \ {"CR"} \subseteq Symbols /\ "LF" \in Symbols \ {"CR"}
  BY SmallTexts, Zenon
<1>2. \A c \in Symbols \ {"CR"} : <<c>> \in Seq(Symbols \ {"CR"})
  OBVIOUS
<1>3. ToLF \in [Symbols -> Seq(Symbols \ {"CR"})]
  BY <1>1, <1>2, Zenon DEF ToLF
<1>4. \A s \in Texts : PairToLF(s) \in Texts
  BY PairToLFFacts, Zenon
<1>5. \A s \in Texts : Replace(s, ToLF) \in Seq(Symbols \ {"CR"})
  BY <1>1, <1>3, ReplaceInto, Zenon
<1>6. QED  BY <1>4, <1>5, Zenon DEF normalize_raw_message, ToLF, NoCR

\* Reading CRLF as LF undoes writing LF as CRLF.
LEMMA ToCRLFIsUndone == \A s \in NoCR : PairToLF(Replace(s, ToCRLF)) = s
<1>0. /\ ToCRLF \in [Symbols -> Texts] /\ ToCRLF["LF"] = CRLF
      /\ \A c \in Symbols : c # "LF" => ToCRLF[c] = <<c>>
  <2>1. CRLF \in Texts /\ \A c \in Symbols : <<c>> \in Texts
    BY SmallTexts, Zenon
  <2>2. "LF" \in Symbols
    BY SmallTexts, Zenon
  <2>3. QED  BY <2>1, <2>2, Zenon DEF ToCRLF
<1> DEFINE by == ToCRLF
           T == {s \in Texts : s \in NoCR => PairToLF(Replace(s, by)) = s}
<1>1. /\ Replace(<<>>, by) = <<>>
      /\ \A s \in Texts : Replace(s, by) \in Texts
      /\ \A c \in Symbols : \A r \in Texts : Replace(<<c>> \o r, by) = by[c] \o Replace(r, by)
  BY <1>0, ReplaceFacts, Zenon
<1>2. ASSUME NEW s \in Texts, Shorter(s) \subseteq T PROVE s \in T
  <2> SUFFICES ASSUME s \in NoCR PROVE PairToLF(Replace(s, by)) = s
    BY Zenon
  <2>1. CASE s = <<>>
    BY <1>1, <2>1, PairToLFFacts, Zenon
  <2>2. CASE s # <<>>
    <3> DEFINE c == Head(s)
               r == Tail(s)
    <3>1. c \in Symbols /\ r \in T /\ r \in Texts /\ s = <<c>> \o r
      BY <1>2, <2>2, HeadTail, Zenon
    <3>2. c # "CR" /\ r \in NoCR
      BY <2>2 DEF NoCR
    <3> HIDE DEF c, r
    <3>3. PairToLF(Replace(r, by)) = r /\ Replace(r, by) \in Texts
      BY <1>1, <3>1, <3>2, Zenon
    <3>4. CASE c = "LF"
      <4>1. Replace(s, by) = CRLF \o Replace(r, by)
        BY <1>0, <1>1, <3>1, <3>4, Zenon
      <4>2. PairToLF(CRLF \o Replace(r, by)) = <<"LF">> \o PairToLF(Replace(r, by))
        BY <3>3, PairToLFFacts, Zenon
      <4>3. QED  BY <3>1, <3>3, <3>4, <4>1, <4>2, Zenon
    <3>5. CASE c # "LF"
      <4>1. Replace(s, by) = <<c>> \o Replace(r, by)
        BY <1>0, <1>1, <3>1, <3>5, ZenonT(40)
      <4>2. ~StartsWithCRLF(<<c>> \o Replace(r, by))
        BY <3>1, <3>2, <3>3, NoPairCons, Zenon
      <4>3. PairToLF(<<c>> \o Replace(r, by)) = <<c>> \o PairToLF(Replace(r, by))
        BY <3>1, <3>3, <4>2, PairToLFFacts, Zenon
      <4>4. QED  BY <3>1, <3>3, <4>1, <4>3, Zenon
    <3>6. QED  BY <3>4, <3>5, Zenon
  <2>3. QED  BY <2>1, <2>2, Zenon
<1>3. Texts \subseteq T
  BY <1>2, TextInduction, Zenon
<1>4. NoCR \subseteq Texts
  BY DEF NoCR, Texts
<1>5. QED  BY <1>3, <1>4, Zenon

\* The property of a text, which QpRoundTrips states of the state's text.
LEMMA QpRoundTrip ==
    ASSUME NEW s \in Texts
    PROVE  /\ qp_decode(normalize_raw_message(qp_encode(s)), FALSE) = Decoded(PairToLF(s))
           /\ qp_decode(normalize_raw_message(qp_encode(normalize_text_lines(s))), FALSE)
                  = Decoded(normalize_raw_message(s))
<1>1. PICK e : QpEncodes(e) /\ \A x : qp_encode(x) = e[x][0]
  BY QpEncodeFacts, Zenon
<1>2. PICK d : QpDecodes(d, FALSE) /\ \A x : qp_decode(x, FALSE) = d[x]
  BY QpDecodeFacts, Zenon
<1>3. 0 \in Nat
  OBVIOUS
<1>4. ASSUME NEW x \in Texts
      PROVE  qp_decode(normalize_raw_message(qp_encode(x)), FALSE) = Decoded(PairToLF(x))
  <2>1. d[normalize_raw_message(e[x][0])] = Decoded(PairToLF(x))
    BY <1>1, <1>2, <1>3, EncodingIsUndone, Zenon
  <2>2. QED  BY <1>1, <1>2, <2>1, Zenon
<1>5. normalize_text_lines(s) = Replace(normalize_raw_message(s), ToCRLF)
  BY Zenon DEF normalize_text_lines, ToCRLF
<1>6. normalize_raw_message(s) \in Texts /\ normalize_raw_message(s) \in NoCR
  BY NormalizeFacts, NormalizedHasNoCR, Zenon
<1>7. PairToLF(normalize_text_lines(s)) = normalize_raw_message(s)
  BY <1>5, <1>6, ToCRLFIsUndone, Zenon
<1>8. normalize_text_lines(s) \in Texts
  <2>1. ToCRLF \in [Symbols -> Texts]
    BY SmallTexts, Zenon DEF ToCRLF
  <2>2. QED  BY <1>5, <1>6, <2>1, ReplaceFacts, Zenon
<1>9. QED  BY <1>4, <1>7, <1>8, Zenon

(***************************************************************************)
(* The lengths of lines.                                                   *)
(***************************************************************************)

Measures(L) ==
    /\ L \in [Texts -> [Nat -> SUBSET Nat]]
    /\ \A n \in Nat : L[<<>>][n] = {n}
    /\ \A r \in Texts : \A n \in Nat : L[CRLF \o r][n] = {n} \cup L[r][0]
    /\ \A c \in Symbols : \A r \in Texts : \A n \in Nat :
           ~StartsWithCRLF(<<c>> \o r) => L[<<c>> \o r][n] = L[r][n + 1]

\* LineLengths is the function that Measures describes, from column 0.
LEMMA LineLengthsFacts == \E L : Measures(L) /\ \A s : LineLengths(s) = L[s][0]
<1> DEFINE R == [Nat -> SUBSET Nat]
           At(f, rest, n) == IF rest = <<>> THEN {n}
                             ELSE IF StartsWithCRLF(rest) THEN {n} \cup f[From(rest, 3)][0]
                             ELSE f[Tail(rest)][n + 1]
           Body(f, rest) == [n \in Nat |-> At(f, rest, n)]
           g == [x \in Texts |-> [h \in [Shorter(x) -> R] |-> Body(h, x)]]
           F == CHOOSE f : f = [rest \in Texts |-> Body(f, rest)]
<1>0. 0 \in Nat /\ \A n \in Nat : n + 1 \in Nat
  OBVIOUS
<1>1. ASSUME NEW x \in Texts, NEW h \in [Shorter(x) -> R] PROVE Body(h, x) \in R
  <2> SUFFICES ASSUME NEW n \in Nat PROVE At(h, x, n) \in SUBSET Nat
    BY Zenon
  <2>1. CASE x = <<>>
    BY <2>1, Zenon
  <2>2. CASE x # <<>> /\ StartsWithCRLF(x)
    <3>1. h[From(x, 3)][0] \in SUBSET Nat
      BY <1>0, <2>2, Pair, Zenon
    <3>2. QED  BY <2>2, <3>1, Zenon
  <2>3. CASE x # <<>> /\ ~StartsWithCRLF(x)
    <3>1. h[Tail(x)][n + 1] \in SUBSET Nat
      BY <1>0, <2>3, HeadTail, ZenonT(40)
    <3>2. QED  BY <2>3, <3>1, Zenon
  <2>4. QED  BY <2>1, <2>2, <2>3, Zenon
<1>2. ASSUME NEW x \in Texts, NEW f PROVE Body(f, x) = Body(OfShorter(f, x), x)
  <2>1. ASSUME NEW n \in Nat PROVE At(f, x, n) = At(OfShorter(f, x), x, n)
    <3> HIDE DEF At
    <3>1. CASE x = <<>>
      BY <3>1, Zenon DEF At
    <3>2. CASE x # <<>> /\ StartsWithCRLF(x)
      <4>1. OfShorter(f, x)[From(x, 3)] = f[From(x, 3)]
        BY <3>2, Pair, Zenon DEF OfShorter
      <4>2. QED  BY <3>2, <4>1, Zenon DEF At
    <3>3. CASE x # <<>> /\ ~StartsWithCRLF(x)
      <4>1. OfShorter(f, x)[Tail(x)] = f[Tail(x)]
        BY <3>3, HeadTail, Zenon DEF OfShorter
      <4>2. QED  BY <3>3, <4>1, Zenon DEF At
    <3>4. QED  BY <3>1, <3>2, <3>3, Zenon
  <2> HIDE DEF At
  <2>2. QED  BY <2>1, Zenon
<1>3. \A x \in Texts : \A h \in [Shorter(x) -> R] : g[x][h] = Body(h, x)
  BY Zenon
<1> HIDE DEF Body, g
<1>4. TextComputes(R, g)
  BY <1>1, <1>3, Zenon DEF TextComputes
<1>5. \E f : f = [rest \in Texts |-> Body(f, rest)]
  <2>1. PICK f : TextSolution(f, R, g)
    BY <1>4, TextSolutionFound, Zenon
  <2>2. \A x \in Texts : f[x] = Body(f, x)
    BY <1>2, <1>3, <2>1, Zenon DEF TextSolution
  <2>3. QED  BY <2>1, <2>2, Zenon DEF TextSolution
<1>6. F = [rest \in Texts |-> Body(F, rest)]
  BY <1>5, Zenon
<1>7. \A s : LineLengths(s) = F[s][0]
  BY Zenon DEF LineLengths, Body, Texts
<1> HIDE DEF F
<1>8. F = [s \in Texts |-> F[s]] /\ \A x \in Texts : F[x] = Body(F, x)
  BY <1>6, Zenon
<1>9. F \in [Texts -> R]
  <2>1. TextSolves(F, R, g)
    BY <1>2, <1>3, <1>8, Zenon DEF TextSolves
  <2>2. QED  BY <1>4, <2>1, TextTyped, Zenon
<1> HIDE DEF At
<1>10. \A x \in Texts : \A n \in Nat : F[x][n] = At(F, x, n)
  BY <1>8, Zenon DEF Body
<1>11. \A n \in Nat : F[<<>>][n] = {n}
  BY <1>10, SmallTexts, Zenon DEF At
<1>12. ASSUME NEW r \in Texts, NEW n \in Nat PROVE F[CRLF \o r][n] = {n} \cup F[r][0]
  <2>1. F[CRLF \o r][n] = At(F, CRLF \o r, n)
    BY <1>10, PairCons, Zenon
  <2>2. QED  BY <2>1, PairCons, Zenon DEF At
<1>13. ASSUME NEW c \in Symbols, NEW r \in Texts, NEW n \in Nat, ~StartsWithCRLF(<<c>> \o r)
       PROVE  F[<<c>> \o r][n] = F[r][n + 1]
  <2>1. /\ <<c>> \o r \in Texts /\ <<c>> \o r # <<>>
        /\ Head(<<c>> \o r) = c /\ Tail(<<c>> \o r) = r
    BY Cons, Zenon
  <2>2. F[<<c>> \o r][n] = At(F, <<c>> \o r, n)
    BY <1>10, <2>1, Zenon
  <2>3. QED  BY <1>13, <2>1, <2>2, Zenon DEF At
<1>14. Measures(F)
  BY <1>9, <1>11, <1>12, <1>13, Zenon DEF Measures
<1>15. QED  BY <1>7, <1>14, Zenon

Wraps(W, width) ==
    /\ W \in [Texts -> [Nat -> Texts]]
    /\ \A n \in Nat : W[<<>>][n] = <<>>
    /\ \A c \in Symbols : \A r \in Texts : \A n \in Nat :
           W[<<c>> \o r][n] = IF n >= width THEN CRLF \o (<<c>> \o W[r][1])
                              ELSE <<c>> \o W[r][n + 1]

\* wrap_ascii_line is the function that Wraps describes, from column 0.
LEMMA WrapFacts ==
    ASSUME NEW width
    PROVE  \E W : Wraps(W, width) /\ \A s : wrap_ascii_line(s, width) = W[s][0]
<1> DEFINE R == [Nat -> Texts]
           At(f, rest, n) == IF rest = <<>> THEN <<>>
                             ELSE IF n >= width
                             THEN CRLF \o <<Head(rest)>> \o f[Tail(rest)][1]
                             ELSE <<Head(rest)>> \o f[Tail(rest)][n + 1]
           Body(f, rest) == [n \in Nat |-> At(f, rest, n)]
           g == [x \in Texts |-> [h \in [Shorter(x) -> R] |-> Body(h, x)]]
           F == CHOOSE f : f = [rest \in Texts |-> Body(f, rest)]
<1>0. 1 \in Nat /\ \A n \in Nat : n + 1 \in Nat
  OBVIOUS
<1>1. ASSUME NEW x \in Texts, NEW h \in [Shorter(x) -> R] PROVE Body(h, x) \in R
  <2> SUFFICES ASSUME NEW n \in Nat PROVE At(h, x, n) \in Texts
    BY Zenon
  <2>1. CASE x = <<>>
    BY <2>1, SmallTexts, Zenon
  <2>2. CASE x # <<>>
    <3>1. Head(x) \in Symbols /\ h[Tail(x)][n + 1] \in Texts /\ h[Tail(x)][1] \in Texts
      BY <1>0, <2>2, HeadTail, Zenon
    <3>2. <<Head(x)>> \in Texts /\ CRLF \in Texts
      BY <3>1, SmallTexts, Zenon
    <3>3. <<Head(x)>> \o h[Tail(x)][n + 1] \in Texts
      BY <3>1, <3>2, Join, Zenon
    <3>4. CRLF \o <<Head(x)>> \in Texts
      BY <3>2, Join, Zenon
    <3>5. CRLF \o <<Head(x)>> \o h[Tail(x)][1] \in Texts
      BY <3>1, <3>4, Join, Zenon
    <3>6. QED  BY <2>2, <3>3, <3>5, Zenon
  <2>3. QED  BY <2>1, <2>2, Zenon
<1>2. ASSUME NEW x \in Texts, NEW f PROVE Body(f, x) = Body(OfShorter(f, x), x)
  <2>1. ASSUME NEW n \in Nat PROVE At(f, x, n) = At(OfShorter(f, x), x, n)
    <3> HIDE DEF At
    <3>1. CASE x = <<>>
      BY <3>1, Zenon DEF At
    <3>2. CASE x # <<>>
      <4>1. OfShorter(f, x)[Tail(x)] = f[Tail(x)]
        BY <3>2, HeadTail, Zenon DEF OfShorter
      <4>2. QED  BY <3>2, <4>1, Zenon DEF At
    <3>3. QED  BY <3>1, <3>2, Zenon
  <2> HIDE DEF At
  <2>2. QED  BY <2>1, Zenon
<1>3. \A x \in Texts : \A h \in [Shorter(x) -> R] : g[x][h] = Body(h, x)
  BY Zenon
<1> HIDE DEF Body, g
<1>4. TextComputes(R, g)
  BY <1>1, <1>3, Zenon DEF TextComputes
<1>5. \E f : f = [rest \in Texts |-> Body(f, rest)]
  <2>1. PICK f : TextSolution(f, R, g)
    BY <1>4, TextSolutionFound, Zenon
  <2>2. \A x \in Texts : f[x] = Body(f, x)
    BY <1>2, <1>3, <2>1, Zenon DEF TextSolution
  <2>3. QED  BY <2>1, <2>2, Zenon DEF TextSolution
<1>6. F = [rest \in Texts |-> Body(F, rest)]
  BY <1>5, Zenon
<1>7. \A s : wrap_ascii_line(s, width) = F[s][0]
  BY Zenon DEF wrap_ascii_line, Body, Texts
<1> HIDE DEF F
<1>8. F = [s \in Texts |-> F[s]] /\ \A x \in Texts : F[x] = Body(F, x)
  BY <1>6, Zenon
<1>9. F \in [Texts -> R]
  <2>1. TextSolves(F, R, g)
    BY <1>2, <1>3, <1>8, Zenon DEF TextSolves
  <2>2. QED  BY <1>4, <2>1, TextTyped, Zenon
<1> HIDE DEF At
<1>10. \A x \in Texts : \A n \in Nat : F[x][n] = At(F, x, n)
  BY <1>8, Zenon DEF Body
<1>11. \A n \in Nat : F[<<>>][n] = <<>>
  BY <1>10, SmallTexts, Zenon DEF At
<1>12. ASSUME NEW c \in Symbols, NEW r \in Texts, NEW n \in Nat
       PROVE  F[<<c>> \o r][n] = IF n >= width THEN CRLF \o (<<c>> \o F[r][1])
                                 ELSE <<c>> \o F[r][n + 1]
  <2>1. /\ <<c>> \o r \in Texts /\ <<c>> \o r # <<>>
        /\ Head(<<c>> \o r) = c /\ Tail(<<c>> \o r) = r
    BY Cons, Zenon
  <2>2. F[<<c>> \o r][n] = At(F, <<c>> \o r, n)
    BY <1>10, <2>1, Zenon
  <2>3. CRLF \in Texts /\ <<c>> \in Texts /\ F[r][1] \in Texts
    BY <1>0, <1>9, SmallTexts, Zenon
  <2>4. CRLF \o <<c>> \o F[r][1] = CRLF \o (<<c>> \o F[r][1])
    BY <2>3, JoinThree, ZenonT(40)
  <2>5. QED  BY <2>1, <2>2, <2>4, Zenon DEF At
<1>13. Wraps(F, width)
  BY <1>9, <1>11, <1>12, Zenon DEF Wraps
<1>14. QED  BY <1>7, <1>13, Zenon

\* A symbol that is not a CR lengthens the line by one.
LEMMA MeasurePlain ==
    ASSUME NEW L, Measures(L), NEW c \in Symbols, c # "CR", NEW r \in Texts, NEW n \in Nat
    PROVE  L[<<c>> \o r][n] = L[r][n + 1]
<1>1. ~StartsWithCRLF(<<c>> \o r)
  BY NoPairCons, Zenon
<1>2. \A x \in Symbols : \A y \in Texts : \A k \in Nat :
          ~StartsWithCRLF(<<x>> \o y) => L[<<x>> \o y][k] = L[y][k + 1]
  BY Zenon DEF Measures
<1>3. QED  BY <1>1, <1>2, Zenon

\* A token takes the columns of its symbols; a soft break ends its line one
\* column further on.
LEMMA TokenMeasured ==
    ASSUME NEW L, Measures(L), NEW c \in Symbols, NEW u \in Texts, NEW n \in Nat
    PROVE  L[Token(c) \o u][n] = L[u][n + Len(Token(c))]
<1>0. \A x \in Symbols : x # "CR" =>
          \A y \in Texts : \A k \in Nat : L[<<x>> \o y][k] = L[y][k + 1]
  BY MeasurePlain, Zenon
<1>1. CASE c \notin {"=", "CR"} /\ Token(c) = <<c>>
  <2>1. Len(<<c>>) = 1 /\ c # "CR"
    BY <1>1
  <2>2. L[<<c>> \o u][n] = L[u][n + 1]
    BY <2>1, MeasurePlain, Zenon
  <2>3. QED  BY <1>1, <2>1, <2>2, Zenon
<1>2. CASE \E h, l \in HexDigits : Token(c) = <<"=", h, l>> /\ ByteOf(h, l) = c
  <2>1. PICK h \in HexDigits, l \in HexDigits : Token(c) = <<"=", h, l>>
    BY <1>2, Zenon
  <2>2. h \in Symbols /\ l \in Symbols /\ h # "CR" /\ l # "CR" /\ "=" # "CR" /\ "=" \in Symbols
    BY DEF HexDigits, Symbols
  <2>3. <<l>> \o u \in Texts /\ <<h>> \o (<<l>> \o u) \in Texts
    BY <2>2, Cons, Zenon
  <2>4. n + 1 \in Nat /\ (n + 1) + 1 \in Nat /\ ((n + 1) + 1) + 1 = n + 3
    OBVIOUS
  <2>5. L[<<"=">> \o (<<h>> \o (<<l>> \o u))][n] = L[<<h>> \o (<<l>> \o u)][n + 1]
    BY <1>0, <2>2, <2>3, Zenon
  <2>6. L[<<h>> \o (<<l>> \o u)][n + 1] = L[<<l>> \o u][(n + 1) + 1]
    BY <1>0, <2>2, <2>3, <2>4, Zenon
  <2>7. L[<<l>> \o u][(n + 1) + 1] = L[u][((n + 1) + 1) + 1]
    BY <1>0, <2>2, <2>4, Zenon
  <2>8. <<"=", h, l>> \o u = <<"=">> \o (<<h>> \o (<<l>> \o u))
    BY SplitEscape, Zenon
  <2>9. Len(<<"=", h, l>>) = 3
    OBVIOUS
  <2>10. QED  BY <2>1, <2>4, <2>5, <2>6, <2>7, <2>8, <2>9, Zenon
<1>3. QED  BY <1>1, <1>2, TokenFacts, Zenon

\* A soft break ends the line, one symbol longer.
LEMMA SoftBreakMeasured ==
    ASSUME NEW L, Measures(L), NEW u \in Texts, NEW n \in Nat
    PROVE  L[SoftBreak \o u][n] = {n + 1} \cup L[u][0]
<1>1. SoftBreak \o u = <<"=">> \o (CRLF \o u)
  <2>1. <<"=">> \in Texts /\ CRLF \in Texts
    BY SmallTexts, Zenon
  <2>2. QED  BY <2>1, JoinThree, Zenon DEF SoftBreak
<1>2. CRLF \o u \in Texts /\ "=" \in Symbols /\ "=" # "CR"
  BY PairCons, SmallTexts, Zenon
<1>3. L[<<"=">> \o (CRLF \o u)][n] = L[CRLF \o u][n + 1]
  BY <1>2, MeasurePlain, Zenon
<1>4. n + 1 \in Nat
  OBVIOUS
<1>5. L[CRLF \o u][n + 1] = {n + 1} \cup L[u][0]
  BY <1>4, Zenon DEF Measures
<1>6. QED  BY <1>1, <1>3, <1>5, Zenon

\* No line of quoted-printable text is longer than QpWidth columns and "=".
LEMMA QpLinesFit ==
    ASSUME NEW s \in Texts PROVE \A m \in LineLengths(qp_encode(s)) : m <= QpWidth + 1
<1>1. PICK e : QpEncodes(e) /\ \A x : qp_encode(x) = e[x][0]
  BY QpEncodeFacts, Zenon
<1>2. PICK L : Measures(L) /\ \A x : LineLengths(x) = L[x][0]
  BY LineLengthsFacts, Zenon
<1>0. QpWidth \in Nat /\ QpWidth >= 3 /\ 0 \in Nat /\ 0 <= QpWidth
  BY LinesAssumption DEF LinesAssumption
<1>2a. \A c \in Symbols : \A u \in Texts : \A n \in Nat :
          L[Token(c) \o u][n] = L[u][n + Len(Token(c))]
  BY <1>2, TokenMeasured, Zenon
<1>2b. \A k \in 1..3 : 0 + k = k /\ k <= QpWidth
  BY <1>0
<1> DEFINE Fits(M) == \A m \in M : m <= QpWidth + 1
           Holds(x) == \A n \in Nat : n <= QpWidth => Fits(L[e[x][n]][n])
           T == {x \in Texts : Holds(x)}
<1>3. ASSUME NEW x \in Texts, Shorter(x) \subseteq T PROVE x \in T
  <2> SUFFICES ASSUME NEW n \in Nat, n <= QpWidth PROVE Fits(L[e[x][n]][n])
    BY Zenon
  <2>0. n <= QpWidth + 1 /\ n + 1 <= QpWidth + 1 /\ n + 1 \in Nat
    BY <1>0
  <2>1. CASE x = <<>>
    <3>1. L[e[x][n]][n] = {n}
      BY <1>1, <1>2, <2>1, Zenon DEF QpEncodes, Measures
    <3>2. QED  BY <2>0, <3>1, Zenon
  <2>2. CASE x # <<>> /\ StartsWithCRLF(x)
    <3> DEFINE r == From(x, 3)
    <3>1. r \in Texts /\ x = CRLF \o r /\ Holds(r)
      BY <1>3, <2>2, Pair, Zenon
    <3> HIDE DEF r
    <3>2. e[x][n] = CRLF \o e[r][0] /\ e[r][0] \in Texts
      BY <1>0, <1>1, <3>1, Zenon DEF QpEncodes
    <3>3. L[e[x][n]][n] = {n} \cup L[e[r][0]][0]
      BY <1>2, <3>2, Zenon DEF Measures
    <3>4. Fits(L[e[r][0]][0])
      BY <1>0, <3>1, Zenon
    <3>5. QED  BY <2>0, <3>3, <3>4, Zenon
  <2>3. CASE x # <<>> /\ ~StartsWithCRLF(x)
    <3> DEFINE c == Head(x)
               r == Tail(x)
               next == qp_push_token(n, Token(c))
               u == e[r][next.line_len]
    <3>1. c \in Symbols /\ r \in Texts /\ x = <<c>> \o r /\ Holds(r)
      BY <1>3, <2>3, HeadTail, Zenon
    <3> HIDE DEF c, r
    <3>2. /\ next.line_len \in Nat /\ Token(c) \in Texts /\ SoftBreak \in Texts
          /\ Len(Token(c)) \in 1..3
      BY <3>1, SmallTexts, PushedText, TokenFacts, Zenon
    <3>3. u \in Texts /\ e[x][n] = next.pushed \o u
      <4>1. u \in Texts
        BY <1>1, <3>1, <3>2, Zenon DEF QpEncodes
      <4>2. e[x][n] = next.pushed \o u
        BY <1>1, <2>3, <3>1, Zenon DEF QpEncodes
      <4>3. QED  BY <4>1, <4>2, Zenon
    <3>4. next.line_len <= QpWidth => Fits(L[u][next.line_len])
      BY <3>1, <3>2, Zenon
    <3> HIDE DEF u
    <3>5. CASE /\ next.pushed = Token(c) /\ n + Len(Token(c)) <= QpWidth
               /\ next.line_len = n + Len(Token(c))
      <4>1. L[Token(c) \o u][n] = L[u][n + Len(Token(c))]
        BY <1>2a, <3>1, <3>3, Zenon
      <4>2. QED  BY <3>3, <3>4, <3>5, <4>1, Zenon
    <3>6. CASE next.pushed = SoftBreak \o Token(c) /\ next.line_len = Len(Token(c))
      <4>1. Token(c) \o u \in Texts
        BY <3>2, <3>3, Join, Zenon
      <4>2. (SoftBreak \o Token(c)) \o u = SoftBreak \o (Token(c) \o u)
        BY <3>2, <3>3, JoinThree, ZenonT(40)
      <4>3. L[SoftBreak \o (Token(c) \o u)][n] = {n + 1} \cup L[Token(c) \o u][0]
        BY <1>2, <4>1, SoftBreakMeasured, Zenon
      <4>4. L[Token(c) \o u][0] = L[u][0 + Len(Token(c))]
        BY <1>0, <1>2a, <3>1, <3>3, Zenon
      <4>5. 0 + Len(Token(c)) = Len(Token(c)) /\ Len(Token(c)) <= QpWidth
        BY <1>2b, <3>2, Zenon
      <4>6. Fits(L[Token(c) \o u][0])
        BY <3>4, <3>6, <4>4, <4>5, Zenon
      <4>7. QED  BY <2>0, <3>3, <3>6, <4>2, <4>3, <4>6, Zenon
    <3>7. QED  BY <3>2, <3>5, <3>6, PushFacts, Zenon
  <2>4. QED  BY <2>1, <2>2, <2>3, Zenon
<1> HIDE DEF Holds
<1>4. Texts \subseteq T
  BY <1>3, TextInduction, Zenon
<1>5. Fits(L[e[s][0]][0])
  BY <1>0, <1>4, Zenon DEF Holds
<1>6. QED  BY <1>1, <1>2, <1>5, Zenon

\* No line of base64 text is longer than the width it is wrapped at.
LEMMA WrappedLinesFit ==
    ASSUME NEW s \in Texts, NEW width \in Nat \ {0}
    PROVE  \A m \in LineLengths(wrap_ascii_line(Compact(s), width)) : m <= width
<1>1. PICK W : Wraps(W, width) /\ \A x : wrap_ascii_line(x, width) = W[x][0]
  BY WrapFacts, Zenon
<1>2. PICK L : Measures(L) /\ \A x : LineLengths(x) = L[x][0]
  BY LineLengthsFacts, Zenon
<1>0. 0 \in Nat /\ 0 <= width /\ 1 \in Nat /\ 1 <= width /\ 0 + 1 = 1
  OBVIOUS
<1> DEFINE Fits(M) == \A m \in M : m <= width
           Holds(x) == x \in NoCR => \A n \in Nat : n <= width => Fits(L[W[x][n]][n])
           T == {x \in Texts : Holds(x)}
<1>3. ASSUME NEW x \in Texts, Shorter(x) \subseteq T PROVE x \in T
  <2> SUFFICES ASSUME x \in NoCR, NEW n \in Nat, n <= width PROVE Fits(L[W[x][n]][n])
    BY Zenon
  <2>1. CASE x = <<>>
    <3>1. L[W[x][n]][n] = {n}
      BY <1>1, <1>2, <2>1, Zenon DEF Wraps, Measures
    <3>2. QED  BY <3>1, Zenon
  <2>2. CASE x # <<>>
    <3> DEFINE c == Head(x)
               r == Tail(x)
    <3>1. c \in Symbols /\ r \in Texts /\ x = <<c>> \o r /\ Holds(r)
      BY <1>3, <2>2, HeadTail, Zenon
    <3>2. c # "CR" /\ r \in NoCR
      BY <2>2 DEF NoCR
    <3> HIDE DEF c, r
    <3>3. \A k \in Nat : k <= width => Fits(L[W[r][k]][k])
      BY <3>1, <3>2, Zenon
    <3>4. \A k \in Nat : W[r][k] \in Texts
      BY <1>1, <3>1, Zenon DEF Wraps
    <3>m. \A y \in Texts : \A k \in Nat : L[<<c>> \o y][k] = L[y][k + 1]
      BY <1>2, <3>1, <3>2, MeasurePlain, ZenonT(40)
    <3>5. CASE n >= width
      <4>1. W[x][n] = CRLF \o (<<c>> \o W[r][1])
        BY <1>1, <3>1, <3>5, Zenon DEF Wraps
      <4>2. W[r][1] \in Texts /\ <<c>> \o W[r][1] \in Texts
        BY <1>0, <3>1, <3>4, Cons, Zenon
      <4>3. L[W[x][n]][n] = {n} \cup L[<<c>> \o W[r][1]][0]
        BY <1>2, <4>1, <4>2, Zenon DEF Measures
      <4>4. L[<<c>> \o W[r][1]][0] = L[W[r][1]][0 + 1]
        BY <1>0, <3>m, <4>2, Zenon
      <4>5. Fits(L[W[r][1]][1])
        BY <1>0, <3>3, Zenon
      <4>6. QED  BY <1>0, <4>3, <4>4, <4>5, Zenon
    <3>6. CASE ~(n >= width)
      <4>1. W[x][n] = <<c>> \o W[r][n + 1]
        BY <1>1, <3>1, <3>6, Zenon DEF Wraps
      <4>2. n + 1 \in Nat /\ n + 1 <= width
        BY <3>6
      <4>3. L[<<c>> \o W[r][n + 1]][n] = L[W[r][n + 1]][n + 1]
        BY <3>m, <3>4, <4>2, Zenon
      <4>4. QED  BY <3>3, <4>1, <4>2, <4>3, Zenon
    <3>7. QED  BY <3>5, <3>6, Zenon
  <2>3. QED  BY <2>1, <2>2, Zenon
<1> HIDE DEF Holds
<1>4. Texts \subseteq T
  BY <1>3, TextInduction, Zenon
<1>5. Compact(s) \in NoCR
  <2> DEFINE by == [c \in Symbols |-> IF IsSpace(c) THEN <<>> ELSE <<c>>]
  <2>1. Symbols \ {"CR"} \subseteq Symbols /\ \A c \in Symbols : ~IsSpace(c) => c # "CR"
    BY DEF IsSpace
  <2>2. <<>> \in NoCR /\ \A c \in Symbols \ {"CR"} : <<c>> \in NoCR
    BY DEF NoCR
  <2>3. by \in [Symbols -> Seq(Symbols \ {"CR"})]
    BY <2>1, <2>2, Zenon DEF NoCR
  <2>4. Replace(s, by) \in Seq(Symbols \ {"CR"})
    <3> HIDE DEF by
    <3>1. QED  BY <2>1, <2>3, ReplaceInto, Zenon
  <2>5. QED  BY <2>4, Zenon DEF Compact, NoCR
<1>6. Compact(s) \in Texts
  BY <1>5 DEF NoCR, Texts
<1>7. Fits(L[W[Compact(s)][0]][0])
  BY <1>0, <1>4, <1>5, <1>6, Zenon DEF Holds
<1>8. QED  BY <1>1, <1>2, <1>7, Zenon

(***************************************************************************)
(* Encoded words.                                                          *)
(***************************************************************************)

\* Least is the least member.
LEMMA LeastIs ==
    ASSUME NEW T \in SUBSET Nat, T # {}
    PROVE  Least(T) \in T /\ \A j \in T : Least(T) <= j
<1>1. \E m \in T : \A k \in T : m <= k
  BY LeastNumber, Zenon
<1>2. QED  BY <1>1, Zenon DEF Least

\* Find gives 0, or the first index at which t begins.
LEMMA FindFacts ==
    ASSUME NEW s \in Texts, NEW t \in Texts, Len(t) \in 1..2
    PROVE  Find(t, s) = 0 \/ Find(t, s) \in 1..Len(s) - Len(t) + 1
<1> DEFINE at == {i \in 1..(Len(s) - Len(t) + 1) : SubSeq(s, i, i + Len(t) - 1) = t}
<1>1. at \in SUBSET Nat
  OBVIOUS
<1>2. Find(t, s) = IF at = {} THEN 0 ELSE Least(at)
  BY Zenon DEF Find
<1>3. ASSUME at # {} PROVE Least(at) \in at
  <2> HIDE DEF at
  <2>1. QED  BY <1>1, <1>3, LeastIs, Zenon
<1>4. QED  BY <1>2, <1>3, Zenon

\* Find gives k when t stands at k and its first symbol nowhere before.
LEMMA FindIs ==
    ASSUME NEW s \in Texts, NEW t \in Texts, Len(t) \in 1..2,
           NEW k \in 1..Len(s) - Len(t) + 1, SubSeq(s, k, k + Len(t) - 1) = t,
           \A j \in 1..k - 1 : s[j] # t[1]
    PROVE  Find(t, s) = k
<1> DEFINE at == {i \in 1..(Len(s) - Len(t) + 1) : SubSeq(s, i, i + Len(t) - 1) = t}
<1>0. Len(s) \in Nat /\ Len(t) \in Nat /\ k \in Nat
  BY DEF Texts
<1>1. at \in SUBSET Nat /\ k \in at
  OBVIOUS
<1>2. Find(t, s) = IF at = {} THEN 0 ELSE Least(at)
  BY Zenon DEF Find
<1>3. ASSUME NEW j \in at PROVE k <= j
  <2>1. j \in 1..(Len(s) - Len(t) + 1) /\ SubSeq(s, j, j + Len(t) - 1) = t
    OBVIOUS
  <2>2. SubSeq(s, j, j + Len(t) - 1)[1] = s[j]
    BY <1>0, <2>1 DEF Texts
  <2>3. t[1] = s[j]
    BY <2>1, <2>2, Zenon
  <2>4. j \notin 1..k - 1
    BY <2>3
  <2>5. QED  BY <1>0, <2>1, <2>4
<1> HIDE DEF at
<1>4. at # {} /\ Least(at) \in at /\ Least(at) <= k
  BY <1>1, LeastIs, Zenon
<1>5. Least(at) = k
  <2>1. k <= Least(at)
    BY <1>3, <1>4, Zenon
  <2>2. Least(at) \in Nat
    BY <1>1, <1>4, Zenon
  <2>3. QED  BY <1>0, <1>4, <2>1, <2>2
<1>6. QED  BY <1>2, <1>4, <1>5, Zenon

\* The rest of a text is a text.
LEMMA FromText ==
    ASSUME NEW s \in Texts, NEW i \in 1..Len(s) + 1
    PROVE  From(s, i) \in Texts /\ Len(From(s, i)) = Len(s) - i + 1
<1>1. s \in Seq(Symbols)
  BY DEF Texts
<1>2. From(s, i) \in Seq(Symbols) /\ Len(From(s, i)) = Len(s) - i + 1
  BY <1>1, FromFacts, Zenon
<1>3. QED  BY <1>2, Zenon DEF Texts

\* The delimiters of an encoded word are texts.
LEMMA Delimiters ==
    /\ <<"=", "?">> \in Texts /\ Len(<<"=", "?">>) = 2
    /\ <<"?">> \in Texts /\ Len(<<"?">>) = 1
    /\ CloseWord \in Texts /\ Len(CloseWord) = 2
<1>1. "=" \in Symbols /\ "?" \in Symbols
  BY SmallTexts, Zenon
<1>2. QED  BY <1>1 DEF Texts, CloseWord

\* Find gives 0 or a place where the delimiter fits.
LEMMA FindDelimiter ==
    ASSUME NEW s \in Texts
    PROVE  /\ Find(<<"=", "?">>, s) = 0 \/ Find(<<"=", "?">>, s) \in 1..Len(s) - 2 + 1
           /\ Find(<<"?">>, s) = 0 \/ Find(<<"?">>, s) \in 1..Len(s) - 1 + 1
           /\ Find(CloseWord, s) = 0 \/ Find(CloseWord, s) \in 1..Len(s) - 2 + 1
<1>1. 1 \in 1..2 /\ 2 \in 1..2
  OBVIOUS
<1>2. Find(<<"=", "?">>, s) = 0 \/ Find(<<"=", "?">>, s) \in 1..Len(s) - Len(<<"=", "?">>) + 1
  BY <1>1, Delimiters, FindFacts, Zenon
<1>3. Find(<<"?">>, s) = 0 \/ Find(<<"?">>, s) \in 1..Len(s) - Len(<<"?">>) + 1
  BY <1>1, Delimiters, FindFacts, Zenon
<1>4. Find(CloseWord, s) = 0 \/ Find(CloseWord, s) \in 1..Len(s) - Len(CloseWord) + 1
  BY <1>1, Delimiters, FindFacts, Zenon
<1>5. QED  BY <1>2, <1>3, <1>4, Delimiters, Zenon

\* The parts of a text with an encoded word in it.
LEMMA WordTyped ==
    ASSUME NEW x \in Texts, EncodedWord(x).found
    PROVE  /\ EncodedWord(x).before \in Texts /\ EncodedWord(x).text \in Texts
           /\ EncodedWord(x).after \in Shorter(x)
<1> DEFINE start == Find(<<"=", "?">>, x)
           after_start == From(x, start + 2)
           charset_end == Find(<<"?">>, after_start)
           after_charset == From(after_start, charset_end + 1)
           encoding_end == Find(<<"?">>, after_charset)
           after_encoding == From(after_charset, encoding_end + 1)
           text_end == Find(CloseWord, after_encoding)
<1>1. /\ start # 0 /\ charset_end # 0 /\ encoding_end # 0 /\ text_end # 0
      /\ EncodedWord(x).before = SubSeq(x, 1, start - 1)
      /\ EncodedWord(x).text = SubSeq(after_encoding, 1, text_end - 1)
      /\ EncodedWord(x).after = From(after_encoding, text_end + 2)
  BY Zenon DEF EncodedWord
<1>0. \A s \in Texts : Len(s) \in Nat
  BY DEF Texts
<1> HIDE DEF text_end
<1>2. start \in 1..Len(x) - 2 + 1
  BY <1>1, FindDelimiter, Zenon
<1> HIDE DEF start
<1>3. after_start \in Texts /\ Len(after_start) < Len(x)
  <2>1. start + 2 \in 1..Len(x) + 1
    BY <1>0, <1>2
  <2>2. after_start \in Texts /\ Len(after_start) = Len(x) - (start + 2) + 1
    BY <2>1, FromText, Zenon
  <2>3. QED  BY <1>0, <1>2, <2>2
<1> HIDE DEF after_start
<1>4. charset_end \in 1..Len(after_start) - 1 + 1
  BY <1>1, <1>3, FindDelimiter, Zenon
<1> HIDE DEF charset_end
<1>5. after_charset \in Texts /\ Len(after_charset) < Len(x)
  <2>1. charset_end + 1 \in 1..Len(after_start) + 1
    BY <1>0, <1>3, <1>4
  <2>2. after_charset \in Texts /\ Len(after_charset) = Len(after_start) - (charset_end + 1) + 1
    BY <1>3, <2>1, FromText, Zenon
  <2>3. QED  BY <1>0, <1>3, <1>4, <2>2
<1> HIDE DEF after_charset
<1>6. encoding_end \in 1..Len(after_charset) - 1 + 1
  BY <1>1, <1>5, FindDelimiter, Zenon
<1> HIDE DEF encoding_end
<1>7. after_encoding \in Texts /\ Len(after_encoding) < Len(x)
  <2>1. encoding_end + 1 \in 1..Len(after_charset) + 1
    BY <1>0, <1>5, <1>6
  <2>2. after_encoding \in Texts
        /\ Len(after_encoding) = Len(after_charset) - (encoding_end + 1) + 1
    BY <1>5, <2>1, FromText, Zenon
  <2>3. QED  BY <1>0, <1>5, <1>6, <2>2
<1> HIDE DEF after_encoding
<1>8. text_end \in 1..Len(after_encoding) - 2 + 1
  BY <1>1, <1>7, FindDelimiter, Zenon DEF text_end
<1>9. From(after_encoding, text_end + 2) \in Shorter(x)
  <2>1. text_end + 2 \in 1..Len(after_encoding) + 1
    BY <1>0, <1>7, <1>8
  <2>2. From(after_encoding, text_end + 2) \in Texts
        /\ Len(From(after_encoding, text_end + 2)) = Len(after_encoding) - (text_end + 2) + 1
    BY <1>7, <2>1, FromText, Zenon
  <2>3. Len(From(after_encoding, text_end + 2)) < Len(x)
    BY <1>0, <1>7, <1>8, <2>2
  <2>4. QED  BY <2>2, <2>3, Zenon DEF Shorter
<1>10. SubSeq(x, 1, start - 1) \in Texts
  BY <1>0, <1>2 DEF Texts
<1>11. SubSeq(after_encoding, 1, text_end - 1) \in Texts
  BY <1>0, <1>7, <1>8 DEF Texts
<1>12. QED  BY <1>1, <1>9, <1>10, <1>11, Zenon

\* One turn of the loop: a text without an encoded word, and one that begins
\* with one.
LEMMA DecodeWordsFacts ==
    /\ \A x \in Texts : ~EncodedWord(x).found => decode_encoded_words(x) = Decoded(x)
    /\ \A x \in Texts :
           /\ EncodedWord(x).found /\ EncodedWord(x).charset = <<"U">>
           /\ EncodedWord(x).encoding = <<"Q">> /\ qp_decode(EncodedWord(x).text, TRUE).ok
           => decode_encoded_words(x) =
                  Before(EncodedWord(x).before \o qp_decode(EncodedWord(x).text, TRUE).out,
                         decode_encoded_words(EncodedWord(x).after))
<1> DEFINE
      Body(f, rest) ==
          IF ~EncodedWord(rest).found THEN Decoded(rest)
          ELSE IF /\ EncodedWord(rest).charset = <<"U">>
                  /\ EncodedWord(rest).encoding = <<"Q">>
                  /\ qp_decode(EncodedWord(rest).text, TRUE).ok
          THEN Before(EncodedWord(rest).before \o qp_decode(EncodedWord(rest).text, TRUE).out,
                      f[EncodedWord(rest).after])
          ELSE Invalid
      g == [x \in Texts |-> [h \in [Shorter(x) -> Outcomes] |-> Body(h, x)]]
      F == CHOOSE f : f = [rest \in Texts |-> Body(f, rest)]
<1>0. ASSUME NEW x \in Texts, qp_decode(x, TRUE).ok PROVE qp_decode(x, TRUE).out \in Texts
  <2>1. PICK d : QpDecodes(d, TRUE) /\ \A s : qp_decode(s, TRUE) = d[s]
    BY QpDecodeFacts, Zenon
  <2>2. qp_decode(x, TRUE) \in Outcomes
    BY <2>1, Zenon DEF QpDecodes
  <2>3. ~Invalid.ok
    BY DEF Invalid
  <2>4. \E y \in Texts : qp_decode(x, TRUE) = Decoded(y)
    BY <1>0, <2>2, <2>3, Zenon DEF Outcomes
  <2>5. QED  BY <2>4, OutcomeFacts, Zenon
<1>1. ASSUME NEW x \in Texts, NEW h \in [Shorter(x) -> Outcomes]
      PROVE  Body(h, x) \in Outcomes
  <2>1. CASE ~EncodedWord(x).found
    BY <2>1, OutcomeFacts, Zenon
  <2>2. CASE EncodedWord(x).found /\ qp_decode(EncodedWord(x).text, TRUE).ok
    <3>1. /\ EncodedWord(x).before \in Texts /\ EncodedWord(x).text \in Texts
          /\ h[EncodedWord(x).after] \in Outcomes
      BY <2>2, WordTyped, Zenon
    <3>2. EncodedWord(x).before \o qp_decode(EncodedWord(x).text, TRUE).out \in Texts
      BY <1>0, <2>2, <3>1, Join, Zenon
    <3>3. Before(EncodedWord(x).before \o qp_decode(EncodedWord(x).text, TRUE).out,
                 h[EncodedWord(x).after]) \in Outcomes
      BY <3>1, <3>2, OutcomeFacts, Zenon
    <3>4. QED  BY <3>3, OutcomeFacts, Zenon
  <2>3. CASE EncodedWord(x).found /\ ~qp_decode(EncodedWord(x).text, TRUE).ok
    BY <2>3, OutcomeFacts, Zenon
  <2>4. QED  BY <2>1, <2>2, <2>3, Zenon
<1>2. ASSUME NEW x \in Texts, NEW f PROVE Body(f, x) = Body(OfShorter(f, x), x)
  <2>1. CASE ~EncodedWord(x).found
    BY <2>1, Zenon
  <2>2. CASE EncodedWord(x).found
    <3>1. OfShorter(f, x)[EncodedWord(x).after] = f[EncodedWord(x).after]
      BY <2>2, WordTyped, Zenon DEF OfShorter
    <3>2. QED  BY <2>2, <3>1, Zenon
  <2>3. QED  BY <2>1, <2>2, Zenon
<1>3. \A x \in Texts : \A h \in [Shorter(x) -> Outcomes] : g[x][h] = Body(h, x)
  BY Zenon
<1> HIDE DEF Body, g
<1>4. TextComputes(Outcomes, g)
  BY <1>1, <1>3, Zenon DEF TextComputes
<1>5. \E f : f = [rest \in Texts |-> Body(f, rest)]
  <2>1. PICK f : TextSolution(f, Outcomes, g)
    BY <1>4, TextSolutionFound, Zenon
  <2>2. \A x \in Texts : f[x] = Body(f, x)
    BY <1>2, <1>3, <2>1, Zenon DEF TextSolution
  <2>3. QED  BY <2>1, <2>2, Zenon DEF TextSolution
<1>6. F = [rest \in Texts |-> Body(F, rest)]
  BY <1>5, Zenon
<1>7. \A s : decode_encoded_words(s) = F[s]
  BY Zenon DEF decode_encoded_words, Body, Texts
<1> HIDE DEF F
<1>8. \A x \in Texts : F[x] = Body(F, x)
  BY <1>6, Zenon
<1>9. ASSUME NEW x \in Texts, ~EncodedWord(x).found PROVE decode_encoded_words(x) = Decoded(x)
  BY <1>7, <1>8, <1>9, Zenon DEF Body
<1>10. ASSUME NEW x \in Texts,
              EncodedWord(x).found /\ EncodedWord(x).charset = <<"U">>,
              EncodedWord(x).encoding = <<"Q">> /\ qp_decode(EncodedWord(x).text, TRUE).ok
       PROVE  decode_encoded_words(x) =
                  Before(EncodedWord(x).before \o qp_decode(EncodedWord(x).text, TRUE).out,
                         decode_encoded_words(EncodedWord(x).after))
  <2>1. F[x] = Before(EncodedWord(x).before \o qp_decode(EncodedWord(x).text, TRUE).out,
                      F[EncodedWord(x).after])
    BY <1>8, <1>10, Zenon DEF Body
  <2>2. QED  BY <1>7, <2>1, Zenon
<1>11. QED  BY <1>9, <1>10, Zenon

\* The text of a byte in an encoded word: no question mark.
LEMMA WordTokenFacts ==
    ASSUME NEW c \in Symbols
    PROVE  /\ WordToken(c) \in Seq(Symbols \ {"?"})
           /\ \/ c = "SP" /\ WordToken(c) = <<"UND">>
              \/ c \notin {"=", "UND"} /\ WordToken(c) = <<c>>
              \/ \E h, l \in HexDigits : WordToken(c) = <<"=", h, l>> /\ ByteOf(h, l) = c
<1>0. /\ HexDigits \subseteq Symbols \ {"?"} /\ "=" \in Symbols \ {"?"}
      /\ "UND" \in Symbols \ {"?"}
  BY DEF HexDigits, Symbols
<1>1. CASE c = "SP"
  <2>1. WordToken(c) = <<"UND">>
    BY <1>1, Zenon DEF WordToken
  <2>2. <<"UND">> \in Seq(Symbols \ {"?"})
    BY <1>0
  <2>3. QED  BY <1>1, <2>1, <2>2, Zenon
<1>2. CASE c # "SP" /\ c \in Escaped
  <2>1. PICK h \in HexDigits, l \in HexDigits : hex_pair(c) = <<h, l>> /\ ByteOf(h, l) = c
    BY <1>2, HexFacts, Zenon
  <2>2. h \in Symbols \ {"?"} /\ l \in Symbols \ {"?"} /\ "=" \in Symbols \ {"?"}
    BY <1>0, Zenon
  <2>3. <<"=">> \o <<h, l>> = <<"=", h, l>>
    BY <2>2, Triple
  <2>4. WordToken(c) = <<"=", h, l>>
    BY <1>2, <2>1, <2>3, Zenon DEF WordToken
  <2>5. <<"=", h, l>> \in Seq(Symbols \ {"?"})
    BY <2>2
  <2>6. QED  BY <2>1, <2>4, <2>5, Zenon
<1>3. CASE c # "SP" /\ c \notin Escaped
  <2>1. WordToken(c) = <<c>>
    BY <1>3, Zenon DEF WordToken
  <2>2. c \notin {"=", "UND"} /\ c \in Symbols \ {"?"}
    BY <1>3 DEF Escaped
  <2>3. <<c>> \in Seq(Symbols \ {"?"})
    BY <2>2
  <2>4. QED  BY <2>1, <2>2, <2>3, Zenon
<1>4. QED  BY <1>1, <1>2, <1>3, Zenon

WordTokens == [c \in Symbols |-> WordToken(c)]

\* What an encoded word holds has no question mark.
LEMMA WordTokensFacts ==
    /\ WordTokens \in [Symbols -> Texts]
    /\ \A s \in Texts : Replace(s, WordTokens) \in Seq(Symbols \ {"?"})
<1>1. Symbols \ {"?"} \subseteq Symbols /\ WordTokens \in [Symbols -> Seq(Symbols \ {"?"})]
  BY WordTokenFacts, Zenon DEF WordTokens
<1>2. Seq(Symbols \ {"?"}) \subseteq Texts
  BY DEF Texts
<1>3. \A s \in Texts : Replace(s, WordTokens) \in Seq(Symbols \ {"?"})
  BY <1>1, ReplaceInto, Zenon
<1>4. QED  BY <1>1, <1>2, <1>3, Zenon

\* The body of an encoded word is decoded to the text it was made from.
LEMMA WordIsUndone == \A s \in Texts : qp_decode(Replace(s, WordTokens), TRUE) = Decoded(s)
<1>1. PICK d : QpDecodes(d, TRUE) /\ \A x : qp_decode(x, TRUE) = d[x]
  BY QpDecodeFacts, Zenon
<1> DEFINE by == WordTokens
           T == {s \in Texts : d[Replace(s, by)] = Decoded(s)}
<1>2. /\ Replace(<<>>, by) = <<>>
      /\ \A s \in Texts : Replace(s, by) \in Texts
      /\ \A c \in Symbols : \A r \in Texts : Replace(<<c>> \o r, by) = by[c] \o Replace(r, by)
  BY WordTokensFacts, ReplaceFacts, Zenon
<1>3. ASSUME NEW s \in Texts, Shorter(s) \subseteq T PROVE s \in T
  <2>1. CASE s = <<>>
    <3>1. d[<<>>] = Decoded(<<>>)
      BY <1>1, Zenon DEF QpDecodes
    <3>2. QED  BY <1>2, <2>1, <3>1, Zenon
  <2>2. CASE s # <<>>
    <3> DEFINE c == Head(s)
               r == Tail(s)
               u == Replace(r, by)
    <3>1. c \in Symbols /\ r \in Texts /\ s = <<c>> \o r /\ d[u] = Decoded(r)
      BY <1>3, <2>2, HeadTail, Zenon
    <3> HIDE DEF c, r
    <3>2. u \in Texts /\ Replace(s, by) = WordToken(c) \o u
      BY <1>2, <3>1, Zenon DEF WordTokens
    <3> HIDE DEF u
    <3>3. d[WordToken(c) \o u] = Before(<<c>>, d[u])
      <4>1. CASE c = "SP" /\ WordToken(c) = <<"UND">>
        <5>1. d[<<"UND">> \o u] = Before(<<"SP">>, d[u])
          BY <1>1, <3>2, Zenon DEF QpDecodes
        <5>2. QED  BY <4>1, <5>1, Zenon
      <4>2. CASE c \notin {"=", "UND"} /\ WordToken(c) = <<c>>
        <5>1. c # "=" /\ c # "UND"
          BY <4>2
        <5>2. d[<<c>> \o u] = Before(<<c>>, d[u])
          BY <1>1, <3>1, <3>2, <5>1, DecodePlain, Zenon
        <5>3. QED  BY <4>2, <5>2, Zenon
      <4>3. CASE \E h, l \in HexDigits : WordToken(c) = <<"=", h, l>> /\ ByteOf(h, l) = c
        <5>1. PICK h \in HexDigits, l \in HexDigits :
                  WordToken(c) = <<"=", h, l>> /\ ByteOf(h, l) = c
          BY <4>3, Zenon
        <5>2. d[<<"=", h, l>> \o u] = Before(<<ByteOf(h, l)>>, d[u])
          BY <1>1, <3>2, DecodeThree, Zenon
        <5>3. QED  BY <5>1, <5>2, Zenon
      <4>4. QED  BY <3>1, <4>1, <4>2, <4>3, WordTokenFacts, Zenon
    <3>4. <<c>> \in Texts
      BY <3>1, SmallTexts, Zenon
    <3>5. Before(<<c>>, d[u]) = Decoded(<<c>> \o r)
      BY <3>1, <3>4, BeforeDecoded, Zenon
    <3>6. QED  BY <3>1, <3>2, <3>3, <3>5, Zenon
  <2>3. QED  BY <2>1, <2>2, Zenon
<1>4. Texts \subseteq T
  BY <1>3, TextInduction, Zenon
<1>5. QED  BY <1>1, <1>4, Zenon

\* A subsequence of one symbol.
LEMMA SubOne ==
    ASSUME NEW s \in Texts, NEW k \in 1..Len(s)
    PROVE  SubSeq(s, k, k) = <<s[k]>>
<1>1. s \in Seq(Symbols) /\ Len(s) \in Nat /\ s[k] \in Symbols
  BY DEF Texts
<1>2. SubSeq(s, k, k) \in Seq(Symbols) /\ Len(SubSeq(s, k, k)) = 1 /\ SubSeq(s, k, k)[1] = s[k]
  BY <1>1
<1>3. <<s[k]>> \in Seq(Symbols) /\ Len(<<s[k]>>) = 1 /\ <<s[k]>>[1] = s[k]
  BY <1>1
<1>4. \A i \in 1..1 : i = 1
  OBVIOUS
<1>5. QED  BY <1>2, <1>3, <1>4, SameSequence, Zenon

\* A subsequence of two symbols.
LEMMA SubTwo ==
    ASSUME NEW s \in Texts, NEW k \in 1..Len(s) - 1
    PROVE  SubSeq(s, k, k + 1) = <<s[k], s[k + 1]>>
<1>1. s \in Seq(Symbols) /\ Len(s) \in Nat /\ s[k] \in Symbols /\ s[k + 1] \in Symbols
  BY DEF Texts
<1>2. /\ SubSeq(s, k, k + 1) \in Seq(Symbols) /\ Len(SubSeq(s, k, k + 1)) = 2
      /\ SubSeq(s, k, k + 1)[1] = s[k] /\ SubSeq(s, k, k + 1)[2] = s[k + 1]
  BY <1>1
<1>3. /\ <<s[k], s[k + 1]>> \in Seq(Symbols) /\ Len(<<s[k], s[k + 1]>>) = 2
      /\ <<s[k], s[k + 1]>>[1] = s[k] /\ <<s[k], s[k + 1]>>[2] = s[k + 1]
  BY <1>1
<1>4. \A i \in 1..2 : i = 1 \/ i = 2
  OBVIOUS
<1>5. QED  BY <1>2, <1>3, <1>4, SameSequence, Zenon

\* Find for a question mark.
LEMMA FindOne ==
    ASSUME NEW s \in Texts, NEW k \in 1..Len(s), s[k] = "?", \A j \in 1..k - 1 : s[j] # "?"
    PROVE  Find(<<"?">>, s) = k
<1> DEFINE t == <<"?">>
<1>1. t \in Texts /\ Len(t) = 1 /\ t[1] = "?" /\ Len(s) \in Nat
  BY Delimiters DEF Texts
<1>2. SubSeq(s, k, k) = t
  BY SubOne, Zenon
<1> HIDE DEF t
<1>3. /\ Len(t) \in 1..2 /\ k \in 1..Len(s) - Len(t) + 1 /\ k + Len(t) - 1 = k
  BY <1>1
<1>4. SubSeq(s, k, k + Len(t) - 1) = t /\ \A j \in 1..k - 1 : s[j] # t[1]
  BY <1>1, <1>2, <1>3, Zenon
<1>5. Find(t, s) = k
  BY <1>1, <1>3, <1>4, FindIs, Zenon
<1>6. QED  BY <1>5, Zenon DEF t

\* Find for two symbols.
LEMMA FindTwo ==
    ASSUME NEW s \in Texts, NEW a \in Symbols, NEW b \in Symbols, NEW k \in 1..Len(s) - 1,
           s[k] = a, s[k + 1] = b, \A j \in 1..k - 1 : s[j] # a
    PROVE  Find(<<a, b>>, s) = k
<1> DEFINE t == <<a, b>>
<1>1. t \in Texts /\ Len(t) = 2 /\ t[1] = a /\ Len(s) \in Nat
  BY DEF Texts
<1>2. SubSeq(s, k, k + 1) = t
  BY SubTwo, Zenon
<1> HIDE DEF t
<1>3. /\ Len(t) \in 1..2 /\ k \in 1..Len(s) - Len(t) + 1 /\ k + Len(t) - 1 = k + 1
  BY <1>1
<1>4. SubSeq(s, k, k + Len(t) - 1) = t /\ \A j \in 1..k - 1 : s[j] # t[1]
  BY <1>1, <1>2, <1>3, Zenon
<1>5. Find(t, s) = k
  BY <1>1, <1>3, <1>4, FindIs, Zenon
<1>6. QED  BY <1>5, Zenon DEF t

\* An encoded word opens at the first symbol.
LEMMA FindOpen ==
    ASSUME NEW s \in Texts, Len(s) >= 2, s[1] = "=", s[2] = "?"
    PROVE  Find(<<"=", "?">>, s) = 1
<1>1. 1 \in 1..Len(s) - 1 /\ s[1 + 1] = "?" /\ \A j \in 1..1 - 1 : s[j] # "="
  BY DEF Texts
<1>2. "=" \in Symbols /\ "?" \in Symbols
  BY SmallTexts, Zenon
<1>3. QED  BY <1>1, <1>2, FindTwo, ZenonT(40)

\* An encoded word closes after its n symbols.
LEMMA FindClose ==
    ASSUME NEW n \in Nat, NEW s \in Texts, Len(s) = n + 2, s[n + 1] = "?", s[n + 2] = "=",
           \A j \in 1..n : s[j] # "?"
    PROVE  Find(CloseWord, s) = n + 1
<1>1. n + 1 \in 1..Len(s) - 1 /\ (n + 1) + 1 = n + 2 /\ (n + 1) - 1 = n
  OBVIOUS
<1>2. "=" \in Symbols /\ "?" \in Symbols
  BY SmallTexts, Zenon
<1>3. s[(n + 1) + 1] = "=" /\ \A j \in 1..(n + 1) - 1 : s[j] # "?"
  BY <1>1, Zenon
<1>4. Find(<<"?", "=">>, s) = n + 1
  BY <1>1, <1>2, <1>3, FindTwo, SMTT(20)
<1>5. QED  BY <1>4, Zenon DEF CloseWord

\* z is x and then y.
Joined(z, x, y) ==
    /\ Len(z) = Len(x) + Len(y)
    /\ \A i \in 1..Len(x) : z[i] = x[i]
    /\ \A i \in 1..Len(y) : z[Len(x) + i] = y[i]

\* The elements of two sequences joined.
LEMMA ConcatIndex ==
    ASSUME NEW S, NEW x \in Seq(S), NEW y \in Seq(S)
    PROVE  x \o y \in Seq(S) /\ Joined(x \o y, x, y)
BY DEF Joined

\* The symbols of an encoded word whose body is b.
LEMMA WordSymbols ==
    ASSUME NEW b \in Seq(Symbols \ {"?"})
    PROVE  LET v == OpenWord \o b \o CloseWord
           IN /\ v \in Texts /\ Len(v) = Len(b) + 8
              /\ v[1] = "=" /\ v[2] = "?" /\ v[3] = "U" /\ v[4] = "?" /\ v[5] = "Q"
              /\ v[6] = "?" /\ \A i \in 1..Len(b) : v[i + 6] = b[i]
              /\ v[Len(b) + 7] = "?" /\ v[Len(b) + 8] = "="
<1> DEFINE o == OpenWord
           c == CloseWord
           v == OpenWord \o b \o CloseWord
<1>1. /\ o \in Seq(Symbols) /\ Len(o) = 6 /\ o[1] = "=" /\ o[2] = "?" /\ o[3] = "U"
      /\ o[4] = "?" /\ o[5] = "Q" /\ o[6] = "?"
  <2>1. "=" \in Symbols /\ "?" \in Symbols /\ "U" \in Symbols /\ "Q" \in Symbols
    BY DEF Symbols
  <2>2. QED  BY <2>1 DEF OpenWord
<1>2. c \in Seq(Symbols) /\ Len(c) = 2 /\ c[1] = "?" /\ c[2] = "="
  <2>1. "=" \in Symbols /\ "?" \in Symbols
    BY DEF Symbols
  <2>2. QED  BY <2>1 DEF CloseWord
<1>3. b \in Seq(Symbols) /\ Len(b) \in Nat
  OBVIOUS
<1>4. v = (o \o b) \o c
  OBVIOUS
<1> HIDE DEF o, c, v
<1>5. /\ v \in Seq(Symbols) /\ Len(v) = Len(b) + 8
      /\ \A i \in 1..6 : v[i] = o[i]
      /\ \A i \in 1..Len(b) : v[i + 6] = b[i]
      /\ \A i \in 1..2 : v[Len(b) + 6 + i] = c[i]
  <2> DEFINE m == o \o b
  <2>1. o \in Seq(Symbols) /\ Len(o) = 6
    BY <1>1
  <2>2. c \in Seq(Symbols) /\ Len(c) = 2
    BY <1>2
  <2>a. /\ m \in Seq(Symbols) /\ Len(m) = Len(o) + Len(b)
        /\ \A i \in 1..Len(o) : m[i] = o[i]
        /\ \A i \in 1..Len(b) : m[Len(o) + i] = b[i]
    <3>1. m \in Seq(Symbols) /\ Joined(m, o, b)
      BY <1>3, <2>1, ConcatIndex, Zenon
    <3>2. QED  BY <3>1, Zenon DEF Joined
  <2>4. v = m \o c
    BY <1>4
  <2> HIDE DEF m
  <2>3. /\ m \in Seq(Symbols) /\ Len(m) = Len(b) + 6
        /\ \A i \in 1..6 : m[i] = o[i]
        /\ \A i \in 1..Len(b) : m[i + 6] = b[i]
    BY <1>3, <2>1, <2>a
  <2>b. /\ v \in Seq(Symbols) /\ Len(v) = Len(m) + Len(c)
        /\ \A i \in 1..Len(m) : v[i] = m[i]
        /\ \A i \in 1..Len(c) : v[Len(m) + i] = c[i]
    <3>1. m \in Seq(Symbols)
      BY <2>3, Zenon
    <3>2. v \in Seq(Symbols) /\ Joined(v, m, c)
      BY <2>2, <2>4, <3>1, ConcatIndex, Zenon
    <3>3. QED  BY <3>2, Zenon DEF Joined
  <2>5. /\ v \in Seq(Symbols) /\ Len(v) = Len(b) + 8
        /\ \A i \in 1..Len(b) + 6 : v[i] = m[i]
        /\ \A i \in 1..2 : v[Len(b) + 6 + i] = c[i]
    BY <1>3, <2>2, <2>3, <2>b
  <2>6. \A i \in 1..6 : v[i] = o[i]
    BY <1>3, <2>3, <2>5
  <2>7. \A i \in 1..Len(b) : v[i + 6] = b[i]
    BY <1>3, <2>3, <2>5
  <2>8. QED  BY <2>5, <2>6, <2>7, Zenon
<1>6. v[Len(b) + 7] = "?" /\ v[Len(b) + 8] = "="
  BY <1>2, <1>3, <1>5
<1>7. /\ v[1] = "=" /\ v[2] = "?" /\ v[3] = "U" /\ v[4] = "?" /\ v[5] = "Q" /\ v[6] = "?"
  BY <1>1, <1>5
<1>8. QED  BY <1>5, <1>6, <1>7, Zenon DEF v, Texts

\* z is the last n symbols of s, which has two more.
LastOf(z, s, n) == Len(z) = n /\ \A k \in 1..n : z[k] = s[k + 2]

\* What follows the first two symbols.
LEMMA FromThree ==
    ASSUME NEW s \in Texts, NEW n \in Nat, Len(s) = n + 2
    PROVE  From(s, 3) \in Texts /\ LastOf(From(s, 3), s, n)
<1>1. s \in Seq(Symbols) /\ 3 \in 1..Len(s) + 1 /\ Len(s) - 3 + 1 = n
      /\ \A k \in 1..n : k + 3 - 1 = k + 2
  BY DEF Texts
<1>2. /\ From(s, 3) \in Seq(Symbols) /\ Len(From(s, 3)) = Len(s) - 3 + 1
      /\ \A k \in 1..Len(s) - 3 + 1 : From(s, 3)[k] = s[k + 3 - 1]
  BY <1>1, FromFacts, Zenon
<1>3. QED  BY <1>1, <1>2, Zenon DEF Texts, LastOf

\* What decode_encoded_words finds in an encoded word: its body, and nothing
\* before or after.
LEMMA WordFound ==
    ASSUME NEW b \in Seq(Symbols \ {"?"})
    PROVE  LET w == EncodedWord(OpenWord \o b \o CloseWord)
           IN /\ w.found /\ w.before = <<>> /\ w.charset = <<"U">> /\ w.encoding = <<"Q">>
              /\ w.text = b /\ w.after = <<>>
<1> DEFINE v == OpenWord \o b \o CloseWord
           w == EncodedWord(v)
           n == Len(b)
           start == Find(<<"=", "?">>, v)
           after_start == From(v, start + 2)
           charset_end == Find(<<"?">>, after_start)
           after_charset == From(after_start, charset_end + 1)
           encoding_end == Find(<<"?">>, after_charset)
           after_encoding == From(after_charset, encoding_end + 1)
           text_end == Find(CloseWord, after_encoding)
<1>1. /\ v \in Texts /\ Len(v) = n + 8
      /\ v[1] = "=" /\ v[2] = "?" /\ v[3] = "U" /\ v[4] = "?" /\ v[5] = "Q"
      /\ v[6] = "?" /\ \A i \in 1..n : v[i + 6] = b[i]
      /\ v[n + 7] = "?" /\ v[n + 8] = "="
  BY WordSymbols, Zenon
<1>2. /\ w.found = (0 \notin {start, charset_end, encoding_end, text_end})
      /\ w.before = SubSeq(v, 1, start - 1)
      /\ w.charset = SubSeq(after_start, 1, charset_end - 1)
      /\ w.encoding = SubSeq(after_charset, 1, encoding_end - 1)
      /\ w.text = SubSeq(after_encoding, 1, text_end - 1)
      /\ w.after = From(after_encoding, text_end + 2)
  BY Zenon DEF EncodedWord
<1> HIDE DEF v, w
<1>3. n \in Nat /\ "=" \in Symbols /\ "?" \in Symbols /\ \A i \in 1..n : b[i] # "?"
  BY SmallTexts
<1> HIDE DEF n
<1>4. start = 1
  <2>1. v \in Texts /\ Len(v) >= 2 /\ v[1] = "=" /\ v[2] = "?"
    BY <1>1, <1>3
  <2>2. QED  BY <2>1, FindOpen, Zenon
<1> HIDE DEF start
<1>5. /\ after_start \in Texts /\ Len(after_start) = n + 6
      /\ \A k \in 1..n + 6 : after_start[k] = v[k + 2]
  <2>1. v \in Texts /\ n + 6 \in Nat /\ Len(v) = (n + 6) + 2 /\ start + 2 = 3
    BY <1>1, <1>3, <1>4
  <2>2. after_start \in Texts /\ LastOf(after_start, v, n + 6)
    BY <2>1, FromThree, Zenon
  <2>3. QED  BY <2>2, Zenon DEF LastOf
<1> HIDE DEF after_start
<1>6. charset_end = 2
  <2>1. 2 \in 1..Len(after_start) /\ after_start[2] = "?" /\ after_start[1] = "U"
    BY <1>1, <1>3, <1>5
  <2>2. \A j \in 1..2 - 1 : after_start[j] # "?"
    BY <2>1
  <2>3. QED  BY <1>5, <2>1, <2>2, FindOne, Zenon
<1>7. SubSeq(after_start, 1, charset_end - 1) = <<"U">>
  <2>1. charset_end - 1 = 1 /\ 1 \in 1..Len(after_start) /\ after_start[1] = "U"
    BY <1>1, <1>3, <1>5, <1>6
  <2>2. QED  BY <1>5, <2>1, SubOne, Zenon
<1> HIDE DEF charset_end
<1>8. /\ after_charset \in Texts /\ Len(after_charset) = n + 4
      /\ \A k \in 1..n + 4 : after_charset[k] = v[k + 4]
  <2>1. /\ after_start \in Texts /\ n + 4 \in Nat /\ Len(after_start) = (n + 4) + 2
        /\ charset_end + 1 = 3
        /\ \A k \in 1..n + 4 : k + 2 \in 1..n + 6 /\ (k + 2) + 2 = k + 4
    BY <1>3, <1>5, <1>6
  <2>2. /\ after_charset \in Texts /\ Len(after_charset) = n + 4
        /\ \A k \in 1..n + 4 : after_charset[k] = after_start[k + 2]
    <3>1. after_charset \in Texts /\ LastOf(after_charset, after_start, n + 4)
      BY <2>1, FromThree, Zenon
    <3>2. QED  BY <3>1, Zenon DEF LastOf
  <2>3. QED  BY <1>5, <2>1, <2>2, Zenon
<1> HIDE DEF after_charset
<1>9. encoding_end = 2
  <2>1. 2 \in 1..Len(after_charset) /\ after_charset[2] = "?" /\ after_charset[1] = "Q"
    BY <1>1, <1>3, <1>8
  <2>2. \A j \in 1..2 - 1 : after_charset[j] # "?"
    BY <2>1
  <2>3. QED  BY <1>8, <2>1, <2>2, FindOne, Zenon
<1>10. SubSeq(after_charset, 1, encoding_end - 1) = <<"Q">>
  <2>1. encoding_end - 1 = 1 /\ 1 \in 1..Len(after_charset) /\ after_charset[1] = "Q"
    BY <1>1, <1>3, <1>8, <1>9
  <2>2. QED  BY <1>8, <2>1, SubOne, Zenon
<1> HIDE DEF encoding_end
<1>11. /\ after_encoding \in Texts /\ Len(after_encoding) = n + 2
       /\ \A k \in 1..n + 2 : after_encoding[k] = v[k + 6]
  <2>1. /\ after_charset \in Texts /\ n + 2 \in Nat /\ Len(after_charset) = (n + 2) + 2
        /\ encoding_end + 1 = 3
        /\ \A k \in 1..n + 2 : k + 2 \in 1..n + 4 /\ (k + 2) + 4 = k + 6
    BY <1>3, <1>8, <1>9
  <2>2. /\ after_encoding \in Texts /\ Len(after_encoding) = n + 2
        /\ \A k \in 1..n + 2 : after_encoding[k] = after_charset[k + 2]
    <3>1. after_encoding \in Texts /\ LastOf(after_encoding, after_charset, n + 2)
      BY <2>1, FromThree, Zenon
    <3>2. QED  BY <3>1, Zenon DEF LastOf
  <2>3. QED  BY <1>8, <2>1, <2>2, Zenon
<1> HIDE DEF after_encoding
<1>12. /\ \A k \in 1..n : after_encoding[k] = b[k]
       /\ after_encoding[n + 1] = "?" /\ after_encoding[n + 2] = "="
  BY <1>1, <1>3, <1>11
<1>13. text_end = n + 1
  <2>1. \A k \in 1..n : after_encoding[k] # "?"
    BY <1>3, <1>12, Zenon
  <2>2. QED  BY <1>3, <1>11, <1>12, <2>1, FindClose, Zenon
<1> HIDE DEF text_end
<1>14. SubSeq(after_encoding, 1, text_end - 1) = b
  <2>1. text_end - 1 = n
    BY <1>3, <1>13
  <2>2. /\ SubSeq(after_encoding, 1, n) \in Seq(Symbols) /\ Len(SubSeq(after_encoding, 1, n)) = n
        /\ \A k \in 1..n : SubSeq(after_encoding, 1, n)[k] = after_encoding[k]
    BY <1>3, <1>11 DEF Texts
  <2>3. b \in Seq(Symbols) /\ Len(b) = n
    BY DEF n
  <2>a. \A k \in 1..Len(SubSeq(after_encoding, 1, n)) : SubSeq(after_encoding, 1, n)[k] = b[k]
    BY <1>12, <2>2, Zenon
  <2>b. SubSeq(after_encoding, 1, n) \in Seq(Symbols) /\ Len(SubSeq(after_encoding, 1, n)) = Len(b)
    BY <2>2, <2>3, Zenon
  <2>4. SubSeq(after_encoding, 1, n) = b
    BY <2>3, <2>a, <2>b, SameSequence, SMTT(20)
  <2>5. QED  BY <2>1, <2>4, Zenon
<1>15. From(after_encoding, text_end + 2) = <<>>
  <2>1. text_end + 2 \in 1..Len(after_encoding) + 1 /\ Len(after_encoding) - (text_end + 2) + 1 = 0
    BY <1>3, <1>11, <1>13
  <2>2. /\ From(after_encoding, text_end + 2) \in Texts
        /\ Len(From(after_encoding, text_end + 2)) = 0
    BY <1>11, <2>1, FromText, Zenon
  <2>3. QED  BY <2>2 DEF Texts
<1>16. SubSeq(v, 1, start - 1) = <<>>
  BY <1>1, <1>4 DEF Texts
<1>17. 0 \notin {start, charset_end, encoding_end, text_end}
  BY <1>3, <1>4, <1>6, <1>9, <1>13
<1>18. /\ w.found /\ w.before = <<>> /\ w.charset = <<"U">> /\ w.encoding = <<"Q">>
       /\ w.text = b /\ w.after = <<>>
  BY <1>2, <1>7, <1>10, <1>14, <1>15, <1>16, <1>17, Zenon
<1>19. QED  BY <1>18, Zenon DEF w, v

\* A text that opens no encoded word has none.
LEMMA NoWord ==
    ASSUME NEW x, Find(<<"=", "?">>, x) = 0 PROVE ~EncodedWord(x).found
BY Zenon DEF EncodedWord

\* The property of a text, which HeaderValueRoundTrips states of the state's.
LEMMA HeaderValueRoundTrip ==
    ASSUME NEW s \in Texts, is_ascii(s) => Find(<<"=", "?">>, s) = 0
    PROVE  decode_encoded_words(maybe_encode_header_value(s)) = Decoded(s)
<1>1. CASE is_ascii(s)
  <2>1. ~EncodedWord(s).found /\ maybe_encode_header_value(s) = s
    BY <1>1, NoWord, Zenon DEF maybe_encode_header_value
  <2>2. QED  BY <2>1, DecodeWordsFacts, Zenon
<1>2. CASE ~is_ascii(s)
  <2> DEFINE b == Replace(s, WordTokens)
             v == OpenWord \o b \o CloseWord
  <2>1. maybe_encode_header_value(s) = v
    BY <1>2, Zenon DEF maybe_encode_header_value, q_encode_header, WordTokens
  <2>2. b \in Seq(Symbols \ {"?"}) /\ qp_decode(b, TRUE) = Decoded(s)
    BY WordTokensFacts, WordIsUndone, Zenon
  <2> HIDE DEF b
  <2>3. /\ v \in Texts
        /\ EncodedWord(v).found /\ EncodedWord(v).before = <<>>
        /\ EncodedWord(v).charset = <<"U">> /\ EncodedWord(v).encoding = <<"Q">>
        /\ EncodedWord(v).text = b /\ EncodedWord(v).after = <<>>
    BY <2>2, WordFound, WordSymbols, Zenon
  <2> HIDE DEF v
  <2>4. Decoded(s).ok /\ Decoded(s).out = s
    BY OutcomeFacts, Zenon
  <2>5. decode_encoded_words(<<>>) = Decoded(<<>>) /\ <<>> \in Texts
    <3>1. <<>> \in Texts /\ Len(<<>>) = 0
      BY SmallTexts
    <3>2. 1..0 - 2 + 1 = {}
      OBVIOUS
    <3>3. Find(<<"=", "?">>, <<>>) = 0
      BY <3>1, <3>2, FindDelimiter, Zenon
    <3>4. ~EncodedWord(<<>>).found
      BY <3>3, NoWord, Zenon
    <3>5. QED  BY <3>1, <3>4, DecodeWordsFacts, Zenon
  <2>6. decode_encoded_words(v) = Before(<<>> \o s, Decoded(<<>>))
    BY <2>2, <2>3, <2>4, <2>5, DecodeWordsFacts, Zenon
  <2>7. <<>> \o s = s /\ s \o <<>> = s
    BY DEF Texts
  <2>8. Before(s, Decoded(<<>>)) = Decoded(s \o <<>>)
    BY <2>5, BeforeDecoded, Zenon
  <2>9. QED  BY <2>1, <2>6, <2>7, <2>8, Zenon
<1>3. QED  BY <1>1, <1>2, Zenon

(***************************************************************************)
(* Loops over the indices of a sequence.                                   *)
(***************************************************************************)

\* Induction up to a bound.
LEMMA IndexInduction ==
    ASSUME NEW N \in Nat, NEW T, 0 \in T, \A n \in 1..N : n - 1 \in T => n \in T
    PROVE  0..N \subseteq T
<1> DEFINE B == {n \in 0..N : n \notin T}
<1>1. CASE B = {}
  BY <1>1, Zenon
<1>2. CASE B # {}
  <2>1. B \in SUBSET Nat
    OBVIOUS
  <2>2. PICK m \in B : \A k \in B : m <= k
    <3> HIDE DEF B
    <3>1. QED  BY <1>2, <2>1, LeastNumber, Zenon
  <2>3. m \in 0..N /\ m \notin T
    BY <2>2, Zenon
  <2>4. m # 0
    BY <2>3, Zenon
  <2>5. m \in 1..N /\ m - 1 \in 0..N /\ ~(m <= m - 1)
    BY <2>3, <2>4
  <2>6. m - 1 \in T
    BY <2>2, <2>5, Zenon
  <2>7. QED  BY <2>3, <2>5, <2>6, Zenon
<1>3. QED  BY <1>1, <1>2, Zenon

\* f is the loop that starts with base and whose turn n is step[n].
Loop(f, m, R, base, step) ==
    /\ f \in [0..m -> R]
    /\ f[0] = base
    /\ \A n \in 1..m : f[n] = step[n][f[n - 1]]

\* A loop computes something.
LEMMA LoopExists ==
    ASSUME NEW N \in Nat, NEW R, NEW base \in R, NEW step \in [1..N -> [R -> R]]
    PROVE  \E f : Loop(f, N, R, base, step)
<1> DEFINE T == {m \in 0..N : \E f : Loop(f, m, R, base, step)}
<1>1. 0 \in T
  <2> DEFINE f == [k \in 0..0 |-> base]
  <2>1. 0 \in 0..0 /\ 1..0 = {} /\ 0 \in 0..N
    OBVIOUS
  <2>2. f \in [0..0 -> R] /\ f[0] = base
    BY <2>1, Zenon
  <2>3. Loop(f, 0, R, base, step)
    BY <2>1, <2>2, Zenon DEF Loop
  <2>4. QED  BY <2>1, <2>3, Zenon
<1>2. ASSUME NEW m \in 1..N, m - 1 \in T PROVE m \in T
  <2>1. PICK f : Loop(f, m - 1, R, base, step)
    BY <1>2, Zenon
  <2> DEFINE h == [k \in 0..m |-> IF k = m THEN step[m][f[m - 1]] ELSE f[k]]
  <2>2. /\ m \in 0..N /\ m - 1 \in 0..m - 1 /\ 0 \in 0..m /\ 0 # m
        /\ \A k \in 0..m : k # m => k \in 0..m - 1
        /\ \A k \in 1..m : k - 1 \in 0..m - 1 /\ k - 1 \in 0..m /\ k - 1 # m /\ k \in 0..m
        /\ \A k \in 1..m : k # m => k \in 1..m - 1
    OBVIOUS
  <2>3. step[m][f[m - 1]] \in R
    BY <2>1, <2>2, Zenon DEF Loop
  <2>4. h \in [0..m -> R]
    BY <2>1, <2>2, <2>3, Zenon DEF Loop
  <2>5. h[0] = base
    BY <2>1, <2>2, Zenon DEF Loop
  <2>6. ASSUME NEW k \in 1..m PROVE h[k] = step[k][h[k - 1]]
    <3>1. h[k - 1] = f[k - 1]
      BY <2>2, Zenon
    <3>2. CASE k = m
      BY <2>2, <3>1, <3>2, Zenon
    <3>3. CASE k # m
      BY <2>1, <2>2, <3>1, <3>3, Zenon DEF Loop
    <3>4. QED  BY <3>2, <3>3, Zenon
  <2> HIDE DEF h
  <2>7. Loop(h, m, R, base, step)
    BY <2>4, <2>5, <2>6, Zenon DEF Loop
  <2>8. QED  BY <2>2, <2>7, Zenon
<1>3. 0..N \subseteq T
  <2> HIDE DEF T
  <2>1. QED  BY <1>1, <1>2, IndexInduction, Zenon
<1>4. N \in 0..N
  OBVIOUS
<1>5. QED  BY <1>3, <1>4, Zenon

\* What Concat does, one sequence at a time.
Concats(u, ss, S) ==
    /\ u \in [0..Len(ss) -> Seq(S)] /\ u[0] = <<>>
    /\ \A n \in 1..Len(ss) : u[n] = u[n - 1] \o ss[n]

\* Concat joins one sequence at a time.
LEMMA ConcatFacts ==
    ASSUME NEW S, NEW ss \in Seq(Seq(S))
    PROVE  \E u : Concats(u, ss, S) /\ Concat(ss) = u[Len(ss)]
<1> DEFINE N == Len(ss)
           R == Seq(S)
           step == [n \in 1..N |-> [x \in R |-> x \o ss[n]]]
           Body(f, n) == IF n = 0 THEN <<>> ELSE f[n - 1] \o ss[n]
           F == CHOOSE f : f = [n \in 0..N |-> Body(f, n)]
<1>1. /\ N \in Nat /\ <<>> \in R /\ \A n \in 1..N : ss[n] \in R
      /\ \A n \in 1..N : n # 0 /\ n \in 0..N /\ n - 1 \in 0..N
      /\ \A n \in 0..N : n # 0 => n \in 1..N
      /\ 0 \in 0..N
  OBVIOUS
<1>2. \A x, y \in R : x \o y \in R
  OBVIOUS
<1>3. step \in [1..N -> [R -> R]]
  BY <1>1, <1>2, Zenon
<1>4. \A n \in 1..N : \A x \in R : step[n][x] = x \o ss[n]
  BY Zenon
<1> HIDE DEF step, N, R
<1>5. PICK f : Loop(f, N, R, <<>>, step)
  BY <1>1, <1>3, LoopExists, Zenon
<1>6. f = [n \in 0..N |-> Body(f, n)]
  <2>1. ASSUME NEW n \in 0..N PROVE f[n] = Body(f, n)
    <3>1. CASE n = 0
      BY <1>5, <3>1, Zenon DEF Loop
    <3>2. CASE n # 0
      <4>1. n \in 1..N /\ n - 1 \in 0..N
        BY <1>1, <3>2, Zenon
      <4>2. f[n] = step[n][f[n - 1]] /\ f[n - 1] \in R
        BY <1>5, <4>1, Zenon DEF Loop
      <4>3. QED  BY <1>4, <3>2, <4>1, <4>2, Zenon
    <3>3. QED  BY <3>1, <3>2, Zenon
  <2>2. f \in [0..N -> R]
    BY <1>5, Zenon DEF Loop
  <2> HIDE DEF Body
  <2>3. QED  BY <2>1, <2>2, Zenon
<1>7. F = [n \in 0..N |-> Body(F, n)]
  <2> HIDE DEF Body
  <2>1. QED  BY <1>6, Zenon
<1>8. Concat(ss) = F[N]
  BY Zenon DEF Concat, N
<1> HIDE DEF F
<1>9. F[0] = <<>> /\ \A n \in 1..N : F[n] = F[n - 1] \o ss[n]
  BY <1>1, <1>7, Zenon
<1>10. 0..N \subseteq {n \in 0..N : F[n] \in R}
  <2> DEFINE T == {n \in 0..N : F[n] \in R}
  <2>1. 0 \in T
    BY <1>1, <1>9, Zenon
  <2>2. ASSUME NEW n \in 1..N, n - 1 \in T PROVE n \in T
    BY <1>1, <1>2, <1>9, <2>2, Zenon
  <2> HIDE DEF T
  <2>3. 0..N \subseteq T
    BY <1>1, <2>1, <2>2, IndexInduction, Zenon
  <2>4. QED  BY <2>3, Zenon DEF T
<1>11. F \in [0..N -> R]
  BY <1>7, <1>10, Zenon
<1>12. Concats(F, ss, S)
  BY <1>9, <1>11, Zenon DEF Concats, N, R
<1>13. QED  BY <1>8, <1>12, Zenon DEF N

\* Joining no sequence gives the empty one.
LEMMA ConcatEmpty == Concat(<<>>) = <<>>
<1>1. <<>> \in Seq(Seq({})) /\ Len(<<>>) = 0
  OBVIOUS
<1>2. PICK u : Concats(u, <<>>, {}) /\ Concat(<<>>) = u[Len(<<>>)]
  BY <1>1, ConcatFacts, Zenon
<1>3. QED  BY <1>1, <1>2, Zenon DEF Concats

\* Joining sequences over S gives a sequence over S.
LEMMA ConcatTyped ==
    ASSUME NEW S, NEW ss \in Seq(Seq(S)) PROVE Concat(ss) \in Seq(S)
<1>1. PICK u : Concats(u, ss, S) /\ Concat(ss) = u[Len(ss)]
  BY ConcatFacts, Zenon
<1>2. Len(ss) \in 0..Len(ss)
  OBVIOUS
<1>3. QED  BY <1>1, <1>2, Zenon DEF Concats

\* The last sequence is joined last.
LEMMA ConcatAppend ==
    ASSUME NEW S, NEW ss \in Seq(Seq(S)), NEW x \in Seq(S)
    PROVE  Concat(Append(ss, x)) = Concat(ss) \o x
<1> DEFINE tt == Append(ss, x)
           N == Len(ss)
<1>1. /\ tt \in Seq(Seq(S)) /\ Len(tt) = N + 1 /\ tt[N + 1] = x /\ N \in Nat
      /\ \A n \in 1..N : tt[n] = ss[n]
  OBVIOUS
<1>2. PICK u : Concats(u, ss, S) /\ Concat(ss) = u[Len(ss)]
  BY ConcatFacts, Zenon
<1> HIDE DEF tt
<1>3. PICK v : Concats(v, tt, S) /\ Concat(tt) = v[Len(tt)]
  BY <1>1, ConcatFacts, Zenon
<1> HIDE DEF N
<1>4. /\ u[0] = <<>> /\ \A n \in 1..N : u[n] = u[n - 1] \o ss[n]
      /\ v[0] = <<>> /\ \A n \in 1..N + 1 : v[n] = v[n - 1] \o tt[n]
  BY <1>1, <1>2, <1>3, Zenon DEF Concats, N
<1> DEFINE T == {n \in 0..N : u[n] = v[n]}
<1>5. /\ 0 \in 0..N /\ N + 1 \in 1..N + 1 /\ (N + 1) - 1 = N /\ N \in 0..N
      /\ \A n \in 1..N : n \in 0..N /\ n \in 1..N + 1
  BY <1>1
<1>6. 0 \in T
  BY <1>4, <1>5, Zenon
<1>7. ASSUME NEW n \in 1..N, n - 1 \in T PROVE n \in T
  BY <1>1, <1>4, <1>5, <1>7, Zenon
<1> HIDE DEF T
<1>8. 0..N \subseteq T
  BY <1>1, <1>6, <1>7, IndexInduction, Zenon
<1>9. u[N] = v[N]
  BY <1>5, <1>8, Zenon DEF T
<1>10. v[N + 1] = v[N] \o x
  BY <1>1, <1>4, <1>5, Zenon
<1>11. QED  BY <1>1, <1>2, <1>3, <1>9, <1>10, Zenon DEF tt, N

(***************************************************************************)
(* Folding of header lines.                                                *)
(***************************************************************************)

\* The width of a header line is a number above 0.
LEMMA FoldWidthType == FoldWidth \in Nat /\ FoldWidth # 0
BY LinesAssumption, Zenon DEF LinesAssumption

\* Lines of a header that has N words, and the states of the loop over them.
FLines(N) == [words : Seq(1..N), len : Nat]

FStates(N) == [folded : Seq(FLines(N)), current : FLines(N)]

\* The word i does not fit on the current line.
Breaks(a, i, ws) == a.current.len # 0 /\ a.current.len + 1 + ws[i] > FoldWidth

\* The state r is the one after word i, a the one before it.
Folds(r, a, i, ws) ==
    /\ Breaks(a, i, ws) =>
          /\ r.folded = Append(a.folded, a.current)
          /\ r.current.words = <<i>> /\ r.current.len = ws[i]
    /\ ~Breaks(a, i, ws) =>
          /\ r.folded = a.folded /\ r.current.words = Append(a.current.words, i)
          /\ r.current.len = IF a.current.len = 0 THEN ws[i]
                             ELSE a.current.len + 1 + ws[i]

\* FoldWord gives a state of the loop, the one Folds describes.
LEMMA FoldWordFacts ==
    ASSUME NEW ws \in Seq(Nat), NEW a \in FStates(Len(ws)), NEW i \in 1..Len(ws)
    PROVE  FoldWord(a, i, ws) \in FStates(Len(ws)) /\ Folds(FoldWord(a, i, ws), a, i, ws)
<1> DEFINE N == Len(ws)
           r == FoldWord(a, i, ws)
<1>1. /\ a.folded \in Seq(FLines(N)) /\ a.current \in FLines(N)
      /\ a.current.words \in Seq(1..N) /\ a.current.len \in Nat
  BY DEF FStates, FLines
<1>2. ws[i] \in Nat /\ FoldWidth \in Nat
  BY FoldWidthType
<1>3. Append(a.folded, a.current) \in Seq(FLines(N))
  BY <1>1
<1>4. /\ \A w \in Seq(1..N), k \in Nat : Line(w, k) \in FLines(N)
      /\ \A w, k : Line(w, k).words = w /\ Line(w, k).len = k
  BY DEF Line, FLines
<1>5. Append(a.current.words, i) \in Seq(1..N) /\ <<i>> \in Seq(1..N)
  BY <1>1
<1>6. CASE Breaks(a, i, ws)
  <2>1. r = [folded |-> Append(a.folded, a.current), current |-> Line(<<i>>, ws[i])]
    BY <1>1, <1>2, <1>6 DEF Breaks, FoldWord
  <2>2. Line(<<i>>, ws[i]) \in FLines(N)
    BY <1>2, <1>4, <1>5, Zenon
  <2> HIDE DEF r, N
  <2>3. r \in FStates(N)
    BY <1>3, <2>1, <2>2, Zenon DEF FStates
  <2>4. r.folded = Append(a.folded, a.current) /\ r.current = Line(<<i>>, ws[i])
    BY <2>1, Zenon
  <2>5. r.current.words = <<i>> /\ r.current.len = ws[i]
    BY <2>4 DEF Line
  <2>6. QED  BY <1>6, <2>3, <2>4, <2>5, Zenon DEF Folds, r, N
<1>7. CASE ~Breaks(a, i, ws)
  <2> DEFINE k == IF a.current.len = 0 THEN ws[i] ELSE a.current.len + 1 + ws[i]
  <2>1. r = [folded |-> a.folded, current |-> Line(Append(a.current.words, i), k)]
    <3>1. k = a.current.len + (IF a.current.len = 0 THEN 0 ELSE 1) + ws[i]
      BY <1>1, <1>2
    <3>2. ~(a.current.len # 0
            /\ a.current.len + (IF a.current.len = 0 THEN 0 ELSE 1) + ws[i] > FoldWidth)
      BY <1>1, <1>2, <1>7 DEF Breaks
    <3> HIDE DEF k
    <3>3. QED  BY <3>1, <3>2, Zenon DEF FoldWord
  <2>2. k \in Nat
    BY <1>1, <1>2, SMTT(40)
  <2> HIDE DEF k
  <2>3. Line(Append(a.current.words, i), k) \in FLines(N)
    BY <1>4, <1>5, <2>2, Zenon
  <2> HIDE DEF r, N
  <2>4. r \in FStates(N)
    BY <1>1, <2>1, <2>3, Zenon DEF FStates
  <2>5. r.folded = a.folded /\ r.current = Line(Append(a.current.words, i), k)
    BY <2>1, Zenon
  <2>6. r.current.words = Append(a.current.words, i) /\ r.current.len = k
    BY <2>5 DEF Line
  <2>7. QED  BY <1>7, <2>4, <2>5, <2>6, Zenon DEF Folds, r, N, k
<1>8. QED  BY <1>6, <1>7, Zenon

\* u[n] is the state of the loop after n words.
FoldStates(u, ws) ==
    /\ u \in [0..Len(ws) -> FStates(Len(ws))]
    /\ u[0] = [folded |-> <<>>, current |-> Line(<<>>, 0)]
    /\ \A n \in 1..Len(ws) : u[n] = FoldWord(u[n - 1], n, ws)

\* s[n] is the length of the first n words.
Sums(s, ws) ==
    /\ s \in [0..Len(ws) -> Nat] /\ s[0] = 0
    /\ \A n \in 1..Len(ws) : s[n] = s[n - 1] + ws[n]

\* LineLength is the last partial sum of the words and the spaces between.
LEMMA LineLengthFacts ==
    ASSUME NEW ws \in Seq(Nat)
    PROVE  \E s : Sums(s, ws) /\ LineLength(ws) = s[Len(ws)] + Len(ws) - 1
<1> DEFINE N == Len(ws)
           step == [n \in 1..N |-> [x \in Nat |-> x + ws[n]]]
           Body(f, n) == IF n = 0 THEN 0 ELSE f[n - 1] + ws[n]
           F == CHOOSE f : f = [n \in 0..N |-> Body(f, n)]
<1>1. /\ N \in Nat /\ 0 \in Nat /\ \A n \in 1..N : ws[n] \in Nat
      /\ \A n \in 1..N : n # 0 /\ n \in 0..N /\ n - 1 \in 0..N
      /\ \A n \in 0..N : n # 0 => n \in 1..N
      /\ 0 \in 0..N
  OBVIOUS
<1>2. \A x, y \in Nat : x + y \in Nat
  OBVIOUS
<1>3. step \in [1..N -> [Nat -> Nat]]
  BY <1>1, <1>2, Zenon
<1>4. \A n \in 1..N : \A x \in Nat : step[n][x] = x + ws[n]
  BY Zenon
<1> HIDE DEF step, N
<1>5. PICK f : Loop(f, N, Nat, 0, step)
  BY <1>1, <1>3, LoopExists, Zenon
<1>6. f = [n \in 0..N |-> Body(f, n)]
  <2>1. ASSUME NEW n \in 0..N PROVE f[n] = Body(f, n)
    <3>1. CASE n = 0
      BY <1>5, <3>1, Zenon DEF Loop
    <3>2. CASE n # 0
      <4>1. n \in 1..N /\ n - 1 \in 0..N
        BY <1>1, <3>2, Zenon
      <4>2. f[n] = step[n][f[n - 1]] /\ f[n - 1] \in Nat
        BY <1>5, <4>1, Zenon DEF Loop
      <4>3. QED  BY <1>4, <3>2, <4>1, <4>2, Zenon
    <3>3. QED  BY <3>1, <3>2, Zenon
  <2>2. f \in [0..N -> Nat]
    BY <1>5, Zenon DEF Loop
  <2> HIDE DEF Body
  <2>3. QED  BY <2>1, <2>2, Zenon
<1>7. F = [n \in 0..N |-> Body(F, n)]
  <2> HIDE DEF Body
  <2>1. QED  BY <1>6, Zenon
<1>8. LineLength(ws) = F[N] + N - 1
  BY Zenon DEF LineLength, N
<1> HIDE DEF F
<1>9. F[0] = 0 /\ \A n \in 1..N : F[n] = F[n - 1] + ws[n]
  BY <1>1, <1>7, Zenon
<1>10. 0..N \subseteq {n \in 0..N : F[n] \in Nat}
  <2> DEFINE T == {n \in 0..N : F[n] \in Nat}
  <2>1. 0 \in T
    BY <1>1, <1>9, Zenon
  <2>2. ASSUME NEW n \in 1..N, n - 1 \in T PROVE n \in T
    BY <1>1, <1>2, <1>9, <2>2, Zenon
  <2> HIDE DEF T
  <2>3. 0..N \subseteq T
    BY <1>1, <2>1, <2>2, IndexInduction, Zenon
  <2>4. QED  BY <2>3, Zenon DEF T
<1>11. F \in [0..N -> Nat]
  BY <1>7, <1>10, Zenon
<1>12. Sums(F, ws)
  BY <1>9, <1>11, Zenon DEF Sums, N
<1>13. QED  BY <1>8, <1>12, Zenon DEF N

\* fold_header_line is what the loop that FoldStates describes ends with.
LEMMA FoldFacts ==
    ASSUME NEW ws \in Seq(Nat)
    PROVE  \E u : /\ FoldStates(u, ws)
                  /\ fold_header_line(ws) =
                        IF \/ LineLength(ws) <= FoldWidth
                           \/ u[Len(ws)].folded = <<>>
                        THEN <<Line([i \in DOMAIN ws |-> i], LineLength(ws))>>
                        ELSE Append(u[Len(ws)].folded, u[Len(ws)].current)
<1> DEFINE N == Len(ws)
           R == FStates(N)
           base == [folded |-> <<>>, current |-> Line(<<>>, 0)]
           step == [n \in 1..N |-> [x \in R |-> FoldWord(x, n, ws)]]
           Body(f, n) == IF n = 0 THEN base ELSE FoldWord(f[n - 1], n, ws)
           F == CHOOSE f : f = [n \in 0..N |-> Body(f, n)]
<1>1. /\ N \in Nat
      /\ \A n \in 1..N : n # 0 /\ n \in 0..N /\ n - 1 \in 0..N
      /\ \A n \in 0..N : n # 0 => n \in 1..N
      /\ 0 \in 0..N
  OBVIOUS
<1>2. base \in R
  BY DEF FStates, FLines, Line
<1>3. \A x \in R, n \in 1..N : FoldWord(x, n, ws) \in R
  BY FoldWordFacts, Zenon
<1>4. step \in [1..N -> [R -> R]]
  BY <1>3, Zenon
<1>5. \A n \in 1..N : \A x \in R : step[n][x] = FoldWord(x, n, ws)
  BY Zenon
<1> HIDE DEF step, N, R, base
<1>6. PICK f : Loop(f, N, R, base, step)
  BY <1>1, <1>2, <1>4, LoopExists, Zenon
<1>7. f = [n \in 0..N |-> Body(f, n)]
  <2>1. ASSUME NEW n \in 0..N PROVE f[n] = Body(f, n)
    <3>1. CASE n = 0
      BY <1>6, <3>1, Zenon DEF Loop
    <3>2. CASE n # 0
      <4>1. n \in 1..N /\ n - 1 \in 0..N
        BY <1>1, <3>2, Zenon
      <4>2. f[n] = step[n][f[n - 1]] /\ f[n - 1] \in R
        BY <1>6, <4>1, Zenon DEF Loop
      <4>3. QED  BY <1>5, <3>2, <4>1, <4>2, Zenon
    <3>3. QED  BY <3>1, <3>2, Zenon
  <2>2. f \in [0..N -> R]
    BY <1>6, Zenon DEF Loop
  <2> HIDE DEF Body
  <2>3. QED  BY <2>1, <2>2, Zenon
<1>8. F = [n \in 0..N |-> Body(F, n)]
  <2> HIDE DEF Body
  <2>1. QED  BY <1>7, Zenon
<1>9. fold_header_line(ws) =
         IF Line([i \in DOMAIN ws |-> i], LineLength(ws)).len <= FoldWidth
            \/ F[N].folded = <<>>
         THEN <<Line([i \in DOMAIN ws |-> i], LineLength(ws))>>
         ELSE Append(F[N].folded, F[N].current)
  BY Zenon DEF fold_header_line, N, base
<1> HIDE DEF F
<1>10. Line([i \in DOMAIN ws |-> i], LineLength(ws)).len = LineLength(ws)
  BY Zenon DEF Line
<1>11. F[0] = base /\ \A n \in 1..N : F[n] = FoldWord(F[n - 1], n, ws)
  BY <1>1, <1>8, Zenon
<1>12. 0..N \subseteq {n \in 0..N : F[n] \in R}
  <2> DEFINE T == {n \in 0..N : F[n] \in R}
  <2>1. 0 \in T
    BY <1>1, <1>2, <1>11, Zenon
  <2>2. ASSUME NEW n \in 1..N, n - 1 \in T PROVE n \in T
    BY <1>1, <1>3, <1>11, <2>2, Zenon
  <2> HIDE DEF T
  <2>3. 0..N \subseteq T
    BY <1>1, <2>1, <2>2, IndexInduction, Zenon
  <2>4. QED  BY <2>3, Zenon DEF T
<1>13. F \in [0..N -> R]
  BY <1>8, <1>12, Zenon
<1>14. FoldStates(F, ws)
  BY <1>11, <1>13, Zenon DEF FoldStates, N, R, base
<1>15. QED  BY <1>9, <1>10, <1>14, Zenon DEF N

\* A function on 1..m is a sequence.
LEMMA SeqOfFunction ==
    ASSUME NEW S, NEW m \in Nat, NEW f \in [1..m -> S]
    PROVE  f \in Seq(S) /\ Len(f) = m
OBVIOUS

\* The elements of a sequence with one appended.
LEMMA AppendFacts ==
    ASSUME NEW S, NEW w \in Seq(S), NEW e \in S
    PROVE  /\ Append(w, e) \in Seq(S) /\ Append(w, e) # <<>>
           /\ \A i \in DOMAIN Append(w, e) :
                 \/ i \in DOMAIN w /\ Append(w, e)[i] = w[i]
                 \/ i = Len(w) + 1 /\ Append(w, e)[i] = e
OBVIOUS

WordsOf(lines) == [l \in DOMAIN lines |-> lines[l].words]

UpToWord(n) == [i \in 1..n |-> i]

\* The words of lines, one line at a time.
LEMMA WordsOfFacts ==
    ASSUME NEW N \in Nat, NEW lines \in Seq(FLines(N)), NEW l \in FLines(N)
    PROVE  /\ WordsOf(lines) \in Seq(Seq(1..N)) /\ l.words \in Seq(1..N)
           /\ WordsOf(Append(lines, l)) = Append(WordsOf(lines), l.words)
<1> DEFINE x == WordsOf(lines)
           y == WordsOf(Append(lines, l))
           z == Append(x, l.words)
           n == Len(lines)
<1>1. /\ n \in Nat /\ \A k \in 1..n : lines[k] \in FLines(N)
      /\ DOMAIN lines = 1..n /\ DOMAIN Append(lines, l) = 1..n + 1
      /\ \A k \in 1..n : Append(lines, l)[k] = lines[k]
      /\ Append(lines, l)[n + 1] = l
  OBVIOUS
<1>2. \A r \in FLines(N) : r.words \in Seq(1..N)
  BY DEF FLines
<1>3. /\ x \in [1..n -> Seq(Seq(1..N)) \cup Seq(1..N)] /\ DOMAIN x = 1..n
      /\ \A k \in 1..n : x[k] = lines[k].words /\ x[k] \in Seq(1..N)
  BY <1>1, <1>2, Zenon DEF WordsOf
<1>4. x \in Seq(Seq(1..N)) /\ Len(x) = n
  <2>1. x \in [1..n -> Seq(1..N)]
    BY <1>3, Zenon
  <2> HIDE DEF x
  <2>2. QED  BY <1>1, <2>1
<1>5. DOMAIN y = 1..n + 1 /\ \A k \in 1..n + 1 : y[k] = Append(lines, l)[k].words
  BY <1>1, Zenon DEF WordsOf
<1>6. l.words \in Seq(1..N)
  BY <1>2, Zenon
<1> HIDE DEF x
<1>7. z \in Seq(Seq(1..N)) /\ Len(z) = n + 1 /\ z[n + 1] = l.words
      /\ \A k \in 1..n : z[k] = x[k]
  BY <1>1, <1>4, <1>6
<1>8. \A k \in 1..n + 1 : k \in 1..n \/ k = n + 1
  BY <1>1
<1> HIDE DEF z, y
<1>9. \A k \in 1..n + 1 : y[k] = z[k]
  BY <1>1, <1>3, <1>5, <1>7, <1>8, ZenonT(40)
<1>10. y \in [1..n + 1 -> Seq(1..N)]
  <2>1. y = [k \in 1..n + 1 |-> y[k]]
    BY <1>1, <1>5, Zenon DEF y, WordsOf
  <2>2. \A k \in 1..n + 1 : y[k] \in Seq(1..N)
    BY <1>3, <1>6, <1>7, <1>8, <1>9, Zenon
  <2>3. QED  BY <2>1, <2>2, Zenon
<1>11. y \in Seq(Seq(1..N)) /\ Len(y) = n + 1
  <2>1. n + 1 \in Nat
    BY <1>1
  <2>2. QED  BY <1>10, <2>1, SeqOfFunction, Zenon
<1>12. y = z
  BY <1>7, <1>9, <1>11, SameSequence, Zenon
<1>13. QED  BY <1>4, <1>6, <1>12, Zenon DEF x, y, z

\* The first n words, one word at a time.
LEMMA UpToWordFacts ==
    /\ \A n \in Nat : UpToWord(n) \in Seq(Nat) /\ Len(UpToWord(n)) = n
    /\ UpToWord(0) = <<>>
    /\ \A n \in Nat : n # 0 => UpToWord(n) = UpToWord(n - 1) \o <<n>>
<1>1. ASSUME NEW n \in Nat
      PROVE  UpToWord(n) \in Seq(Nat) /\ Len(UpToWord(n)) = n
             /\ \A i \in 1..n : UpToWord(n)[i] = i
  BY DEF UpToWord
<1>2. UpToWord(0) = <<>>
  BY <1>1
<1>3. ASSUME NEW n \in Nat, n # 0 PROVE UpToWord(n) = UpToWord(n - 1) \o <<n>>
  <2> DEFINE x == UpToWord(n)
             p == UpToWord(n - 1)
             y == p \o <<n>>
  <2>1. x \in Seq(Nat) /\ Len(x) = n /\ \A i \in 1..n : x[i] = i
    BY <1>1, Zenon
  <2>2. p \in Seq(Nat) /\ Len(p) = n - 1 /\ \A i \in 1..n - 1 : p[i] = i
    <3>1. n - 1 \in Nat
      BY <1>3
    <3>2. QED  BY <1>1, <3>1, Zenon
  <2> HIDE DEF p
  <2>3. y \in Seq(Nat) /\ Len(y) = n /\ \A i \in 1..n : y[i] = i
    BY <1>3, <2>2
  <2> HIDE DEF x, y
  <2>4. x = y
    <3>1. /\ x \in Seq(Nat) /\ y \in Seq(Nat) /\ Len(x) = Len(y)
          /\ \A i \in 1..Len(x) : x[i] = y[i]
      BY <2>1, <2>3
    <3>2. QED  BY <3>1, SameSequence, Zenon
  <2>5. QED  BY <2>4, Zenon DEF x, y, p
<1>4. QED  BY <1>1, <1>2, <1>3, Zenon

\* At most one word of the line is not empty.
SolidLine(l, ws) ==
    \A i, j \in DOMAIN l.words : ws[l.words[i]] # 0 /\ ws[l.words[j]] # 0 => i = j

GoodLine(l, ws) == l.len <= FoldWidth \/ SolidLine(l, ws)

\* After n words: the words so far are in order on the lines, an empty line
\* has empty words only, the lines fit, and the first line has the length of
\* its words and spaces.
WordsKept(a, n) == Concat(WordsOf(a.folded)) \o a.current.words = UpToWord(n)

EmptyLine(l, ws) == l.len = 0 => \A i \in DOMAIN l.words : ws[l.words[i]] = 0

LinesGood(a, ws) ==
    GoodLine(a.current, ws) /\ \A k \in DOMAIN a.folded : GoodLine(a.folded[k], ws)

FirstMeasured(a, n, s) ==
    a.folded = <<>> /\ n # 0 =>
        a.current.len = s[n] + n - 1 /\ a.current.len # 0

FoldInv(a, n, ws, s) ==
    /\ WordsKept(a, n) /\ EmptyLine(a.current, ws) /\ LinesGood(a, ws)
    /\ FirstMeasured(a, n, s)

\* The fields of a state of the loop.
LEMMA FStateFacts ==
    ASSUME NEW N \in Nat, NEW a \in FStates(N)
    PROVE  /\ a.folded \in Seq(FLines(N)) /\ a.current \in FLines(N)
           /\ a.current.words \in Seq(1..N) /\ a.current.len \in Nat
BY DEF FStates, FLines

\* Appending the word n to the words so far.
LEMMA WordsKeptStep ==
    ASSUME NEW ws \in Seq(Nat), NEW a \in FStates(Len(ws)), NEW n \in 1..Len(ws),
           NEW r \in FStates(Len(ws)), Folds(r, a, n, ws), WordsKept(a, n - 1)
    PROVE  WordsKept(r, n)
<1> DEFINE N == Len(ws)
           c == Concat(WordsOf(a.folded))
           w == a.current.words
<1>1. N \in Nat /\ n \in Nat /\ n # 0
  OBVIOUS
<1>2. /\ a.folded \in Seq(FLines(N)) /\ a.current \in FLines(N)
      /\ w \in Seq(1..N)
  BY <1>1, FStateFacts, Zenon
<1>3. WordsOf(a.folded) \in Seq(Seq(1..N))
      /\ WordsOf(Append(a.folded, a.current)) = Append(WordsOf(a.folded), w)
  BY <1>1, <1>2, WordsOfFacts, Zenon
<1>4. c \in Seq(1..N)
  BY <1>3, ConcatTyped, Zenon
<1>5. (c \o w) \o <<n>> = UpToWord(n)
  <2>1. c \o w = UpToWord(n - 1)
    BY Zenon DEF WordsKept
  <2>2. QED  BY <1>1, <2>1, UpToWordFacts, Zenon
<1> HIDE DEF w
<1>6. CASE Breaks(a, n, ws)
  <2>1. r.folded = Append(a.folded, a.current) /\ r.current.words = <<n>>
    BY <1>6, Zenon DEF Folds
  <2>2. Concat(Append(WordsOf(a.folded), w)) = c \o w
    BY <1>2, <1>3, ConcatAppend, Zenon
  <2>3. QED  BY <1>3, <1>5, <2>1, <2>2, Zenon DEF WordsKept
<1>7. CASE ~Breaks(a, n, ws)
  <2>1. r.folded = a.folded /\ r.current.words = Append(w, n)
    BY <1>7, Zenon DEF Folds, w
  <2> HIDE DEF c
  <2>2. c \o Append(w, n) = (c \o w) \o <<n>>
    <3> DEFINE x == c \o Append(w, n)
               y == (c \o w) \o <<n>>
    <3>1. /\ x \in Seq(1..N) /\ y \in Seq(1..N) /\ Len(x) = Len(y)
          /\ \A i \in 1..Len(x) : x[i] = y[i]
      BY <1>2, <1>4
    <3> HIDE DEF x, y
    <3>2. x = y
      BY <3>1, SameSequence, Zenon
    <3>3. QED  BY <3>2, Zenon DEF x, y
  <2>3. QED  BY <1>5, <2>1, <2>2, Zenon DEF WordsKept, c
<1>8. QED  BY <1>6, <1>7, Zenon

\* A turn keeps EmptyLine: a line of length 0 has only empty words.
LEMMA EmptyLineStep ==
    ASSUME NEW ws \in Seq(Nat), NEW a \in FStates(Len(ws)), NEW n \in 1..Len(ws),
           NEW r \in FStates(Len(ws)), Folds(r, a, n, ws), EmptyLine(a.current, ws)
    PROVE  EmptyLine(r.current, ws)
<1> DEFINE w == a.current.words
           v == r.current.words
<1>1. w \in Seq(1..Len(ws)) /\ a.current.len \in Nat /\ ws[n] \in Nat
  <2>1. Len(ws) \in Nat
    OBVIOUS
  <2>2. QED  BY <2>1, FStateFacts
<1>2. SUFFICES ASSUME r.current.len = 0, NEW i \in DOMAIN v PROVE ws[v[i]] = 0
  BY Zenon DEF EmptyLine
<1>3. CASE Breaks(a, n, ws)
  <2>1. v = <<n>> /\ ws[n] = 0
    BY <1>2, <1>3, Zenon DEF Folds
  <2>2. i = 1 /\ v[1] = n
    BY <1>2, <2>1
  <2>3. QED  BY <2>1, <2>2, Zenon
<1>4. CASE ~Breaks(a, n, ws)
  <2>1. v = Append(w, n)
        /\ 0 = IF a.current.len = 0 THEN ws[n] ELSE a.current.len + 1 + ws[n]
    BY <1>2, <1>4, Zenon DEF Folds
  <2>2. a.current.len = 0 /\ ws[n] = 0
    BY <1>1, <2>1, SMTT(40)
  <2>3. \A k \in DOMAIN w : ws[w[k]] = 0
    BY <2>2, Zenon DEF EmptyLine
  <2> HIDE DEF w
  <2>4. \/ i \in DOMAIN w /\ v[i] = w[i]
        \/ v[i] = n
    BY <1>1, <1>2, <2>1, SMTT(40)
  <2>5. QED  BY <2>2, <2>3, <2>4, Zenon
<1>5. QED  BY <1>3, <1>4, Zenon

\* A turn keeps LinesGood: a line that is too long holds one word only.
LEMMA LinesGoodStep ==
    ASSUME NEW ws \in Seq(Nat), NEW a \in FStates(Len(ws)), NEW n \in 1..Len(ws),
           NEW r \in FStates(Len(ws)), Folds(r, a, n, ws), EmptyLine(a.current, ws),
           LinesGood(a, ws)
    PROVE  LinesGood(r, ws)
<1> DEFINE w == a.current.words
           v == r.current.words
<1>1. /\ w \in Seq(1..Len(ws)) /\ a.current.len \in Nat /\ ws[n] \in Nat
      /\ a.folded \in Seq(FLines(Len(ws)))
  <2>1. Len(ws) \in Nat
    OBVIOUS
  <2>2. QED  BY <2>1, FStateFacts
<1>2. CASE Breaks(a, n, ws)
  <2>1. r.folded = Append(a.folded, a.current) /\ v = <<n>>
    BY <1>2, Zenon DEF Folds
  <2>2. \A i, j \in DOMAIN v : i = j
    BY <2>1
  <2>3. GoodLine(r.current, ws)
    BY <2>2, Zenon DEF GoodLine, SolidLine
  <2>4. \A k \in DOMAIN r.folded :
            \/ k \in DOMAIN a.folded /\ r.folded[k] = a.folded[k]
            \/ r.folded[k] = a.current
    BY <1>1, <2>1, SMTT(40)
  <2>5. QED  BY <2>3, <2>4, Zenon DEF LinesGood
<1>3. CASE ~Breaks(a, n, ws)
  <2>1. /\ v = Append(w, n) /\ r.folded = a.folded
        /\ r.current.len = IF a.current.len = 0 THEN ws[n] ELSE a.current.len + 1 + ws[n]
    BY <1>3, Zenon DEF Folds
  <2>2. r.current.len <= FoldWidth \/ a.current.len = 0
    BY <1>1, <1>3, <2>1, FoldWidthType DEF Breaks
  <2>3. ASSUME a.current.len = 0 PROVE SolidLine(r.current, ws)
    <3>1. \A k \in DOMAIN w : ws[w[k]] = 0
      BY <2>3, Zenon DEF EmptyLine
    <3> HIDE DEF w, v
    <3>2. \A i \in DOMAIN v : (i \in DOMAIN w /\ v[i] = w[i]) \/ i = Len(w) + 1
      BY <1>1, <2>1, AppendFacts, Zenon
    <3>3. \A i \in DOMAIN v : ws[v[i]] # 0 => i = Len(w) + 1
      BY <3>1, <3>2, Zenon
    <3>4. QED  BY <3>3, Zenon DEF SolidLine, v
  <2>4. GoodLine(r.current, ws)
    BY <2>2, <2>3, Zenon DEF GoodLine
  <2>5. QED  BY <2>1, <2>4, Zenon DEF LinesGood
<1>4. QED  BY <1>2, <1>3, Zenon

\* A sequence with an element appended is not empty.
LEMMA AppendNotEmpty ==
    ASSUME NEW S, NEW w \in Seq(S), NEW e \in S PROVE Append(w, e) # <<>>
BY AppendFacts, Zenon

\* A turn keeps FirstMeasured: until the first break the length is the sum.
LEMMA FirstMeasuredStep ==
    ASSUME NEW ws \in Seq(Nat), NEW a \in FStates(Len(ws)), NEW n \in 1..Len(ws),
           NEW r \in FStates(Len(ws)), Folds(r, a, n, ws), NEW s, Sums(s, ws),
           ws[1] # 0, FirstMeasured(a, n - 1, s),
           n = 1 => a.current.len = 0
    PROVE  FirstMeasured(r, n, s)
<1>1. /\ a.current.len \in Nat /\ ws[n] \in Nat
      /\ a.folded \in Seq(FLines(Len(ws))) /\ r.folded \in Seq(FLines(Len(ws)))
  <2>1. Len(ws) \in Nat
    OBVIOUS
  <2>2. QED  BY <2>1, FStateFacts
<1>2. /\ s[n] = s[n - 1] + ws[n] /\ s[n - 1] \in Nat /\ s[0] = 0
  <2>1. n - 1 \in 0..Len(ws)
    OBVIOUS
  <2>2. QED  BY <2>1, Zenon DEF Sums
<1>3. CASE Breaks(a, n, ws)
  <2>1. r.folded = Append(a.folded, a.current)
    BY <1>3, Zenon DEF Folds
  <2>2. r.folded # <<>>
    <3>1. a.current \in FLines(Len(ws))
      BY Zenon DEF FStates
    <3>2. Append(a.folded, a.current) # <<>>
      BY <1>1, <3>1, AppendNotEmpty, Zenon
    <3>3. QED  BY <2>1, <3>2, Zenon
  <2>3. QED  BY <2>2, Zenon DEF FirstMeasured
<1>4. CASE ~Breaks(a, n, ws)
  <2>1. /\ r.folded = a.folded
        /\ r.current.len = IF a.current.len = 0 THEN ws[n] ELSE a.current.len + 1 + ws[n]
    BY <1>4, Zenon DEF Folds
  <2>2. SUFFICES ASSUME a.folded = <<>>
                 PROVE  r.current.len = s[n] + n - 1 /\ r.current.len # 0
    BY <2>1, Zenon DEF FirstMeasured
  <2>3. CASE n = 1
    BY <1>1, <1>2, <2>1, <2>3
  <2>4. CASE n # 1
    <3>1. n - 1 # 0
      BY <2>4
    <3>2. a.current.len = s[n - 1] + (n - 1) - 1 /\ a.current.len # 0
      BY <2>2, <3>1, Zenon DEF FirstMeasured
    <3>3. r.current.len = a.current.len + 1 + ws[n]
      BY <2>1, <3>2, Zenon
    <3>4. r.current.len = (s[n - 1] + (n - 1) - 1) + 1 + ws[n]
      BY <3>2, <3>3, Zenon
    <3>5. n \in Nat /\ n > 1
      BY <2>4
    <3>6. /\ (s[n - 1] + (n - 1) - 1) + 1 + ws[n] = (s[n - 1] + ws[n]) + n - 1
          /\ (s[n - 1] + (n - 1) - 1) + 1 + ws[n] # 0
      <4> DEFINE x == s[n - 1]
                 w == ws[n]
      <4>1. x \in Nat /\ w \in Nat
        BY <1>1, <1>2, Zenon
      <4> HIDE DEF x, w
      <4>2. (x + (n - 1) - 1) + 1 + w = (x + w) + n - 1 /\ (x + (n - 1) - 1) + 1 + w # 0
        BY <3>5, <4>1
      <4>3. QED  BY <4>2, Zenon DEF x, w
    <3>7. QED  BY <1>2, <3>4, <3>6, Zenon
  <2>5. QED  BY <2>3, <2>4, Zenon
<1>5. QED  BY <1>3, <1>4, Zenon

\* The invariant of the loop holds when fold_header_line leaves it.
LEMMA FoldInvariant ==
    ASSUME NEW ws \in Seq(Nat), ws # <<>>, ws[1] # 0, NEW s, Sums(s, ws),
           NEW u, FoldStates(u, ws)
    PROVE  u[Len(ws)] \in FStates(Len(ws)) /\ FoldInv(u[Len(ws)], Len(ws), ws, s)
<1> DEFINE N == Len(ws)
           T == {n \in 0..N : FoldInv(u[n], n, ws, s)}
<1>1. /\ N \in Nat /\ 0 \in 0..N /\ N \in 0..N
      /\ \A n \in 1..N : n \in 0..N /\ n - 1 \in 0..N
      /\ \A n \in 1..N : n = 1 => n - 1 = 0
  OBVIOUS
<1>2. /\ u \in [0..N -> FStates(N)]
      /\ u[0].folded = <<>> /\ u[0].current.words = <<>> /\ u[0].current.len = 0
  BY DEF FoldStates, Line
<1>3. 0 \in T
  <2>1. WordsOf(<<>>) = <<>> /\ <<>> \o <<>> = <<>> /\ DOMAIN <<>> = {} /\ 0 <= FoldWidth
    BY FoldWidthType DEF WordsOf
  <2>2. WordsKept(u[0], 0)
    BY <1>2, <2>1, ConcatEmpty, UpToWordFacts, Zenon DEF WordsKept
  <2>3. EmptyLine(u[0].current, ws)
    BY <1>2, <2>1, Zenon DEF EmptyLine
  <2>4. LinesGood(u[0], ws)
    BY <1>2, <2>1, Zenon DEF LinesGood, GoodLine
  <2>5. FirstMeasured(u[0], 0, s)
    BY Zenon DEF FirstMeasured
  <2>6. QED  BY <1>1, <2>2, <2>3, <2>4, <2>5, Zenon DEF FoldInv
<1>4. ASSUME NEW n \in 1..N, n - 1 \in T PROVE n \in T
  <2> DEFINE a == u[n - 1]
             r == u[n]
  <2>1. a \in FStates(N) /\ r \in FStates(N) /\ r = FoldWord(a, n, ws)
    BY <1>1, <1>2, Zenon DEF FoldStates
  <2>2. /\ WordsKept(a, n - 1) /\ EmptyLine(a.current, ws) /\ LinesGood(a, ws)
        /\ FirstMeasured(a, n - 1, s)
    BY <1>4, Zenon DEF FoldInv
  <2>3. n = 1 => a.current.len = 0
    BY <1>1, <1>2, Zenon
  <2> HIDE DEF a, r, T
  <2>4. Folds(r, a, n, ws)
    BY <2>1, FoldWordFacts, Zenon
  <2>5. WordsKept(r, n)
    BY <2>1, <2>2, <2>4, WordsKeptStep, Zenon
  <2>6. EmptyLine(r.current, ws)
    BY <2>1, <2>2, <2>4, EmptyLineStep, Zenon
  <2>7. LinesGood(r, ws)
    BY <2>1, <2>2, <2>4, LinesGoodStep, Zenon
  <2>8. FirstMeasured(r, n, s)
    BY <2>1, <2>2, <2>3, <2>4, FirstMeasuredStep, Zenon
  <2>9. QED  BY <1>1, <2>5, <2>6, <2>7, <2>8, Zenon DEF FoldInv, T, r
<1> HIDE DEF T
<1>5. 0..N \subseteq T
  BY <1>1, <1>3, <1>4, IndexInduction, Zenon
<1>6. QED  BY <1>1, <1>2, <1>5, Zenon DEF T

\* Every line of a folded header fits or holds one word, and the words are all
\* there, in order.
LEMMA FoldResult ==
    ASSUME NEW ws \in Seq(Nat), ws # <<>>, ws[1] # 0
    PROVE  /\ Concat(WordsOf(fold_header_line(ws))) = [i \in DOMAIN ws |-> i]
           /\ \A l \in DOMAIN fold_header_line(ws) : GoodLine(fold_header_line(ws)[l], ws)
           /\ Len(fold_header_line(ws)) > 1 => LineLength(ws) > FoldWidth
<1> DEFINE N == Len(ws)
           lines == fold_header_line(ws)
           whole == Line([i \in DOMAIN ws |-> i], LineLength(ws))
<1>1. PICK s : Sums(s, ws) /\ LineLength(ws) = s[N] + N - 1
  BY LineLengthFacts, Zenon
<1>2. PICK u : /\ FoldStates(u, ws)
               /\ lines = IF LineLength(ws) <= FoldWidth \/ u[N].folded = <<>>
                          THEN <<whole>> ELSE Append(u[N].folded, u[N].current)
  BY FoldFacts, Zenon
<1>3. u[N] \in FStates(N) /\ FoldInv(u[N], N, ws, s)
  BY <1>1, <1>2, FoldInvariant, Zenon
<1>4. N \in Nat /\ N # 0 /\ DOMAIN ws = 1..N /\ s[N] \in Nat
  <2>1. N \in Nat /\ N # 0 /\ DOMAIN ws = 1..N /\ N \in 0..N
    OBVIOUS
  <2>2. QED  BY <1>1, <2>1, Zenon DEF Sums
<1>5. LineLength(ws) \in Nat /\ FoldWidth \in Nat
  BY <1>1, <1>4, FoldWidthType
<1>6. [i \in DOMAIN ws |-> i] = UpToWord(N) /\ UpToWord(N) \in Seq(1..N)
  BY <1>4 DEF UpToWord
<1>7. /\ u[N].folded \in Seq(FLines(N)) /\ u[N].current \in FLines(N)
      /\ u[N].current.words \in Seq(1..N)
  BY <1>3, <1>4, FStateFacts, Zenon
<1> HIDE DEF lines, N
<1>8. CASE LineLength(ws) <= FoldWidth \/ u[N].folded = <<>>
  <2>1. lines = <<whole>>
    BY <1>2, <1>8, Zenon
  <2>2. whole.words = UpToWord(N) /\ whole.len = LineLength(ws) /\ whole \in FLines(N)
    BY <1>5, <1>6 DEF Line, FLines
  <2> HIDE DEF whole
  <2>3. DOMAIN lines = {1} /\ lines[1] = whole /\ Len(lines) = 1 /\ lines = Append(<<>>, whole)
    BY <2>1
  <2>4. Concat(WordsOf(lines)) = UpToWord(N)
    <3>1. <<>> \in Seq(FLines(N)) /\ WordsOf(<<>>) = <<>> /\ <<>> \in Seq(Seq(1..N))
      BY DEF WordsOf
    <3>2. WordsOf(Append(<<>>, whole)) = Append(WordsOf(<<>>), whole.words)
      BY <1>4, <2>2, <3>1, WordsOfFacts, ZenonT(40)
    <3>3. WordsOf(lines) = Append(<<>>, UpToWord(N))
      BY <2>2, <2>3, <3>1, <3>2, Zenon
    <3>4. Concat(Append(<<>>, UpToWord(N))) = Concat(<<>>) \o UpToWord(N)
      BY <1>6, <3>1, ConcatAppend, Zenon
    <3>5. <<>> \o UpToWord(N) = UpToWord(N)
      BY <1>6
    <3>6. QED  BY <3>3, <3>4, <3>5, ConcatEmpty, Zenon
  <2>5. GoodLine(whole, ws)
    <3>1. CASE LineLength(ws) <= FoldWidth
      BY <2>2, <3>1, Zenon DEF GoodLine
    <3>2. CASE u[N].folded = <<>>
      <4>1. u[N].current.len = LineLength(ws)
        BY <1>1, <1>3, <1>4, <3>2, Zenon DEF FoldInv, FirstMeasured
      <4>2. u[N].current.words = UpToWord(N)
        <5>1. WordsOf(<<>>) = <<>>
          BY DEF WordsOf
        <5>2. <<>> \o u[N].current.words = UpToWord(N)
          BY <1>3, <3>2, <5>1, ConcatEmpty, Zenon DEF FoldInv, WordsKept
        <5>3. <<>> \o u[N].current.words = u[N].current.words
          BY <1>7
        <5>4. QED  BY <5>2, <5>3, Zenon
      <4>3. GoodLine(u[N].current, ws)
        BY <1>3, Zenon DEF FoldInv, LinesGood
      <4>4. QED  BY <2>2, <4>1, <4>2, <4>3, Zenon DEF GoodLine, SolidLine
    <3>3. QED  BY <1>8, <3>1, <3>2, Zenon
  <2>6. \A l \in DOMAIN lines : GoodLine(lines[l], ws)
    BY <2>3, <2>5, Zenon
  <2>7. ~(Len(lines) > 1)
    BY <2>3
  <2>8. QED  BY <1>6, <2>4, <2>6, <2>7, Zenon DEF lines
<1>9. CASE ~(LineLength(ws) <= FoldWidth \/ u[N].folded = <<>>)
  <2> DEFINE f == u[N].folded
             c == u[N].current
  <2>1. lines = Append(f, c)
    BY <1>2, <1>9, Zenon
  <2>2. WordsOf(f) \in Seq(Seq(1..N)) /\ WordsOf(lines) = Append(WordsOf(f), c.words)
    BY <1>4, <1>7, <2>1, WordsOfFacts, Zenon
  <2>3. Concat(WordsOf(lines)) = Concat(WordsOf(f)) \o c.words
    BY <1>7, <2>2, ConcatAppend, Zenon
  <2>4. Concat(WordsOf(lines)) = UpToWord(N)
    BY <1>3, <2>3, Zenon DEF FoldInv, WordsKept
  <2>5. GoodLine(c, ws) /\ \A k \in DOMAIN f : GoodLine(f[k], ws)
    BY <1>3, Zenon DEF FoldInv, LinesGood
  <2>6. \A k \in DOMAIN lines : (k \in DOMAIN f /\ lines[k] = f[k]) \/ lines[k] = c
    BY <1>7, <2>1
  <2>7. \A k \in DOMAIN lines : GoodLine(lines[k], ws)
    BY <2>5, <2>6, Zenon
  <2>8. LineLength(ws) > FoldWidth
    BY <1>5, <1>9
  <2>9. QED  BY <1>6, <2>4, <2>7, <2>8, Zenon DEF lines
<1>10. QED  BY <1>8, <1>9, Zenon

(***************************************************************************)
(* The texts and the words of every behaviour.                             *)
(***************************************************************************)

\* The texts are bytes; a header line begins with its name.
LinesInv ==
    /\ text \in Seq(Bytes) /\ words \in Seq(WordLengths)
    /\ words # <<>> => words[1] # 0

\* The inputs are texts over Bytes and words whose first is not empty.
LEMMA LinesInvHolds == Spec => []LinesInv
<1>1. Init => LinesInv
  BY DEF Init, LinesInit, LinesInv
<1>2. LinesInv /\ [Next]_vars => LinesInv'
  <2> SUFFICES ASSUME LinesInv, [Next]_vars PROVE LinesInv'
    OBVIOUS
  <2>1. CASE UNCHANGED lineVars
    BY <2>1 DEF LinesInv, lineVars
  <2>2. CASE AddByte
    BY <2>2 DEF LinesInv, AddByte
  <2>3. CASE AddWord
    <3>1. PICK n \in WordLengths : (words = <<>> => n # 0) /\ words' = Append(words, n)
      BY <2>3, Zenon DEF AddWord
    <3>2. words' \in Seq(WordLengths) /\ words'[1] # 0
      BY <3>1 DEF LinesInv
    <3>3. text' \in Seq(Bytes)
      BY <2>3, Zenon DEF AddWord, LinesInv
    <3>4. QED  BY <3>2, <3>3, Zenon DEF LinesInv
  <2>4. QED  BY <2>1, <2>2, <2>3, Zenon DEF Next, LinesNext, vars
<1>3. QED  BY <1>1, <1>2, PTL DEF Spec

\* A sequence over a set is one over a larger set.
LEMMA SeqOfMore ==
    ASSUME NEW S, NEW R, S \subseteq R, NEW s \in Seq(S) PROVE s \in Seq(R)
<1>1. \A i \in 1..Len(s) : s[i] \in R
  OBVIOUS
<1>2. s \in [1..Len(s) -> R] /\ Len(s) \in Nat
  BY <1>1
<1>3. QED  BY <1>2, SeqOfFunction, Zenon

\* What the invariant says of the inputs.
LEMMA LinesInvTexts ==
    ASSUME LinesInv PROVE text \in Texts /\ words \in Seq(Nat)
<1>1. Bytes \subseteq Symbols /\ WordLengths \subseteq Nat
  BY LinesAssumption, Zenon DEF LinesAssumption
<1>2. text \in Seq(Symbols) /\ words \in Seq(Nat)
  BY <1>1, SeqOfMore, Zenon DEF LinesInv
<1>3. QED  BY <1>2, Zenon DEF Texts

\* For every text, every set of bytes and every width: what qp_encode sends is
\* what qp_decode reads after normalize_raw_message, as bytes and as text
\* (mime.rs:289-359, 654-656).
THEOREM QpAlwaysRoundTrips == Spec => []QpRoundTrips
<1>1. LinesInv => QpRoundTrips
  BY LinesInvTexts, QpRoundTrip, Zenon DEF QpRoundTrips
<1>2. QED  BY <1>1, LinesInvHolds, PTL

\* For every text, every header line and all widths: no line of a quoted-printable body, of a
\* base64 body or of a folded header is longer than its limit
\* (mime.rs:245-261, 289-320, 429-466).
THEOREM LinesAlwaysFit == Spec => []LinesFit
<1>1. ASSUME LinesInv PROVE LinesFit
  <2>1. text \in Texts /\ words \in Seq(Nat) /\ WrapWidth \in Nat \ {0}
    BY <1>1, LinesInvTexts, LinesAssumption, Zenon DEF LinesAssumption
  <2>2. \A n \in LineLengths(qp_encode(text)) : n <= QpWidth + 1
    BY <2>1, QpLinesFit, Zenon
  <2>3. \A n \in LineLengths(wrap_ascii_line(Compact(text), WrapWidth)) : n <= WrapWidth
    BY <2>1, WrappedLinesFit, Zenon
  <2>4. ASSUME words # <<>>
        PROVE  /\ \A l \in DOMAIN fold_header_line(words) :
                      \/ fold_header_line(words)[l].len <= FoldWidth
                      \/ SolidLine(fold_header_line(words)[l], words)
               /\ Len(fold_header_line(words)) > 1 => LineLength(words) > FoldWidth
    <3>1. words[1] # 0
      BY <1>1, <2>4, Zenon DEF LinesInv
    <3>2. QED  BY <2>1, <2>4, <3>1, FoldResult, Zenon DEF GoodLine
  <2>5. QED  BY <2>2, <2>3, <2>4, Zenon DEF LinesFit, SolidLine
<1>2. QED  BY <1>1, LinesInvHolds, PTL

\* For every header value: one that compose encodes, and an ASCII one that
\* opens no encoded word, comes back (mime.rs:361-427).
THEOREM HeaderValuesAlwaysRoundTrip == Spec => []HeaderValueRoundTrips
<1>1. LinesInv => HeaderValueRoundTrips
  BY LinesInvTexts, HeaderValueRoundTrip, Zenon DEF HeaderValueRoundTrips
<1>2. QED  BY <1>1, LinesInvHolds, PTL

\* For every header line: folding and unfolding loses, repeats and reorders no
\* word (mime.rs:429-466, 663-697).
THEOREM FoldAlwaysKeepsWords == Spec => []FoldKeepsWords
<1>1. ASSUME LinesInv PROVE FoldKeepsWords
  <2>1. SUFFICES ASSUME words # <<>>
                 PROVE  Unfold(fold_header_line(words), words) =
                            Visible([i \in DOMAIN words |-> i], words)
    BY Zenon DEF FoldKeepsWords
  <2>2. words \in Seq(Nat) /\ words[1] # 0
    BY <1>1, <2>1, LinesInvTexts, Zenon DEF LinesInv
  <2>3. Concat(WordsOf(fold_header_line(words))) = [i \in DOMAIN words |-> i]
    BY <2>1, <2>2, FoldResult, Zenon
  <2>4. QED  BY <2>3, Zenon DEF Unfold, WordsOf
<1>2. QED  BY <1>1, LinesInvHolds, PTL
====
