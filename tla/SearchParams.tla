---------------------------- MODULE SearchParams ----------------------------
(***************************************************************************)
(* URL and URLSearchParams (src/internal/runtime/builtins/url.rs).  An       *)
(* object constructed by the script owns a vector of pairs; an object read   *)
(* from url.searchParams holds the URL, and each operation parses the        *)
(* query, works on the pairs and writes the query back.                      *)
(*                                                                          *)
(* Text is a sequence of characters.  A query is a sequence of tokens: a     *)
(* character, or an escape such as "%26".  The rest of a URL is one value.   *)
(***************************************************************************)
EXTENDS Naturals, Sequences, FiniteSetsExt

CONSTANTS
    Urls,      \* URL objects of the script
    Objs,      \* URLSearchParams objects
    Names,     \* the names and the values the script uses
    Values,
    Searches,  \* the texts the script assigns to search or to href's query
    Rests,     \* the URLs without their query
    MaxPairs   \* bound: pairs in a list

VARIABLES
    rest,     \* of each URL: everything but the query
    query,    \* of each URL: its query, or NoQuery
    lists,    \* the pairs of each object with a vector of its own, and
              \* (history) the pairs the script last left in each URL
    backing,  \* ParamsBacking of each object: itself, a URL, or "none"
    last      \* the last call, as in ParamList

vars == <<rest, query, lists, backing, last>>

NoQuery == <<"none">>

-----------------------------------------------------------------------------
(* The url crate's form encoding, from how url.rs uses it.                   *)

\* The characters of the model (SP is the space) in the order of their codes,
\* and their escapes.
\* The letters are no hexadecimal digits: a "%" of a text starts no escape.
Chars == <<"SP", "%", "&", "+", "=", "?", "x", "y">>

Escapes == <<"%20", "%25", "%26", "%2B", "%3D", "%3F", "%78", "%79">>

Tokens == Range(Chars) \cup Range(Escapes)

Code == [c \in Range(Chars) |-> CHOOSE i \in DOMAIN Chars : Chars[i] = c]

\* ParamPair: a name and a value.
Pairs == Seq(Range(Chars)) \X Seq(Range(Chars))

\* The tokens a character is written as, and the character a token is read as:
\* "+" for the space, escapes for the separators.
Encode == [c \in Range(Chars) |->
              IF c \in {"x", "y"} THEN c
              ELSE IF c = "SP" THEN "+" ELSE Escapes[Code[c]]]

Decode == [t \in Tokens |->
              IF t = "+" THEN "SP"
              ELSE IF t \in Range(Chars) THEN t
              ELSE Chars[CHOOSE i \in DOMAIN Escapes : Escapes[i] = t]]

Through(s, f) == [i \in DOMAIN s |-> f[s[i]]]

\* The entries of l whose places are in kept (Vec::retain, Iterator::filter).
retain(l, kept) ==
    LET upTo[i \in 0..Len(l)] ==
            IF i = 0 THEN <<>>
            ELSE IF i \in kept THEN Append(upTo[i - 1], l[i]) ELSE upTo[i - 1]
    IN  upTo[Len(l)]

\* The segments of q between the separators.
Split(q) ==
    LET split[s \in Seq(Tokens)] ==
            IF s = <<>> THEN <<<<>>>>
            ELSE LET done == split[SubSeq(s, 1, Len(s) - 1)]
                     t == s[Len(s)]
                 IN  IF t = "&" THEN Append(done, <<>>)
                     ELSE [done EXCEPT ![Len(done)] = Append(@, t)]
    IN  split[q]

\* Mutant: the pairs are joined as they are.
encode_pairsMutRaw(pairs) ==
    LET joined[l \in Seq(Pairs)] ==
            IF l = <<>> THEN <<>>
            ELSE LET acc == joined[SubSeq(l, 1, Len(l) - 1)]
                     p == l[Len(l)]
                 IN  (IF acc = <<>> THEN acc ELSE Append(acc, "&"))
                     \o p[1] \o <<"=">> \o p[2]
    IN  joined[pairs]

Segment(p) == Through(p[1], Encode) \o <<"=">> \o Through(p[2], Encode)

encode_pairs(pairs) ==
    LET joined[l \in Seq(Pairs)] ==
            IF l = <<>> THEN <<>>
            ELSE LET acc == joined[SubSeq(l, 1, Len(l) - 1)]
                 IN  (IF acc = <<>> THEN acc ELSE Append(acc, "&")) \o Segment(l[Len(l)])
    IN  joined[pairs]

parse_pair(seg) ==
    LET equals == {k \in DOMAIN seg : seg[k] = "="}
        i == IF equals = {} THEN 0 ELSE Min(equals)
    IN  IF i = 0 THEN <<Through(seg, Decode), <<>>>>
        ELSE <<Through(SubSeq(seg, 1, i - 1), Decode),
               Through(SubSeq(seg, i + 1, Len(seg)), Decode)>>

parse(q) ==
    LET split == Split(q)
        segments == retain(split, {i \in DOMAIN split : split[i] # <<>>})
    IN  [i \in DOMAIN segments |-> parse_pair(segments[i])]

\* URLs and objects are different things, and the script's texts are made of
\* the characters of the model.
ASSUME ParamsAssumption ==
    /\ Urls \cap Objs = {} /\ "none" \notin Urls \cup Objs
    /\ Names \cup Values \subseteq Seq(Range(Chars))
    /\ Searches \subseteq Seq(Tokens)

\* Url::set_query escapes the space.
QueryText(text) ==
    [i \in DOMAIN text |-> IF text[i] = "SP" THEN "%20" ELSE text[i]]

strip_prefix(text) == IF text # <<>> /\ Head(text) = "?" THEN Tail(text) ELSE text

-----------------------------------------------------------------------------
(* The pairs behind an object.                                               *)

read_query_pairs(u) == IF query[u] = NoQuery THEN <<>> ELSE parse(query[u])

\* Mutant: an object keeps the pairs it saw first, its own copy.
snapshot_pairsMutOwn(o) == lists[o]

snapshot_pairs(o) ==
    IF backing[o] \in Urls THEN read_query_pairs(backing[o]) ELSE lists[o]

\* Mutant: an empty list leaves an empty query behind.
write_query_pairsMutEmpty(u, pairs) ==
    query' = [query EXCEPT ![u] = encode_pairs(pairs)]

write_query_pairs(u, pairs) ==
    query' = [query EXCEPT ![u] =
                 IF pairs = <<>> THEN NoQuery ELSE encode_pairs(pairs)]

\* The pairs behind o become those a method computed from its snapshot.
with_pairs(o, pairs) ==
    /\ backing[o] # "none"
    /\ Len(pairs) <= MaxPairs
    /\ lists' = [lists EXCEPT ![backing[o]] = pairs]
    /\ IF backing[o] \in Urls THEN write_query_pairs(backing[o], pairs)
       ELSE query' = query
    /\ UNCHANGED <<rest, backing>>

Called(op, o, n, v, answer) ==
    last' = [op |-> op, obj |-> o, name |-> n, value |-> v, answer |-> answer]

-----------------------------------------------------------------------------
(* The operations of URLSearchParams.                                        *)

params_append(o, n, v) ==
    /\ with_pairs(o, Append(snapshot_pairs(o), <<n, v>>))
    /\ Called("append", o, n, v, <<>>)

\* Where l holds the name n.
Named(l, n) == {i \in DOMAIN l : l[i][1] = n}

params_delete(o, n) ==
    LET l == snapshot_pairs(o)
    IN  /\ with_pairs(o, retain(l, DOMAIN l \ Named(l, n)))
        /\ Called("delete", o, n, <<>>, <<>>)

params_delete_pair(o, n, v) ==
    LET l == snapshot_pairs(o)
    IN  /\ with_pairs(o, retain(l, {i \in DOMAIN l : l[i][1] # n \/ l[i][2] # v}))
        /\ Called("deletePair", o, n, v, <<>>)

\* retain_mut with its flag: the first pair of the name takes the value, the
\* others of that name go, and a missing name is added at the end.
SetPair(l, n, v) ==
    IF Named(l, n) = {} THEN Append(l, <<n, v>>)
    ELSE LET first == Min(Named(l, n))
         IN  retain([l EXCEPT ![first] = <<n, v>>],
                    (DOMAIN l \ Named(l, n)) \cup {first})

params_set(o, n, v) ==
    /\ with_pairs(o, SetPair(snapshot_pairs(o), n, v))
    /\ Called("set", o, n, v, <<>>)

\* String::cmp.
Before(m, n) ==
    \/ Len(m) < Len(n) /\ m = SubSeq(n, 1, Len(m))
    \/ \E i \in DOMAIN m \cap DOMAIN n :
          /\ SubSeq(m, 1, i - 1) = SubSeq(n, 1, i - 1)
          /\ Code[m[i]] < Code[n[i]]

\* sort_by is stable: each pair goes after the pairs it does not precede.
SortPairs(l) ==
    LET sorted[i \in 0..Len(l)] ==
            IF i = 0 THEN <<>>
            ELSE LET acc == sorted[i - 1]
                     later(k) == \A j \in k..Len(acc) : Before(l[i][1], acc[j][1])
                     at == Min({k \in 1..(Len(acc) + 1) : later(k)})
                 IN  SubSeq(acc, 1, at - 1) \o <<l[i]>> \o SubSeq(acc, at, Len(acc))
    IN  sorted[Len(l)]

params_sort(o) ==
    /\ with_pairs(o, SortPairs(snapshot_pairs(o)))
    /\ Called("sort", o, <<>>, <<>>, <<>>)

\* get and getAll read a snapshot; null is the empty answer.
params_get_all(o, n) ==
    LET l == snapshot_pairs(o)
        named == retain(l, Named(l, n))
    IN  [i \in DOMAIN named |-> named[i][2]]

params_get(o, n) ==
    LET l == snapshot_pairs(o)
    IN  IF Named(l, n) = {} THEN <<>> ELSE <<l[Min(Named(l, n))][2]>>

Ask(o, n) ==
    /\ backing[o] # "none"
    /\ \/ Called("getAll", o, n, <<>>, params_get_all(o, n))
       \/ Called("get", o, n, <<>>, params_get(o, n))
    /\ UNCHANGED <<rest, query, lists, backing>>

-----------------------------------------------------------------------------
(* Construction and the properties of URL.                                   *)

\* new URLSearchParams(init): nothing, a text, or the pairs of an object.
NewParams(o) ==
    /\ backing[o] = "none"
    /\ backing' = [backing EXCEPT ![o] = o]
    /\ \/ lists' = [lists EXCEPT ![o] = <<>>]
       \/ \E t \in Searches : lists' = [lists EXCEPT ![o] = parse(strip_prefix(t))]
       \/ \E n \in Names, v \in Values : lists' = [lists EXCEPT ![o] = <<<<n, v>>>>]
    /\ Called("new", o, <<>>, <<>>, <<>>)
    /\ UNCHANGED <<rest, query>>

url_search_params_get(o, u) ==
    /\ backing[o] = "none"
    /\ backing' = [backing EXCEPT ![o] = u]
    /\ Called("searchParams", o, <<>>, <<>>, <<>>)
    /\ UNCHANGED <<rest, query, lists>>

\* The URL takes a query from a text of the script: the empty text removes
\* it, "?" empties it.
TakeQuery(u, text) ==
    LET q == IF text = <<>> THEN NoQuery ELSE QueryText(strip_prefix(text))
    IN  /\ query' = [query EXCEPT ![u] = q]
        /\ lists' = [lists EXCEPT ![u] = IF q = NoQuery THEN <<>> ELSE parse(q)]

url_search_set(u, text) ==
    /\ TakeQuery(u, text)
    /\ Called("assign", "none", <<>>, <<>>, <<>>)
    /\ UNCHANGED <<rest, backing>>

\* url.href = text parses a whole URL; an invalid one throws and changes
\* nothing.
url_href_set(u, text, r) ==
    /\ \/ UNCHANGED <<rest, query, lists>>
       \/ TakeQuery(u, text) /\ rest' = [rest EXCEPT ![u] = r]
    /\ Called("assign", "none", <<>>, <<>>, <<>>)
    /\ UNCHANGED backing

\* The setters of protocol, host, pathname, hash and so on, which the url
\* crate may also refuse.
url_other_set(u, r) ==
    /\ rest' \in {rest, [rest EXCEPT ![u] = r]}
    /\ Called("assign", "none", <<>>, <<>>, <<>>)
    /\ UNCHANGED <<query, lists, backing>>

Init ==
    /\ rest \in [Urls -> Rests]
    /\ query = [u \in Urls |-> NoQuery]
    /\ lists = [s \in Urls \cup Objs |-> <<>>]
    /\ backing = [o \in Objs |-> "none"]
    /\ last = [op |-> "none", obj |-> "none", name |-> <<>>, value |-> <<>>,
               answer |-> <<>>]

Next ==
    \/ \E o \in Objs :
         \/ NewParams(o)
         \/ params_sort(o)
         \/ \E u \in Urls : url_search_params_get(o, u)
         \/ \E n \in Names :
              \/ params_delete(o, n)
              \/ Ask(o, n)
              \/ \E v \in Values : \/ params_append(o, n, v)
                                   \/ params_delete_pair(o, n, v)
                                   \/ params_set(o, n, v)
    \/ \E u \in Urls :
         \/ \E text \in Searches : url_search_set(u, text)
         \/ \E r \in Rests : \/ url_other_set(u, r)
                             \/ \E text \in Searches : url_href_set(u, text, r)

Spec == Init /\ [][Next]_vars

-----------------------------------------------------------------------------
(* Properties.                                                               *)

\* Encoding the pairs into the query and parsing it again loses nothing: what
\* the next operation through any object bound to a URL will read is what the
\* last one left, whatever characters the names and values hold
\* (url.rs:98-133).
QueryHoldsList == \A u \in Urls : read_query_pairs(u) = lists[u]

\* Every operation, through an object with its own vector or through one of
\* several bound to the same URL, is the operation on a plain list that
\* ParamList states, and it changes no other list: "existing url.searchParams
\* objects stay bidirectionally bound after URL property mutations"
\* (url.rs:36-38).
Lists ==
    INSTANCE ParamList WITH Stores <- Urls \cup Objs, bound <- backing

ImplementsParamList == Lists!Spec

\* What a change through url.searchParams leaves in the URL (url.rs:114-120):
\* no query at all when the list is empty, never a lone "?"; else the form
\* encoding of the list; and the rest of the URL as it was.
WritesLeaveCanonicalQuery ==
    [][query' # query /\ last'.op # "assign" =>
          /\ rest' = rest
          /\ \A u \in Urls : query'[u] # query[u] =>
                \/ query'[u] = NoQuery
                \/ /\ query'[u] # <<>>
                   /\ query'[u] = encode_pairs(parse(query'[u]))]_vars
=============================================================================
