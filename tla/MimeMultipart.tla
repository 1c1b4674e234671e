--------------------------- MODULE MimeMultipart ---------------------------
(***************************************************************************)
(* compose and parse of mechanics:mime (src/internal/runtime/builtins/       *)
(* mime.rs) on the structure of messages: parts within parts, boundaries,    *)
(* sections, and the choice of the transfer encoding.                        *)
(*                                                                          *)
(* Raw text is a sequence of lines, as splitting it at its normalised line   *)
(* ends gives them.  A line is a tuple <<kind, content, boundary>>, where the *)
(* boundary is the one the line contains.  The message objects of a script   *)
(* are a table t, and a message refers to its parts, which are older, by     *)
(* their indices: t[i] is the message i.  Headers other than Content-Type    *)
(* and Content-Transfer-Encoding, folding and encoded words are left         *)
(* to MimeLines, which this module extends.                                  *)
(***************************************************************************)
EXTENDS MimeLines

CONSTANTS
    Leaves,      \* the messages without parts a script builds
    Boundaries,  \* the boundaries a script may write into a Content-Type
    Hash(_),     \* of the hashed lines: the hash in a boundary's name
    MaxNodes,    \* bound: messages in all trees together
    MaxParts     \* bound: parts of one message

VARIABLES
    built,   \* the message objects the script has built, oldest first
    held,    \* the indices of those that are part of no other one
    raw,     \* what compose returned, <<>> before
    parsed   \* what parse returned, NotParsed before

vars == <<built, held, raw, parsed, lineVars>>

\* A boundary is <<prefix, hash, attempt>>.
NoBoundary == <<"none", 0, 0>>

Text(t) == <<"text", t, NoBoundary>>

Blank == Text("")

Marker(b) == <<"marker", "--", b>>

Close(b) == <<"close", "--", b>>

\* The two headers that matter: a Content-Type with its boundary parameter,
\* and a Content-Transfer-Encoding.
TypeLine(base, b) == <<"Content-Type", base, b>>

EncodingLine(e) == <<"Content-Transfer-Encoding", e, NoBoundary>>

Headers == {"Content-Type", "Content-Transfer-Encoding"}

\* A message of the script.  type and encoding are "none" when not given; a
\* multipart message has parts and no body.
Leaf(body, isText, type, encoding) ==
    [body |-> body, isText |-> isText, type |-> type, boundary |-> NoBoundary,
     encoding |-> encoding, parts |-> <<>>]

Multipart(parts, b) ==
    [body |-> <<>>, isText |-> TRUE, encoding |-> "none", boundary |-> b,
     type |-> IF b = NoBoundary THEN "none" ELSE "multipart", parts |-> parts]

\* The lines of bodies are sequences, and a message without parts is no
\* multipart message.
TreeAssumption ==
    \A m \in Leaves :
        /\ m.body \in Seq({m.body[k] : k \in DOMAIN m.body})
        /\ m = Leaf(m.body, m.isText, m.type, m.encoding)
        /\ m.type # "multipart"

ASSUME TreeAssumption

\* The message i and the messages inside it.
Within(t, i) ==
    LET of[k \in 1..Len(t)] ==
            {k} \cup UNION {of[t[k].parts[p]] : p \in DOMAIN t[k].parts}
    IN of[i]

-----------------------------------------------------------------------------
(* The boundary.                                                             *)

\* boundary_seed hashes the headers, the body and the parts in turn, with
\* nothing between them.
boundary_seed(t, i) ==
    LET seed[k \in 1..Len(t)] ==
            (IF t[k].type = "none" THEN <<>> ELSE <<TypeLine(t[k].type, t[k].boundary)>>)
            \o t[k].body
            \o Concat([p \in DOMAIN t[k].parts |-> seed[t[k].parts[p]]])
    IN seed[i]

message_contains_boundary(t, i, b) ==
    \E k \in Within(t, i) : \E l \in DOMAIN t[k].body : t[k].body[l][3] = b

\* Mutant: the first candidate is taken.
generate_boundaryMutFirst(t, i) == <<"mechanics", Hash(boundary_seed(t, i)), 0>>

\* "mechanics-<hash>-<attempt>" for the first attempt that no body contains.
\* A line contains one boundary, so one of Len(seed) + 1 attempts is free.
generate_boundary(t, i) ==
    LET seed == boundary_seed(t, i)
        candidate(n) == <<"mechanics", Hash(seed), n>>
        free == {n \in 0..Len(seed) : ~message_contains_boundary(t, i, candidate(n))}
    IN  candidate(Least(free))

boundary_of(t, i) ==
    IF t[i].boundary # NoBoundary THEN t[i].boundary ELSE generate_boundary(t, i)

-----------------------------------------------------------------------------
(* compose.                                                                  *)

content_type(m) == IF m.type = "none" THEN "text" ELSE m.type

\* Bodies of this model are ASCII, so text is quoted-printable only when the
\* script says so.
choose_encoding(m) ==
    IF m.encoding # "none" THEN m.encoding
    ELSE IF m.body = <<>> THEN "7bit"
    ELSE IF m.isText /\ content_type(m) = "text" THEN "7bit"
    ELSE "base64"

\* The lines of the body.  base64 turns them into text that resembles no
\* marker; quoted-printable leaves the dashes of a marker as they are.
render_body(m) ==
    LET lines == IF m.body = <<>> THEN <<Blank>> ELSE m.body
    IN  IF choose_encoding(m) = "base64"
        THEN [i \in DOMAIN lines |-> <<"base64", lines[i], NoBoundary>>]
        ELSE lines

render_leaf(m) ==
    <<TypeLine(content_type(m), NoBoundary), EncodingLine(choose_encoding(m)), Blank>>
    \o render_body(m)

\* Mutant: the parts are not followed by the closing marker.
render_messageMutNoClose(t, i) ==
    LET render[k \in 1..Len(t)] ==
            LET b == boundary_of(t, k)
            IN IF t[k].parts = <<>> THEN render_leaf(t[k])
               ELSE <<TypeLine("multipart", b), Blank>>
                    \o Concat([p \in DOMAIN t[k].parts |->
                                  <<Marker(b)>> \o render[t[k].parts[p]]])
    IN render[i]

render_message(t, i) ==
    LET render[k \in 1..Len(t)] ==
            LET b == boundary_of(t, k)
            IN IF t[k].parts = <<>> THEN render_leaf(t[k])
               ELSE <<TypeLine("multipart", b), Blank>>
                    \o Concat([p \in DOMAIN t[k].parts |->
                                  <<Marker(b)>> \o render[t[k].parts[p]]])
                    \o <<Close(b), Blank>>
    IN render[i]

-----------------------------------------------------------------------------
(* parse.                                                                    *)

Parsed(ok, body, parts) == [ok |-> ok, body |-> body, parts |-> parts]

Malformed == Parsed(FALSE, <<>>, <<>>)

NotParsed == Parsed(FALSE, <<Blank>>, <<>>)

\* "\n\n" in the text: an empty line that is neither the first nor the last.
Separators(lines) == {i \in 2..Len(lines) - 1 : lines[i] = Blank}

\* header_value takes the last header of a name.
header_value(hs, name, default) ==
    LET at == {i \in DOMAIN hs : hs[i][1] = name}
    IN  IF at = {} THEN default ELSE hs[CHOOSE i \in at : \A j \in at : j <= i]

\* One turn of the loop of multipart_sections: inside is whether a marker has
\* been seen.
SectionLine(acc, line, b) ==
    LET sections == IF acc.inside THEN Append(acc.sections, acc.current)
                    ELSE acc.sections
    IN IF acc.closed THEN acc
       ELSE IF line = Marker(b)
            THEN [inside |-> TRUE, closed |-> FALSE, current |-> <<>>,
                  sections |-> sections]
       ELSE IF line = Close(b)
            THEN [inside |-> acc.inside, closed |-> TRUE, current |-> <<>>,
                  sections |-> sections]
       ELSE IF acc.inside
            THEN [inside |-> TRUE, closed |-> FALSE, sections |-> acc.sections,
                  current |-> Append(acc.current, line)]
       ELSE acc

multipart_sections(lines, b) ==
    LET upTo[n \in 0..Len(lines)] ==
            IF n = 0 THEN [inside |-> FALSE, closed |-> FALSE, current |-> <<>>,
                           sections |-> <<>>]
            ELSE SectionLine(upTo[n - 1], lines[n], b)
    IN upTo[Len(lines)]

\* An empty section is one empty line.
trim_part_section(section) == IF section = <<>> THEN <<Blank>> ELSE section

decode_body(lines, encoding) ==
    IF encoding = "base64"
    THEN [i \in DOMAIN lines |-> IF lines[i][1] = "base64" THEN lines[i][2]
                                 ELSE lines[i]]
    ELSE lines

\* parse[lines] is what a part of the message parses to.
parse_message_raw(message) ==
    LET parse[lines \in Seq({message[k] : k \in DOMAIN message} \cup {Blank})] ==
            LET s == Least(Separators(lines))
                hs == SubSeq(lines, 1, s - 1)
                body == From(lines, s + 1)
                type == header_value(hs, "Content-Type", TypeLine("text", NoBoundary))
                e == header_value(hs, "Content-Transfer-Encoding", EncodingLine("7bit"))
                found == multipart_sections(body, type[3])
                parts == [i \in DOMAIN found.sections |->
                             parse[trim_part_section(found.sections[i])]]
            IN  IF Separators(lines) = {} THEN Malformed
                ELSE IF \E i \in DOMAIN hs : hs[i][1] \notin Headers THEN Malformed
                ELSE IF type[2] # "multipart"
                THEN Parsed(TRUE, decode_body(body, e[2]), <<>>)
                ELSE IF type[3] = NoBoundary \/ ~found.closed THEN Malformed
                ELSE IF \E i \in DOMAIN parts : ~parts[i].ok THEN Malformed
                ELSE Parsed(TRUE, <<>>, parts)
    IN parse[message]

-----------------------------------------------------------------------------
(* A script builds messages, composes one message and parses the result.    *)

Init == built = <<>> /\ held = <<>> /\ raw = <<>> /\ parsed = NotParsed /\ LinesInit

\* collect_message of a leaf.
NewLeaf(leaf) ==
    /\ raw = <<>> /\ Len(built) < MaxNodes
    /\ built' = Append(built, leaf)
    /\ held' = Append(held, Len(built) + 1)
    /\ UNCHANGED <<raw, parsed>>

\* collect_message of a message with the last k messages held as its parts.
Wrap(k, b) ==
    /\ raw = <<>> /\ Len(built) < MaxNodes /\ k <= Len(held)
    /\ LET n == Len(held) - k
       IN  /\ built' = Append(built, Multipart(From(held, n + 1), b))
           /\ held' = Append(SubSeq(held, 1, n), Len(built) + 1)
    /\ UNCHANGED <<raw, parsed>>

\* render_body refuses bytes under 8bit or binary: compose throws.
Unrepresentable(m) == m.encoding \in {"8bit", "binary"} /\ ~m.isText

compose ==
    /\ raw = <<>> /\ Len(held) = 1
    /\ \A k \in Within(built, held[1]) : ~Unrepresentable(built[k])
    /\ raw' = render_message(built, held[1])
    /\ UNCHANGED <<built, held, parsed>>

parse ==
    /\ raw # <<>> /\ parsed = NotParsed
    /\ parsed' = parse_message_raw(raw)
    /\ UNCHANGED <<built, held, raw>>

TreeNext ==
    \/ \E leaf \in Leaves : NewLeaf(leaf)
    \/ \E k \in 1..MaxParts, b \in Boundaries \cup {NoBoundary} : Wrap(k, b)
    \/ compose
    \/ parse

\* The script builds a text or a header line, or it builds messages: nothing
\* is shared between the two.
Next ==
    \/ text = <<>> /\ words = <<>> /\ TreeNext /\ UNCHANGED lineVars
    \/ built = <<>> /\ LinesNext /\ UNCHANGED <<built, held, raw, parsed>>

Spec == Init /\ [][Next]_vars

-----------------------------------------------------------------------------
(* Properties.                                                               *)

\* What the script expects back: the same tree, with the same lines.
Expected(t, i) ==
    LET tree[k \in 1..Len(t)] ==
            IF t[k].parts # <<>>
            THEN Parsed(TRUE, <<>>, [p \in DOMAIN t[k].parts |-> tree[t[k].parts[p]]])
            ELSE Parsed(TRUE, IF t[k].body = <<>> THEN <<Blank>> ELSE t[k].body, <<>>)
    IN tree[i]

\* No message inside a multipart message shows its boundary: as a boundary of
\* its own, or in the body of a leaf that is sent as it is.
BoundariesClear(t, i) ==
    \A outer \in {k \in Within(t, i) : t[k].parts # <<>>} :
        \A inner \in Within(t, outer) \ {outer} :
            IF t[inner].parts # <<>> THEN boundary_of(t, inner) # boundary_of(t, outer)
            ELSE choose_encoding(t[inner]) = "base64"
                 \/ ~message_contains_boundary(t, inner, boundary_of(t, outer))

\* compose and parse are inverse (mime.rs:589-646, 714-790): a message whose
\* boundaries are distinct from what they enclose comes back with the same
\* parts, nested and ordered as they were, and with the same lines in every
\* body, an empty body, a trailing newline and the text of another message
\* included.
RoundTripsWhenClear ==
    parsed # NotParsed /\ BoundariesClear(built, held[1]) =>
        parsed = Expected(built, held[1])

\* A boundary that compose generates (mime.rs:576-587) is no line of what it
\* encloses: a forwarded message in the body of a leaf, at any depth, cannot
\* end or divide a part.
GeneratedBoundaryIsFree ==
    raw # <<>> =>
        \A outer \in {k \in Within(built, held[1]) :
                         built[k].parts # <<>> /\ built[k].boundary = NoBoundary} :
            \A inner \in Within(built, outer) :
                \A l \in DOMAIN built[inner].body :
                    built[inner].body[l] \notin {Marker(boundary_of(built, outer)),
                                                 Close(boundary_of(built, outer))}
=============================================================================
