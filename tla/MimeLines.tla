----------------------------- MODULE MimeLines -----------------------------
(***************************************************************************)
(* The line-level encodings of mechanics:mime: quoted-printable bodies,    *)
(* base64 line wrapping, encoded words in header values, and the folding   *)
(* and unfolding of long header lines.                                     *)
(*                                                                         *)
(* A script builds a text (a body, or the value of a header) one byte at a *)
(* time, or a header line one word at a time; every text and every header  *)
(* line within the bounds is a state.  A byte is a symbol: "a" stands for  *)
(* a letter, "SP" for a space, "UND" for an underscore, "hi" for a byte    *)
(* above 127, "3" and "D" for two digits.  Of the words of a header line   *)
(* only their lengths matter.                                              *)
(* A loop over a text is a recursive function of the text that is left.    *)
(***************************************************************************)
EXTENDS Integers, Sequences

CONSTANTS
    Bytes,        \* the bytes a text is made of
    MaxLen,       \* the bound on the length of a text
    WrapWidth,    \* the 76 columns of wrap_ascii_line's caller
    QpWidth,      \* the 75 columns of qp_push_token
    FoldWidth,    \* the 78 columns of fold_header_line
    WordLengths,  \* the lengths of the words of a header value
    MaxWords      \* the bound on the words of a header line

VARIABLES
    text,         \* the bytes of a body or a header value
    words         \* the lengths of the words of a header line, "name:" first

lineVars == <<text, words>>

\* The bytes this model has a name for; "other" is every other one.  "U" and
\* "Q" stand for the charset and the encoding of an encoded word.
Symbols == {"a", "SP", "=", "?", "UND", "CR", "LF", "hi", "0", "3", "5", "A", "C",
            "D", "F", "U", "Q", "other"}

LinesAssumption ==
    /\ Bytes \subseteq Symbols \ {"other"}
    /\ QpWidth \in Nat /\ QpWidth >= 3 /\ WrapWidth \in Nat \ {0}
    /\ FoldWidth \in Nat \ {0} /\ WordLengths \subseteq Nat

ASSUME LinesAssumption

CRLF == <<"CR", "LF">>

\* The byte at index i, as slice::get gives it.
get(s, i) == IF i <= Len(s) THEN s[i] ELSE "none"

From(s, i) == SubSeq(s, i, Len(s))

\* s with every symbol c replaced by the text by[c].
Replace(s, by) ==
    LET out[rest \in Seq(Symbols)] ==
            IF rest = <<>> THEN <<>> ELSE by[Head(rest)] \o out[Tail(rest)]
    IN out[s]

\* The sequences of a sequence, one after the other.
Concat(ss) ==
    LET upTo[n \in 0..Len(ss)] == IF n = 0 THEN <<>> ELSE upTo[n - 1] \o ss[n]
    IN upTo[Len(ss)]

-----------------------------------------------------------------------------
(* Line ends.                                                              *)

StartsWithCRLF(s) == get(s, 1) = "CR" /\ get(s, 2) = "LF"

\* CR LF becomes LF.
PairToLF(s) ==
    LET out[rest \in Seq(Symbols)] ==
            IF rest = <<>> THEN <<>>
            ELSE IF StartsWithCRLF(rest) THEN <<"LF">> \o out[From(rest, 3)]
            ELSE <<Head(rest)>> \o out[Tail(rest)]
    IN out[s]

normalize_raw_message(s) ==
    Replace(PairToLF(s), [c \in Symbols |-> IF c = "CR" THEN <<"LF">> ELSE <<c>>])

normalize_text_lines(s) ==
    Replace(normalize_raw_message(s),
            [c \in Symbols |-> IF c = "LF" THEN CRLF ELSE <<c>>])

-----------------------------------------------------------------------------
(* Quoted-printable.                                                       *)

\* The bytes that some encoding escapes, with their two hex digits.
Escaped == {"=", "?", "UND", "CR", "LF", "hi"}

hex_pair(b) == CASE b = "=" -> <<"3", "D">> [] b = "?" -> <<"3", "F">>
                 [] b = "UND" -> <<"5", "F">> [] b = "CR" -> <<"0", "D">>
                 [] b = "LF" -> <<"0", "A">> [] b = "hi" -> <<"C", "3">>

HexDigits == {"0", "3", "5", "A", "C", "D", "F"}

\* The byte of two hex digits; "other" for one this model has no name for.
ByteOf(hi, lo) ==
    IF \E b \in Escaped : hex_pair(b) = <<hi, lo>>
    THEN CHOOSE b \in Escaped : hex_pair(b) = <<hi, lo>>
    ELSE "other"

\* The text of a byte in a quoted-printable body, CR LF pairs apart.
Token(b) == IF b \in {"=", "CR", "LF", "hi"} THEN <<"=">> \o hex_pair(b) ELSE <<b>>

\* Mutant: the limit is tested before the token is counted.
qp_push_tokenMutLate(line_len, token) ==
    IF line_len > QpWidth
    THEN [pushed |-> <<"=">> \o CRLF \o token, line_len |-> Len(token)]
    ELSE [pushed |-> token, line_len |-> line_len + Len(token)]

\* What is pushed for a token, and the new length of the line: a soft line break
\* goes before the token that would not fit.
qp_push_token(line_len, token) ==
    IF line_len + Len(token) > QpWidth
    THEN [pushed |-> <<"=">> \o CRLF \o token, line_len |-> Len(token)]
    ELSE [pushed |-> token, line_len |-> line_len + Len(token)]

\* encode[rest][line_len] is what is still to be pushed; CR LF stays as it is.
qp_encode(s) ==
    LET encode[rest \in Seq(Symbols)] == [line_len \in Nat |->
            IF rest = <<>> THEN <<>>
            ELSE IF StartsWithCRLF(rest) THEN CRLF \o encode[From(rest, 3)][0]
            ELSE LET next == qp_push_token(line_len, Token(Head(rest)))
                 IN next.pushed \o encode[Tail(rest)][next.line_len]]
    IN encode[s][0]

Decoded(out) == [ok |-> TRUE, out |-> out]
Invalid == [ok |-> FALSE, out |-> <<>>]
Before(out, rest) == IF rest.ok THEN Decoded(out \o rest.out) ELSE Invalid

\* Mutant: the soft break is not known after normalisation.
qp_decodeMutCrlfOnly(s, encoded_word) ==
    LET decode[rest \in Seq(Symbols)] ==
            IF rest = <<>> THEN Decoded(<<>>)
            ELSE IF rest[1] = "UND" /\ encoded_word
                 THEN Before(<<"SP">>, decode[From(rest, 2)])
            ELSE IF rest[1] # "=" THEN Before(<<rest[1]>>, decode[From(rest, 2)])
            ELSE IF get(rest, 2) = "CR" /\ get(rest, 3) = "LF"
                 THEN decode[From(rest, 4)]
            ELSE IF {get(rest, 2), get(rest, 3)} \subseteq HexDigits
                 THEN Before(<<ByteOf(rest[2], rest[3])>>, decode[From(rest, 4)])
            ELSE Invalid
    IN decode[s]

\* decode[rest] is what the bytes that are left decode to.
qp_decode(s, encoded_word) ==
    LET decode[rest \in Seq(Symbols)] ==
            IF rest = <<>> THEN Decoded(<<>>)
            ELSE IF rest[1] = "UND" /\ encoded_word
                 THEN Before(<<"SP">>, decode[From(rest, 2)])
            ELSE IF rest[1] # "=" THEN Before(<<rest[1]>>, decode[From(rest, 2)])
            ELSE IF get(rest, 2) = "CR" /\ get(rest, 3) = "LF"
                 THEN decode[From(rest, 4)]
            ELSE IF get(rest, 2) = "LF" THEN decode[From(rest, 3)]
            ELSE IF {get(rest, 2), get(rest, 3)} \subseteq HexDigits
                 THEN Before(<<ByteOf(rest[2], rest[3])>>, decode[From(rest, 4)])
            ELSE Invalid
    IN decode[s]

-----------------------------------------------------------------------------
(* base64: the characters are the library's, the lines are wrapped here.   *)

wrap_ascii_line(s, width) ==
    LET wrap[rest \in Seq(Symbols)] == [line_len \in Nat |->
            IF rest = <<>> THEN <<>>
            ELSE IF line_len >= width
                 THEN CRLF \o <<Head(rest)>> \o wrap[Tail(rest)][1]
            ELSE <<Head(rest)>> \o wrap[Tail(rest)][line_len + 1]]
    IN wrap[s][0]

IsSpace(c) == c \in {"SP", "CR", "LF"}

\* What base64_decode_liberal hands to the library.
Compact(s) == Replace(s, [c \in Symbols |-> IF IsSpace(c) THEN <<>> ELSE <<c>>])

-----------------------------------------------------------------------------
(* Encoded words.                                                          *)

OpenWord == <<"=", "?", "U", "?", "Q", "?">>
CloseWord == <<"?", "=">>

\* Mutant: a question mark is taken for a safe character.
WordTokenMutQuestion(b) == IF b = "SP" THEN <<"UND">>
                           ELSE IF b \in Escaped \ {"?"} THEN <<"=">> \o hex_pair(b)
                           ELSE <<b>>

\* The text of a byte in an encoded word.
WordToken(b) == IF b = "SP" THEN <<"UND">>
                ELSE IF b \in Escaped THEN <<"=">> \o hex_pair(b)
                ELSE <<b>>

q_encode_header(s) ==
    OpenWord \o Replace(s, [c \in Symbols |-> WordToken(c)]) \o CloseWord

is_ascii(s) == \A i \in DOMAIN s : s[i] # "hi"

maybe_encode_header_value(s) == IF is_ascii(s) THEN s ELSE q_encode_header(s)

Least(S) == CHOOSE i \in S : \A j \in S : i <= j

\* The index of the first occurrence of t in s; 0 when there is none.
Find(t, s) ==
    LET at == {i \in 1..(Len(s) - Len(t) + 1) : SubSeq(s, i, i + Len(t) - 1) = t}
    IN IF at = {} THEN 0 ELSE Least(at)

\* The first encoded word of rest, and what is around it.
EncodedWord(rest) ==
    LET start == Find(<<"=", "?">>, rest)
        after_start == From(rest, start + 2)
        charset_end == Find(<<"?">>, after_start)
        after_charset == From(after_start, charset_end + 1)
        encoding_end == Find(<<"?">>, after_charset)
        after_encoding == From(after_charset, encoding_end + 1)
        text_end == Find(CloseWord, after_encoding)
    IN [found |-> 0 \notin {start, charset_end, encoding_end, text_end},
        before |-> SubSeq(rest, 1, start - 1),
        charset |-> SubSeq(after_start, 1, charset_end - 1),
        encoding |-> SubSeq(after_charset, 1, encoding_end - 1),
        text |-> SubSeq(after_encoding, 1, text_end - 1),
        after |-> From(after_encoding, text_end + 2)]

\* A word that is not closed is text; an unknown charset or encoding is an
\* error.
decode_encoded_words(value) ==
    LET decode[rest \in Seq(Symbols)] ==
            LET word == EncodedWord(rest)
                decoded == qp_decode(word.text, TRUE)
            IN IF ~word.found THEN Decoded(rest)
               ELSE IF word.charset = <<"U">> /\ word.encoding = <<"Q">> /\ decoded.ok
               THEN Before(word.before \o decoded.out, decode[word.after])
               ELSE Invalid
    IN decode[value]

-----------------------------------------------------------------------------
(* Folding.  A line is the positions of its words and its length.          *)

Line(ws, len) == [words |-> ws, len |-> len]

\* The words and the spaces between them.
LineLength(ws) ==
    LET sum[n \in 0..Len(ws)] == IF n = 0 THEN 0 ELSE sum[n - 1] + ws[n]
    IN sum[Len(ws)] + Len(ws) - 1

\* Mutant: the word that does not fit is lost.
FoldWordMutDrop(acc, i, ws) ==
    LET separator == IF acc.current.len = 0 THEN 0 ELSE 1
        len == acc.current.len + separator + ws[i]
    IN IF acc.current.len # 0 /\ len > FoldWidth
       THEN [folded |-> Append(acc.folded, acc.current), current |-> Line(<<>>, 0)]
       ELSE [folded |-> acc.folded,
             current |-> Line(Append(acc.current.words, i), len)]

\* The word goes on the current line, or ends it and begins the next one.  No
\* separator follows an empty line, so a space next to a break may be lost.
FoldWord(acc, i, ws) ==
    LET separator == IF acc.current.len = 0 THEN 0 ELSE 1
        len == acc.current.len + separator + ws[i]
    IN IF acc.current.len # 0 /\ len > FoldWidth
       THEN [folded |-> Append(acc.folded, acc.current), current |-> Line(<<i>>, ws[i])]
       ELSE [folded |-> acc.folded,
             current |-> Line(Append(acc.current.words, i), len)]

\* upTo[n] is the state of the loop after n words.
fold_header_line(ws) ==
    LET whole == Line([i \in DOMAIN ws |-> i], LineLength(ws))
        upTo[n \in 0..Len(ws)] ==
            IF n = 0 THEN [folded |-> <<>>, current |-> Line(<<>>, 0)]
            ELSE FoldWord(upTo[n - 1], n, ws)
        end == upTo[Len(ws)]
    IN IF whole.len <= FoldWidth \/ end.folded = <<>>
       THEN <<whole>>
       ELSE Append(end.folded, end.current)

\* The words that are not empty.
Visible(is, ws) ==
    LET upTo[n \in 0..Len(is)] ==
            IF n = 0 THEN <<>>
            ELSE IF ws[is[n]] = 0 THEN upTo[n - 1] ELSE Append(upTo[n - 1], is[n])
    IN upTo[Len(is)]

\* The lines joined by one space each, as parse_headers joins them, without
\* the empty words: trim() takes the ones at the ends of a line.
Unfold(lines, ws) == Visible(Concat([l \in DOMAIN lines |-> lines[l].words]), ws)

-----------------------------------------------------------------------------
LinesInit == text = <<>> /\ words = <<>>

AddByte ==
    /\ words = <<>> /\ Len(text) < MaxLen
    /\ \E b \in Bytes : text' = Append(text, b)
    /\ UNCHANGED words

\* The first word is "name:", the others are those of the value.
AddWord ==
    /\ text = <<>> /\ Len(words) < MaxWords
    /\ \E n \in WordLengths : (words = <<>> => n # 0) /\ words' = Append(words, n)
    /\ UNCHANGED text

LinesNext == AddByte \/ AddWord

-----------------------------------------------------------------------------
(* Properties.                                                             *)

\* A body sent as quoted-printable comes back, both as bytes (qp_encode of the
\* bytes) and as text (whose line ends are made CR LF first), after the raw
\* message has had its line ends normalised: no soft break, no escape and no
\* byte that looks like one is read as something else.  Only the CR of a CR LF
\* pair of the bytes is lost.
QpRoundTrips ==
    LET Sent(s) == qp_decode(normalize_raw_message(qp_encode(s)), FALSE)
    IN /\ Sent(text) = Decoded(PairToLF(text))
       /\ Sent(normalize_text_lines(text)) = Decoded(normalize_raw_message(text))

\* The lengths of the lines of s, which end with CR LF; lengths[rest][n] are
\* those of the rest of s in column n.
LineLengths(s) ==
    LET lengths[rest \in Seq(Symbols)] == [n \in Nat |->
            IF rest = <<>> THEN {n}
            ELSE IF StartsWithCRLF(rest) THEN {n} \cup lengths[From(rest, 3)][0]
            ELSE lengths[Tail(rest)][n + 1]]
    IN lengths[s][0]

\* No line is longer than its limit: a quoted-printable line has QpWidth
\* columns and the "=" of a soft break (75 + 1), a line of base64 has WrapWidth
\* (76), and a line of a folded header has FoldWidth (78) unless it holds a
\* single word, which cannot be split; the space that begins a continuation
\* line is not counted by the code.  A header line that fits is not folded.
LinesFit ==
    LET lines == fold_header_line(words)
        Solid(l) == \A i, j \in DOMAIN l.words :
                        words[l.words[i]] # 0 /\ words[l.words[j]] # 0 => i = j
    IN /\ \A n \in LineLengths(qp_encode(text)) : n <= QpWidth + 1
       /\ \A n \in LineLengths(wrap_ascii_line(Compact(text), WrapWidth)) :
             n <= WrapWidth
       /\ words # <<>> =>
             /\ \A l \in DOMAIN lines : lines[l].len <= FoldWidth \/ Solid(lines[l])
             /\ Len(lines) > 1 => LineLength(words) > FoldWidth

\* A header value that compose has to encode comes back from parse, whatever
\* spaces, underscores, question marks and equals signs it holds; so does an
\* ASCII value unless it opens an encoded word itself.  Values with CR or LF
\* are refused by validate_header_value.  This is about the encoded words
\* (mime.rs:361-427); parse_headers also trims the spaces at the ends of a
\* value that was sent as it is.
HeaderValueRoundTrips ==
    (/\ \A i \in DOMAIN text : text[i] \notin {"CR", "LF"}
     /\ is_ascii(text) => Find(<<"=", "?">>, text) = 0)
    => decode_encoded_words(maybe_encode_header_value(text)) = Decoded(text)

\* Folding a header line and unfolding it when it is parsed gives every
\* non-empty word of the line, once and in order.
FoldKeepsWords ==
    words # <<>> =>
        Unfold(fold_header_line(words), words) =
            Visible([i \in DOMAIN words |-> i], words)
=============================================================================
