------------------------------- MODULE MCMime -------------------------------
(***************************************************************************)
(* MimeMultipart, and the line encodings it extends, for TLC.              *)
(***************************************************************************)
EXTENDS MimeMultipart

\* A letter, a space, the characters with a meaning of their own, the line
\* ends, a byte above 127 and a digit that may follow an equals sign.
MCBytes == {"a", "SP", "=", "?", "UND", "CR", "LF", "hi", "3"}

MCHash(lines) == Len(lines) % 3

MCBoundaries == {<<"b", 0, 0>>}

\* Nothing; a line with blank lines around it; bytes; and the text of a
\* multipart message, with an explicit boundary (as it is and in base64) and
\* with a boundary of this module.
MCLeaves ==
    {Leaf(<<>>, TRUE, "none", "none"),
     Leaf(<<Blank, Text("x"), Blank>>, TRUE, "text", "none"),
     Leaf(<<Text("x")>>, FALSE, "octet", "none"),
     Leaf(<<Text("x")>>, FALSE, "octet", "8bit"),
     Leaf(<<Text("x"), Marker(<<"b", 0, 0>>)>>, TRUE, "none", "none"),
     Leaf(<<Text("x"), Close(<<"b", 0, 0>>)>>, TRUE, "none", "base64"),
     Leaf(<<Marker(<<"mechanics", 1, 0>>)>>, TRUE, "none",
          "quoted-printable")}
=============================================================================
