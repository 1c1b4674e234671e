--------------------------- MODULE MCSearchParams ---------------------------
(* A small instance of SearchParams for TLC: the separators, the space and   *)
(* the escape character occur in names and values.                           *)
EXTENDS SearchParams, TLC

Symmetry == Permutations(Objs)

MCNames == {<<"x">>, <<"&">>}

MCValues == {<<"=", "+">>, <<"SP", "%">>}

\* Nothing, a lone question mark, and a name without a value, an empty segment
\* and an empty name whose value has spaces and an equals sign.
MCSearches ==
    {<<>>, <<"?">>, <<"?", "x", "&", "&", "=", "+", "SP", "=", "%20">>}
=============================================================================
