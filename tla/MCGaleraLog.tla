---------------------------- MODULE MCGaleraLog ----------------------------
(* GaleraLog on small instances.                                            *)
EXTENDS GaleraLog

\* "n2.long" is shown as "n2": the same member.
MCNames == {"n1", "n2.long", "n2", "n3"}
MCShort == [n \in MCNames |-> IF n = "n2.long" THEN "n2" ELSE n]
Number(n) == CASE n = "n1" -> "1" [] n = "n3" -> "3" [] OTHER -> "2"
MCHashOf == [n \in MCNames |-> "h" \o Number(n)]
MCReborn == [n \in MCNames |-> CASE n = "n3" -> "h4" [] n = "n1" -> "h1" [] OTHER -> "h5"]
MCIPOf == [n \in MCNames |-> "i" \o Number(n)]
MCIdxs == <<"0", "1", "2">>
MCViews == {<<>>, <<"n2.long">>, <<"n1", "n2.long">>, <<"n2.long", "n3">>}

\* Only one of the votes may end in success.
MCMD5s == [s \in {"s1", "s2"} |-> IF s = "s1" THEN {"a", Success} ELSE {"b"}]
\* Either may.
SharedMD5s == [s \in {"s1", "s2"} |-> {s, Success}]
MCMaxLines == [t \in Topics |-> CASE t = "votes" -> 6 [] t \in {"views", "operator"} -> 3 [] OTHER -> 5]
=============================================================================
