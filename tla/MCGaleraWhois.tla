--------------------------- MODULE MCGaleraWhois ---------------------------
(* GaleraTranslate and GaleraWhois on small instances.                      *)
EXTENDS GaleraWhois

\* "n2.long" is shown as "n2".
MCNames == {"n1", "n2", "n2.long"}
MCShort == [n \in MCNames |-> IF n = "n2.long" THEN "n2" ELSE n]
=============================================================================
