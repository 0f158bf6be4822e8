---------------------------- MODULE MCGaleraList ----------------------------
(* GaleraList on small instances.                                           *)
EXTENDS GaleraList

MCShort == [n \in Names |-> n]
MCDir == [p \in {"a1", "a2", "a3", "b1"} |-> IF p = "b1" THEN "db" ELSE "da"]
MCNodeOf == [p \in ToSet(Paths) |-> IF p = "b1" THEN "b" ELSE "a"]
MCPaths == <<"a1", "b1", "a2">>
\* Units of nine, changes of tens, of month, of year and of decade.
Date(y, m0, d) == [y |-> y, m |-> m0, d |-> d]
MCCalendars ==
  <<<<Date(19, 9, 30), Date(19, 10, 9), Date(19, 10, 10), Date(19, 12, 1)>>,
    <<Date(9, 8, 31), Date(9, 9, 1), Date(9, 9, 8), Date(10, 1, 1)>>,
    <<Date(19, 12, 19), Date(29, 9, 29), Date(29, 9, 30), Date(31, 1, 1)>>>>

Line(id, date, es) == [id |-> id, date |-> date, ftype |-> "error.log", long |-> FALSE, es |-> es]
Ev(re, args) == [re |-> re, ftype |-> "", parsed |-> TRUE, say |-> ""] @@ args
Pod(n) == [name |-> n, deployment |-> "d", namespace |-> "ns"]

LogA == <<Line("a1", 1, {Ev("RegexSourceNode", [ip |-> "ia"]), Ev("RegexPodName", [pod |-> Pod("pa")])}),
          Line("a2", 2, {Ev("RegexStarting", [version |-> "5.7"])}),
          Line("a3", 2, {Ev("RegexTooManyConnections", [x \in {} |-> 0])}),
          Line("a4", 0, {Ev("RegexTooManyConnections", [x \in {} |-> 0])}),
          Line("a5", 3, {Ev("RegexTooManyConnections", [x \in {} |-> 0])}),
          Line("a6", 4, {Ev("RegexStarting", [version |-> "8.0"])})>>
LogB == <<Line("b1", 0, {Ev("RegexSourceNode", [ip |-> "ib"])}),
          Line("b2", 2, {Ev("RegexInconsistencyVoteInit", [name |-> "n1", seqno |-> "s", md5 |-> "x"])}),
          [Line("b3", 3, {Ev("RegexShift", [state2 |-> "SYNCED"])}) EXCEPT !.ftype = "recovery.log"],
          Line("b4", 3, {[Ev("RegexShift", [state2 |-> "DONOR"]) EXCEPT !.parsed = FALSE]}),
          [Line("b5", 4, {Ev("RegexStarting", [version |-> "8.0"])}) EXCEPT !.long = TRUE]>>
MCHistory == [n \in {"a", "b"} |-> IF n = "a" THEN LogA ELSE LogB]

WindowsOf(n) == {w \in (1..Len(MCHistory[n])) \X (1..Len(MCHistory[n])) : w[1] <= w[2]}
MCWindows == {[p \in {"a1", "b1", "a2"} |-> CASE p = "a1" -> v [] p = "a2" -> w [] p = "b1" -> <<b, 5>>] :
                v, w \in WindowsOf("a"), b \in {1}}

List == [command |-> "list", merge |-> "identifier", asked |-> Kinds, skipColor |-> FALSE,
         level |-> Info, since |-> 0, until |-> 0, excluded |-> {}, bad |-> {}, calendar |-> 1]
MCOptions == {List,
  [List EXCEPT !.since = 2, !.until = 3],
  [List EXCEPT !.merge = "directory"],
  [List EXCEPT !.merge = "directory", !.asked = {"applicative"}, !.since = 3, !.level = DebugMySQL],
  [List EXCEPT !.merge = "pod", !.excluded = {"RegexSourceNode"}, !.since = 2, !.calendar = 3],
  [List EXCEPT !.merge = "skip", !.asked = {"events"}, !.skipColor = TRUE, !.until = 2],
  [List EXCEPT !.command = "conflicts", !.since = 2, !.calendar = 2],
  [List EXCEPT !.command = "ctx", !.since = 3, !.calendar = 2],
  [List EXCEPT !.asked = {"sst"}, !.skipColor = TRUE, !.since = 2],
  [List EXCEPT !.bad = {"a2"}]}

\* A log split in three, the last piece read before the one in the middle.
SplitPaths == <<"a1", "a3", "a2">>
Split == {[p \in {"a1", "a2", "a3"} |-> CASE p = "a1" -> <<1, i>> [] p = "a2" -> <<i + 1, j>> [] p = "a3" -> <<j + 1, 6>>] :
            i \in 1..4, j \in 2..5}
SplitOptions == {[List EXCEPT !.merge = "directory"]}
=============================================================================
