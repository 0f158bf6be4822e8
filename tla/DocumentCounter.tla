-------------------------- MODULE DocumentCounter --------------------------
(***************************************************************************)
(* What mongolib's profiler promises its user: every document is counted   *)
(* in exactly one of the reports it hands over.                            *)
(***************************************************************************)
EXTENDS Sequences

CONSTANT Docs         \* documents of system.profile

VARIABLES pending,    \* added since the last report
          reports     \* the reports handed over, each a set of documents

Init == pending = {} /\ reports = <<>>

Reported == UNION {reports[i] : i \in DOMAIN reports}

Add(d) == /\ d \notin pending \cup Reported
          /\ pending' = pending \cup {d}
          /\ UNCHANGED reports

Report == /\ reports' = Append(reports, pending)
          /\ pending' = {}

Next == Report \/ \E d \in Docs : Add(d)

Spec == Init /\ [][Next]_<<pending, reports>>
=============================================================================
