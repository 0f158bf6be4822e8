-------------------------- MODULE GaleraTranslate --------------------------
(***************************************************************************)
(* pt-galera-log-explainer/translate: what the logs say of the nodes, as   *)
(* four maps from a hash (node uuid) or an IP to timestamped values, and   *)
(* the lookups the display makes at a log line's time.                     *)
(* No state of its own: GaleraWhois and GaleraLog hold a db.               *)
(***************************************************************************)
EXTENDS Integers, Sequences, SequencesExt, FiniteSetsExt

CONSTANTS Hashes, IPs, Names, Methods,
          Short,          \* name -> ShortNodeName of it (host part of a long name)
          AssumeIPStable, \* FALSE with --pxc-operator: IPs are reused
          MaxTime         \* bound: times of log lines are 1..MaxTime

ASSUME ShortAssumption == Short \in [Names -> Names]
ASSUME TimesAssumption == MaxTime \in Nat \ {0}

Times == 1..MaxTime
Unit(v, t) == [value |-> v, ts |-> t]
NoUnit == [value |-> "", ts |-> 0]   \* translationUnit{}

-----------------------------------------------------------------------------
(* Recording.                                                               *)

EmptyDB == [HashToIP        |-> [h \in Hashes |-> NoUnit],
            HashToNodeNames |-> [h \in Hashes |-> <<>>],
            IPToNodeNames   |-> [i \in IPs |-> <<>>],
            IPToMethods     |-> [i \in IPs |-> <<>>]]

Sooner(u, t) == [u EXCEPT !.ts = IF @ > t THEN t ELSE @]

\* Mutant: the proof kept is the last one read.
AddHashToIPMutant(d, h, ip, t) ==
  [d EXCEPT !.HashToIP[h] = IF @ = NoUnit THEN Unit(ip, t) ELSE [@ EXCEPT !.ts = t]]
\* Mutant: a hash may be said to be on no address.
AddHashToIPMutant2(d, h, ip, t) ==
  [d EXCEPT !.HashToIP[h] = Unit("", t)]
\* The first IP said of a hash stays; the earliest proof of it is kept.
AddHashToIP(d, h, ip, t) ==
  [d EXCEPT !.HashToIP[h] =
     IF @ = NoUnit THEN Unit(ip, t) ELSE Sooner(@, t)]

Upsert(units, u) ==
  IF units = <<>> \/ units[Len(units)].value # u.value
  THEN Append(units, u)
  ELSE [units EXCEPT ![Len(units)] = Sooner(@, u.ts)]

AddHashToNodeName(d, h, n, t) ==
  [d EXCEPT !.HashToNodeNames[h] = Upsert(@, Unit(Short[n], t))]
AddIPToNodeName(d, ip, n, t) ==
  [d EXCEPT !.IPToNodeNames[ip] = Upsert(@, Unit(Short[n], t))]
AddIPToMethod(d, ip, m, t) ==
  [d EXCEPT !.IPToMethods[ip] = Upsert(@, Unit(m, t))]
-----------------------------------------------------------------------------
(* Looking up.                                                              *)

\* Starts from the first value recorded, whenever it was; later entries win
\* when they are more recent and not after t.
ValueAt(units, t) ==
  LET cur[i \in 1..Len(units)] ==
        IF i = 1 THEN units[1]
        ELSE LET before == cur[i - 1] IN
             IF units[i].ts > before.ts /\ units[i].ts <= t THEN units[i] ELSE before
  IN IF units = <<>> THEN NoUnit ELSE cur[Len(units)]

GetIPFromHash(d, h) == d.HashToIP[h].value
GetNodeNameFromHash(d, h, t) == ValueAt(d.HashToNodeNames[h], t).value
GetNodeNameFromIP(d, ip, t) == ValueAt(d.IPToNodeNames[ip], t).value
GetMethodFromIP(d, ip, t) == ValueAt(d.IPToMethods[ip], t).value

\* The hashes seen on an IP, oldest proof first.  The map has no order and the
\* sort is not stable: any order of equal timestamps.
HashSlices(d, ip) ==
  LET on == {h \in Hashes : d.HashToIP[h] # NoUnit /\ d.HashToIP[h].value = ip}
  IN {s \in SetToSeqs({Unit(h, d.HashToIP[h].ts) : h \in on}) :
        \A i, j \in DOMAIN s : i < j => s[i].ts <= s[j].ts}

GetHashFromIP(d, ip, t) == {ValueAt(s, t).value : s \in HashSlices(d, ip)}

\* Each of these is the set of the results the program may give.
SimplestInfoFromIP(d, ip, t) ==
  LET nameOf(h) == IF h = "" THEN "" ELSE GetNodeNameFromHash(d, h, t)
      firstName(s) == LET named == {i \in DOMAIN s : nameOf(s[i].value) # ""}
                      IN IF named = {} THEN ip ELSE nameOf(s[Min(named)].value)
  IN IF GetNodeNameFromIP(d, ip, t) # "" THEN {GetNodeNameFromIP(d, ip, t)}
     ELSE IF AssumeIPStable THEN {firstName(s) : s \in HashSlices(d, ip)}
     ELSE {IF nameOf(h) # "" THEN nameOf(h) ELSE ip : h \in GetHashFromIP(d, ip, t)}

SimplestInfoFromHash(d, h, t) ==
  IF GetNodeNameFromHash(d, h, t) # "" THEN {GetNodeNameFromHash(d, h, t)}
  ELSE IF GetIPFromHash(d, h) # "" THEN SimplestInfoFromIP(d, GetIPFromHash(d, h), t)
  ELSE {h}

IsNodeUUIDKnown(d, h) == d.HashToIP[h] # NoUnit \/ d.HashToNodeNames[h] # <<>>
IsNodeNameKnown(d, n) ==
  \/ \E h \in Hashes : \E i \in DOMAIN d.HashToNodeNames[h] : d.HashToNodeNames[h][i].value = n
  \/ \E p \in IPs : \E i \in DOMAIN d.IPToNodeNames[p] : d.IPToNodeNames[p][i].value = n
=============================================================================
