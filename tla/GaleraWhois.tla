---------------------------- MODULE GaleraWhois ----------------------------
(***************************************************************************)
(* translate/whois.go and whois.go: everything the logs say of one node,   *)
(* found by walking from the searched value (a uuid, an IP or a node name) *)
(* through the translation maps.  The answer is a tree: under each value,  *)
(* one node per type of value, holding values found nowhere else in the    *)
(* tree so far.  The walk is depth first; within a node its values are     *)
(* taken in the map's order, which is any order.                           *)
(***************************************************************************)
EXTENDS GaleraTranslate

CONSTANTS Unspecified,  \* the names that are not followed ("unspecified")
          MaxFacts,     \* bound: facts read
          MaxFiles      \* bound: log files

ASSUME UnspecifiedAssumption == Unspecified \subseteq Names

VARIABLES db,      \* the translation maps
          facts,   \* history: what was read, in the order it was read
          clock,   \* time of the last line read in this file
          files,   \* files begun
          search,  \* the value searched for, with its type
          tree,    \* values found: type, value, time, and the value it is under
          stack    \* nodes being filtered, the current one first
dbVars == <<db, facts, clock, files>>
whoisVars == <<search, tree, stack>>
vars == <<dbVars, whoisVars>>

(* Reading logs: each line may tell one fact.  Files are read one after the *)
(* other; within a file time does not go back, in the next one it may.      *)

Facts == [kind : {"HashToIP"}, key : Hashes, value : IPs, ts : Times]
         \cup [kind : {"HashToNodeName"}, key : Hashes, value : Names, ts : Times]
         \cup [kind : {"IPToNodeName"}, key : IPs, value : Names, ts : Times]
         \cup [kind : {"IPToMethod"}, key : IPs, value : Methods, ts : Times]

Record(d, f) ==
  CASE f.kind = "HashToIP"   -> AddHashToIP(d, f.key, f.value, f.ts)
    [] f.kind = "HashToNodeName" -> AddHashToNodeName(d, f.key, f.value, f.ts)
    [] f.kind = "IPToNodeName"   -> AddIPToNodeName(d, f.key, f.value, f.ts)
    [] f.kind = "IPToMethod" -> AddIPToMethod(d, f.key, f.value, f.ts)

ReadFact(f) ==
  /\ Len(facts) < MaxFacts /\ f.ts >= clock
  /\ db' = Record(db, f)
  /\ facts' = Append(facts, f) /\ clock' = f.ts
  /\ UNCHANGED files

NextFile ==
  /\ files < MaxFiles /\ facts # <<>>
  /\ files' = files + 1 /\ clock' = 1
  /\ UNCHANGED <<db, facts>>

InitDB == db = EmptyDB /\ facts = <<>> /\ clock = 1 /\ files = 1
ReadLogs == NextFile \/ \E f \in Facts : ReadFact(f)
-----------------------------------------------------------------------------
Pairs == ({"nodename"} \X Names) \cup ({"ip"} \X IPs) \cup ({"uuid"} \X Hashes)
NoPair == <<"none", "none">>
TypeOrder == <<"nodename", "ip", "uuid">>   \* forcedIterationOrder

Pair(r) == <<r.type, r.value>>
Found(tr) == {Pair(r) : r \in tr}
Entry(p, parent, t) == [type |-> p[1], value |-> p[2], parent |-> parent, ts |-> t]
-----------------------------------------------------------------------------
\* The oldest entry of a value in a slice, as the scan meets it.
FirstWith(units, v) == units[Min({i \in DOMAIN units : units[i].value = v})].ts
Has(units, v) == \E i \in DOMAIN units : units[i].value = v

LinksOfIP(ip) ==
  {Entry(<<"uuid", h>>, <<"ip", ip>>, db.HashToIP[h].ts) :
     h \in {g \in Hashes : db.HashToIP[g] # NoUnit /\ db.HashToIP[g].value = ip}}
  \cup {Entry(<<"nodename", n>>, <<"ip", ip>>, FirstWith(db.IPToNodeNames[ip], n)) :
          n \in {m \in Names : Has(db.IPToNodeNames[ip], m)}}

LinksOfUUID(h) ==
  {Entry(<<"nodename", n>>, <<"uuid", h>>, FirstWith(db.HashToNodeNames[h], n)) :
     n \in {m \in Names : Has(db.HashToNodeNames[h], m)}}
  \cup {Entry(<<"ip", i>>, <<"uuid", h>>, db.HashToIP[h].ts) :
          i \in {j \in IPs : db.HashToIP[h] # NoUnit /\ db.HashToIP[h].value = j}}

LinksOfName(n) ==
  IF n \in Unspecified THEN {} ELSE
  {Entry(<<"uuid", h>>, <<"nodename", n>>, FirstWith(db.HashToNodeNames[h], n)) :
     h \in {g \in Hashes : Has(db.HashToNodeNames[g], n)}}
  \cup {Entry(<<"ip", i>>, <<"nodename", n>>, FirstWith(db.IPToNodeNames[i], n)) :
          i \in {j \in IPs : Has(db.IPToNodeNames[j], n)}}

Links(p) == CASE p[1] = "ip" -> LinksOfIP(p[2])
              [] p[1] = "uuid" -> LinksOfUUID(p[2])
              [] p[1] = "nodename" -> LinksOfName(p[2])

\* Mutant: values found under another node are added again.
NewLinksMutant(p) == {r \in Links(p) : r \notin tree}
\* AddChildKey for each: only values that are nowhere in the tree yet.
NewLinks(p) == {r \in Links(p) : Pair(r) \notin Found(tree)}
-----------------------------------------------------------------------------
(* The recursion, as a stack of nodes: `todo' are the values whose links    *)
(* are still to be added, `kids' those whose sub nodes are still to visit.  *)

Node(type, values) == [type |-> type, todo |-> values, kids |-> values]
SubNode(type, p) == Node(type, {r.value : r \in {q \in tree : q.parent = p /\ q.type = type}})
Top == stack[1]

\* whois.go: a node name or a uuid must be known to be searched for.
\* All files are read by then, and what they said is of no more use: the
\* history is forgotten.
Searchable == {p \in Pairs : \/ p[1] = "ip"
                             \/ p[1] = "nodename" /\ IsNodeNameKnown(db, p[2])
                             \/ p[1] = "uuid" /\ IsNodeUUIDKnown(db, p[2])}

Whois(p) ==
  /\ search = NoPair /\ Len(facts) = MaxFacts /\ p \in Searchable
  /\ search' = p
  /\ tree' = {Entry(p, NoPair, 0)}
  /\ stack' = <<Node(p[1], {p[2]})>>
  /\ facts' = <<>> /\ clock' = 1 /\ files' = 1
  /\ UNCHANGED db

FilterDB(v) ==
  /\ stack # <<>> /\ v \in Top.todo
  /\ tree' = tree \cup NewLinks(<<Top.type, v>>)
  /\ stack' = [stack EXCEPT ![1].todo = @ \ {v}]
  /\ UNCHANGED <<dbVars, search>>

\* Mutant: the names under a value are not visited.
DescendMutant(v) ==
  /\ stack # <<>> /\ Top.todo = {} /\ v \in Top.kids
  /\ stack' = <<SubNode(TypeOrder[2], <<Top.type, v>>), SubNode(TypeOrder[3], <<Top.type, v>>)>>
              \o [stack EXCEPT ![1].kids = @ \ {v}]
  /\ UNCHANGED <<dbVars, search, tree>>

Descend(v) ==
  /\ stack # <<>> /\ Top.todo = {} /\ v \in Top.kids
  /\ stack' = <<SubNode(TypeOrder[1], <<Top.type, v>>),
                SubNode(TypeOrder[2], <<Top.type, v>>),
                SubNode(TypeOrder[3], <<Top.type, v>>)>>
              \o [stack EXCEPT ![1].kids = @ \ {v}]
  /\ UNCHANGED <<dbVars, search, tree>>

\* Mutant: a visited value stays among those to visit.
ReturnMutant ==
  /\ stack # <<>> /\ Top.todo = {} /\ Top.kids = {}
  /\ stack' = [stack EXCEPT ![1].kids = {r.value : r \in {q \in tree : q.type = Top.type}}]
  /\ UNCHANGED <<dbVars, search, tree>>

Return ==
  /\ stack # <<>> /\ Top.todo = {} /\ Top.kids = {}
  /\ stack' = Tail(stack)
  /\ UNCHANGED <<dbVars, search, tree>>

Filter == Return \/ \E v \in Names \cup IPs \cup Hashes : FilterDB(v) \/ Descend(v)

Init == InitDB /\ search = NoPair /\ tree = {} /\ stack = <<>>
Next == \/ search = NoPair /\ ReadLogs /\ UNCHANGED whoisVars
        \/ \E p \in Pairs : Whois(p)
        \/ Filter

Spec == Init /\ [][Next]_vars /\ WF_vars(Filter)
-----------------------------------------------------------------------------
(* Properties.                                                              *)

\* The value a fact records (names are shortened).
Said(f) == IF f.kind \in {"HashToNodeName", "IPToNodeName"} THEN Short[f.value] ELSE f.value
Units(kind, k) == CASE kind = "HashToNodeName" -> db.HashToNodeNames[k]
                    [] kind = "IPToNodeName"   -> db.IPToNodeNames[k]
                    [] kind = "IPToMethod" -> db.IPToMethods[k]
Keys == {<<f.kind, f.key>> : f \in ToSet(facts)}
About(kind, k) == {i \in DOMAIN facts : facts[i].kind = kind /\ facts[i].key = k}

UnitType(V) == [value : V, ts : Times]
DBTypeOK ==
  /\ db.HashToIP \in [Hashes -> UnitType(IPs) \cup {NoUnit}]
  /\ db.HashToNodeNames \in [Hashes -> Seq(UnitType(Names))]
  /\ db.IPToNodeNames \in [IPs -> Seq(UnitType(Names))]
  /\ db.IPToMethods \in [IPs -> Seq(UnitType(Methods))]
  /\ clock \in Times

\* A hash keeps the first IP any file gave for it, with the time of the
\* earliest line about it in whatever order the files were read.
EarliestProof ==
  facts # <<>> => \A h \in Hashes : LET is == About("HashToIP", h) IN
    IF is = {} THEN db.HashToIP[h] = NoUnit
    ELSE db.HashToIP[h] = Unit(facts[Min(is)].value, Min({facts[i].ts : i \in is}))

\* Only where the lines about a key were read in order of time, no two at one
\* instant, is it sure which of several values is given: what the last line at or
\* before that time said (the first line for earlier times), so that recording only
\* changes loses nothing.
InForce ==
  \A k \in Keys : k[1] # "HashToIP" =>
    LET is == About(k[1], k[2]) IN
    (\A i, j \in is : i < j => facts[i].ts < facts[j].ts) =>
      \A t \in Times :
        ValueAt(Units(k[1], k[2]), t).value =
          Said(facts[Max({Min(is)} \cup {i \in is : facts[i].ts <= t})])

\* In whatever order the files were read, the name or method given for a time was
\* said by then, or is the first one read; it is never one only said later.
SaidByThen ==
  \A k \in Keys : k[1] # "HashToIP" =>
    LET is == About(k[1], k[2]) IN
    \A t \in Times : LET v == ValueAt(Units(k[1], k[2]), t).value IN
      v = Said(facts[Min(is)]) \/ \E i \in is : facts[i].ts <= t /\ Said(facts[i]) = v

\* The hash given for a reused IP is the last one that appeared on it by then,
\* even when the files were read out of order.
LastHashOfIP ==
  \A ip \in IPs, t \in Times :
    LET on == {h \in Hashes : db.HashToIP[h] # NoUnit /\ db.HashToIP[h].value = ip}
        seen == {h \in on : db.HashToIP[h].ts <= t}
    IN \A h \in GetHashFromIP(db, ip, t) \ {""} :
         IF seen = {} THEN \A g \in on : db.HashToIP[h].ts <= db.HashToIP[g].ts
         ELSE h \in seen /\ \A g \in seen : db.HashToIP[g].ts <= db.HashToIP[h].ts

\* What a lookup may rely on: addresses and their hashes in whatever order the files
\* were read; of names and methods that they were said by then or first, and that
\* they are the ones in force where the lines about the key came in order of time.
LookupsRight == EarliestProof /\ LastHashOfIP /\ SaidByThen /\ InForce

\* What a value leads to in one step.
Targets(p) == {Pair(r) : r \in Links(p)}
ClosedSet(S) == \A p \in S : Targets(p) \subseteq S

\* Each value is in the tree once, so the recursion cannot go round a cycle of
\* the maps (a name, its IP, the IP's uuid and back).
FoundOnce == \A r, s \in tree : Pair(r) = Pair(s) => r = s

\* Nothing is found that the maps do not link to the search: the tree is in
\* every set of values that contains the search and all its members' links.
OnlyLinked == search # NoPair =>
  \A S \in SUBSET Pairs : search \in S /\ ClosedSet(S) => Found(tree) \subseteq S

\* When the walk ends everything linked to the search has been found, whatever
\* value was reached first and under which node it was attached.
AllLinked == search # NoPair /\ stack = <<>> => ClosedSet(Found(tree))

\* The walk finds what is linked to the search, all of it, nothing else, once.
FoundExactly == FoundOnce /\ OnlyLinked /\ AllLinked

\* The walk ends, whatever cycles the maps have.
WhoisEnds == search # NoPair ~> stack = <<>>
=============================================================================
