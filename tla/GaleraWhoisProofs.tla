------------------------- MODULE GaleraWhoisProofs -------------------------
(***************************************************************************)
(* Theorems about GaleraWhois, for every set of nodes, every reading of    *)
(* the logs and every order of the walk.                                   *)
(***************************************************************************)
EXTENDS GaleraWhois, SequenceTheorems, FiniteSetTheorems, WellFoundedInduction, TLAPS

(* The translation maps.                                                    *)

Maps(d) ==
  /\ d = [HashToIP |-> d.HashToIP, HashToNodeNames |-> d.HashToNodeNames,
          IPToNodeNames |-> d.IPToNodeNames, IPToMethods |-> d.IPToMethods]
  /\ d.HashToIP \in [Hashes -> UnitType(IPs) \cup {NoUnit}]
  /\ d.HashToNodeNames \in [Hashes -> Seq(UnitType(Names))]
  /\ d.IPToNodeNames \in [IPs -> Seq(UnitType(Names))]
  /\ d.IPToMethods \in [IPs -> Seq(UnitType(Methods))]

LEMMA SoonerTyped ==
  ASSUME NEW V, NEW u \in UnitType(V), NEW t \in Times PROVE Sooner(u, t) \in UnitType(V)
BY DEF Sooner, UnitType

LEMMA UnitTyped ==
  ASSUME NEW V, NEW v \in V, NEW t \in Times PROVE Unit(v, t) \in UnitType(V)
BY DEF Unit, UnitType

LEMMA UpsertTyped ==
  ASSUME NEW V, NEW us \in Seq(UnitType(V)), NEW u \in UnitType(V)
  PROVE  Upsert(us, u) \in Seq(UnitType(V))
<1>1. CASE us = <<>> \/ us[Len(us)].value # u.value
  BY <1>1 DEF Upsert
<1>2. CASE ~(us = <<>> \/ us[Len(us)].value # u.value)
  <2>1. us[Len(us)] \in UnitType(V)
    BY <1>2
  <2>2. u.ts \in Times
    BY DEF UnitType
  <2>3. Sooner(us[Len(us)], u.ts) \in UnitType(V)
    BY <2>1, <2>2, SoonerTyped
  <2>4. Upsert(us, u) = [us EXCEPT ![Len(us)] = Sooner(us[Len(us)], u.ts)]
    BY <1>2 DEF Upsert
  <2>6. Len(us) \in 1..Len(us)
    BY <1>2
  <2>7. [us EXCEPT ![Len(us)] = Sooner(us[Len(us)], u.ts)] \in Seq(UnitType(V))
    BY <2>3, <2>6, ExceptSeq
  <2> QED
    BY <2>4, <2>7
<1> QED
  BY <1>1, <1>2

LEMMA HashToIPTyped ==
  ASSUME NEW d, Maps(d), NEW h \in Hashes, NEW ip \in IPs, NEW t \in Times
  PROVE  Maps(AddHashToIP(d, h, ip, t))
<1> DEFINE x == IF d.HashToIP[h] = NoUnit THEN Unit(ip, t) ELSE Sooner(d.HashToIP[h], t)
<1>1. x \in UnitType(IPs)
  BY UnitTyped, SoonerTyped DEF Maps
<1>2. AddHashToIP(d, h, ip, t) = [d EXCEPT !.HashToIP = [d.HashToIP EXCEPT ![h] = x]]
  BY DEF AddHashToIP, Maps
<1> HIDE DEF x
<1> QED
  BY <1>1, <1>2 DEF Maps

LEMMA RecordTyped == ASSUME NEW d, Maps(d), NEW f \in Facts PROVE Maps(Record(d, f))
<1>1. CASE f.kind = "HashToIP"
  <2>1. f.key \in Hashes /\ f.value \in IPs /\ f.ts \in Times
    BY <1>1 DEF Facts
  <2> QED
    BY <1>1, <2>1, HashToIPTyped DEF Record
<1>2. CASE f.kind = "HashToNodeName"
  <2>1. f.key \in Hashes /\ Short[f.value] \in Names /\ f.ts \in Times
    BY <1>2, ShortAssumption DEF Facts
  <2>2. Upsert(d.HashToNodeNames[f.key], Unit(Short[f.value], f.ts)) \in Seq(UnitType(Names))
    BY <2>1, UnitTyped, UpsertTyped DEF Maps
  <2> QED
    BY <1>2, <2>1, <2>2 DEF Record, AddHashToNodeName, Maps
<1>3. CASE f.kind = "IPToNodeName"
  <2>1. f.key \in IPs /\ Short[f.value] \in Names /\ f.ts \in Times
    BY <1>3, ShortAssumption DEF Facts
  <2>2. Upsert(d.IPToNodeNames[f.key], Unit(Short[f.value], f.ts)) \in Seq(UnitType(Names))
    BY <2>1, UnitTyped, UpsertTyped DEF Maps
  <2> QED
    BY <1>3, <2>1, <2>2 DEF Record, AddIPToNodeName, Maps
<1>4. CASE f.kind = "IPToMethod"
  <2>1. f.key \in IPs /\ f.value \in Methods /\ f.ts \in Times
    BY <1>4 DEF Facts
  <2>2. Upsert(d.IPToMethods[f.key], Unit(f.value, f.ts)) \in Seq(UnitType(Methods))
    BY <2>1, UnitTyped, UpsertTyped DEF Maps
  <2> QED
    BY <1>4, <2>1, <2>2 DEF Record, AddIPToMethod, Maps
<1> QED
  BY <1>1, <1>2, <1>3, <1>4 DEF Facts

\* The maps hold what they should whatever is read in whatever order: at most
\* one address per hash, and sequences of names and methods at times of the logs.
THEOREM DBTypeCorrect == Spec => []DBTypeOK
<1> DEFINE I == Maps(db) /\ clock \in Times
<1>1. Init => I
  <2> SUFFICES ASSUME Init PROVE I
    OBVIOUS
  <2>1. clock \in Times
    BY TimesAssumption DEF Init, InitDB, Times
  <2>2. Maps(EmptyDB)
    BY DEF Maps, EmptyDB
  <2> QED
    BY <2>1, <2>2 DEF Init, InitDB
<1>2. I /\ [Next]_vars => I'
  <2> SUFFICES ASSUME I, [Next]_vars PROVE I'
    OBVIOUS
  <2>1. CASE ReadLogs
    <3>1. ASSUME NEW f \in Facts, ReadFact(f) PROVE I'
      <4>1. f.ts \in Times
        BY <3>1 DEF Facts
      <4> QED
        BY <3>1, <4>1, RecordTyped DEF ReadFact
    <3>2. CASE NextFile
      BY <3>2, TimesAssumption DEF NextFile, Times
    <3> QED
      BY <2>1, <3>1, <3>2 DEF ReadLogs
  <2>2. ASSUME NEW p \in Pairs, Whois(p) PROVE I'
    BY <2>2, TimesAssumption DEF Whois, Times
  <2>3. CASE Filter
    BY <2>3 DEF Filter, FilterDB, Descend, Return, dbVars
  <2>4. CASE UNCHANGED vars
    BY <2>4 DEF vars, dbVars
  <2> QED
    BY <2>1, <2>2, <2>3, <2>4 DEF Next
<1>3. I => DBTypeOK
  BY DEF Maps, DBTypeOK
<1> QED
  BY <1>1, <1>2, <1>3, PTL DEF Spec
-----------------------------------------------------------------------------
(* The walk.                                                                *)

Untouched == search = NoPair => tree = {} /\ stack = <<>>

\* What the walk still has before it: a value found whose links are not all in
\* the tree waits in a node of the stack, or under a value that waits there.
Waits(p) == \E i \in DOMAIN stack : stack[i].type = p[1] /\ p[2] \in stack[i].todo
Above(p) == \E i \in DOMAIN stack : stack[i].type = p[1] /\ p[2] \in stack[i].kids
Linked(p) == Targets(p) \subseteq Found(tree)
Pending == \A r \in tree : Linked(Pair(r)) \/ Waits(Pair(r)) \/ Above(r.parent)

\* The nodes of the stack hold values that were found, and the links of a value
\* are taken before its sub nodes are made.
Types == {"nodename", "ip", "uuid"}
Values == Names \cup IPs \cup Hashes
Nodes == [type : Types, todo : SUBSET Values, kids : SUBSET Values]
StackInv ==
  /\ stack \in Seq(Nodes)
  /\ \A i \in DOMAIN stack : /\ stack[i].todo \subseteq stack[i].kids
                             /\ \A v \in stack[i].kids : <<stack[i].type, v>> \in Found(tree)

TreeInv ==
  /\ search # NoPair => search \in Found(tree)
  /\ \A r \in tree : /\ r.type \in Types /\ r.value \in Values
                     /\ r.parent = <<r.parent[1], r.parent[2]>>

WalkInv == Untouched /\ Pending /\ StackInv /\ TreeInv /\ FoundOnce /\ OnlyLinked

LEMMA LinksOfIPShape ==
  ASSUME NEW ip, NEW r \in LinksOfIP(ip)
  PROVE  \/ /\ r.value \in Hashes
            /\ r = Entry(<<"uuid", r.value>>, <<"ip", ip>>, db.HashToIP[r.value].ts)
         \/ /\ r.value \in Names
            /\ r = Entry(<<"nodename", r.value>>, <<"ip", ip>>,
                         FirstWith(db.IPToNodeNames[ip], r.value))
BY DEF LinksOfIP, Entry

LEMMA LinksOfUUIDShape ==
  ASSUME NEW h, NEW r \in LinksOfUUID(h)
  PROVE  \/ /\ r.value \in Names
            /\ r = Entry(<<"nodename", r.value>>, <<"uuid", h>>,
                         FirstWith(db.HashToNodeNames[h], r.value))
         \/ /\ r.value \in IPs
            /\ r = Entry(<<"ip", r.value>>, <<"uuid", h>>, db.HashToIP[h].ts)
BY DEF LinksOfUUID, Entry

LEMMA LinksOfNameShape ==
  ASSUME NEW n, NEW r \in LinksOfName(n)
  PROVE  \/ /\ r.value \in Hashes
            /\ r = Entry(<<"uuid", r.value>>, <<"nodename", n>>,
                         FirstWith(db.HashToNodeNames[r.value], n))
         \/ /\ r.value \in IPs
            /\ r = Entry(<<"ip", r.value>>, <<"nodename", n>>,
                         FirstWith(db.IPToNodeNames[r.value], n))
BY DEF LinksOfName, Entry

\* What a value links to is one entry per value, and is put under it.
LEMMA LinkShape ==
  ASSUME NEW ty \in Types, NEW v, NEW r \in Links(<<ty, v>>)
  PROVE  /\ r.parent = <<ty, v>> /\ r.type \in Types /\ r.value \in Values
         /\ \A q \in Links(<<ty, v>>) : Pair(q) = Pair(r) => q = r
<1>1. CASE ty = "ip"
  <2>1. Links(<<ty, v>>) = LinksOfIP(v)
    BY <1>1 DEF Links
  <2> QED
    BY <1>1, <2>1, LinksOfIPShape DEF Entry, Pair, Types, Values
<1>2. CASE ty = "uuid"
  <2>1. Links(<<ty, v>>) = LinksOfUUID(v)
    BY <1>2 DEF Links
  <2> QED
    BY <1>2, <2>1, LinksOfUUIDShape DEF Entry, Pair, Types, Values
<1>3. CASE ty = "nodename"
  <2>1. Links(<<ty, v>>) = LinksOfName(v)
    BY <1>3 DEF Links
  <2> QED
    BY <1>3, <2>1, LinksOfNameShape DEF Entry, Pair, Types, Values
<1> QED
  BY <1>1, <1>2, <1>3 DEF Types

LEMMA FilterDBStep ==
  ASSUME WalkInv, NEW v, FilterDB(v) PROVE WalkInv'
<1> DEFINE p == <<stack[1].type, v>>
<1>1. /\ Len(stack) > 0 /\ 1 \in DOMAIN stack /\ v \in stack[1].todo /\ v \in stack[1].kids
      /\ stack[1] \in Nodes /\ stack[1].type \in Types /\ p \in Found(tree)
  <2>1. stack \in Seq(Nodes) /\ stack # <<>> /\ v \in stack[1].todo
    BY DEF FilterDB, Top, WalkInv, StackInv
  <2>2. Len(stack) > 0 /\ 1 \in DOMAIN stack /\ stack[1] \in Nodes
    BY <2>1
  <2>3. stack[1].type \in Types
    BY <2>2 DEF Nodes
  <2>4. v \in stack[1].kids /\ p \in Found(tree)
    BY <2>1, <2>2 DEF WalkInv, StackInv
  <2> QED
    BY <2>1, <2>2, <2>3, <2>4
<1>2. tree' = tree \cup NewLinks(p) /\ stack' = [stack EXCEPT ![1].todo = @ \ {v}]
  BY DEF FilterDB, Top
<1>3. UNCHANGED <<dbVars, search>> /\ search # NoPair
  BY <1>1 DEF FilterDB, WalkInv, Untouched
<1>4. \A r \in NewLinks(p) : /\ r \in Links(p) /\ Pair(r) \notin Found(tree)
                             /\ r.parent = p /\ r.type \in Types /\ r.value \in Values
                             /\ \A q \in NewLinks(p) : Pair(q) = Pair(r) => q = r
  BY <1>1, LinkShape DEF NewLinks
<1>5. Found(tree') = Found(tree) \cup Targets(p)
  BY <1>2 DEF Found, NewLinks, Targets
<1>6. \A q : Targets(q)' = Targets(q)
  BY <1>3 DEF Targets, Links, LinksOfIP, LinksOfUUID, LinksOfName, Pair, dbVars
<1>7. /\ DOMAIN stack' = DOMAIN stack
      /\ \A i \in DOMAIN stack : stack'[i].type = stack[i].type /\ stack'[i].kids = stack[i].kids
      /\ \A i \in DOMAIN stack : stack'[i].todo \subseteq stack[i].todo
      /\ \A i \in DOMAIN stack \ {1} : stack'[i] = stack[i]
      /\ stack'[1].todo = stack[1].todo \ {v}
  BY <1>1, <1>2 DEF WalkInv, StackInv, Nodes
<1>8. StackInv'
  <2>1. [stack[1] EXCEPT !.todo = @ \ {v}] \in Nodes
    BY <1>1 DEF Nodes
  <2>2. stack' = [stack EXCEPT ![1] = [stack[1] EXCEPT !.todo = @ \ {v}]]
    BY <1>2
  <2>3. stack' \in Seq(Nodes)
    BY <1>1, <2>1, <2>2, ExceptSeq DEF WalkInv, StackInv
  <2> QED
    BY <2>3, <1>7, <1>5 DEF WalkInv, StackInv
<1>9. Pending'
  <2> SUFFICES ASSUME NEW r \in tree' PROVE (Linked(Pair(r)) \/ Waits(Pair(r)) \/ Above(r.parent))'
    BY DEF Pending
  <2>1. CASE r \in NewLinks(p)
    BY <2>1, <1>1, <1>4, <1>7 DEF Above
  <2>2. CASE r \in tree /\ Pair(r) = p
    BY <2>2, <1>5, <1>6 DEF Linked
  <2>3. CASE r \in tree /\ Pair(r) # p
    <3>1. CASE Linked(Pair(r))
      BY <3>1, <1>5, <1>6 DEF Linked
    <3>2. CASE Above(r.parent)
      BY <3>2, <1>7 DEF Above
    <3>3. CASE Waits(Pair(r))
      <4>1. PICK i \in DOMAIN stack : stack[i].type = Pair(r)[1] /\ Pair(r)[2] \in stack[i].todo
        BY <3>3 DEF Waits
      <4>2. Pair(r)[2] \in stack'[i].todo
        BY <4>1, <2>3, <1>7 DEF Pair
      <4> QED
        BY <4>1, <4>2, <1>7 DEF Waits, Pair
    <3> QED
      BY <2>3, <3>1, <3>2, <3>3 DEF WalkInv, Pending
  <2> QED
    BY <2>1, <2>2, <2>3, <1>2
<1>10. TreeInv'
  <2>1. \A r \in NewLinks(p) : r.parent = <<r.parent[1], r.parent[2]>>
    BY <1>4
  <2>2. search' \in Found(tree')
    BY <1>3, <1>5 DEF WalkInv, TreeInv
  <2> QED
    BY <1>2, <1>4, <2>1, <2>2 DEF WalkInv, TreeInv
<1>11. FoundOnce'
  BY <1>2, <1>4 DEF WalkInv, FoundOnce, Found
<1>12. OnlyLinked'
  <2> SUFFICES ASSUME NEW S \in SUBSET Pairs, search \in S, ClosedSet(S)' PROVE Found(tree') \subseteq S
    BY <1>3 DEF OnlyLinked, Found, Pair
  <2>1. ClosedSet(S)
    BY <1>6 DEF ClosedSet
  <2>2. Found(tree) \subseteq S
    BY <2>1, <1>3 DEF WalkInv, OnlyLinked
  <2> QED
    BY <1>1, <1>5, <2>1, <2>2 DEF ClosedSet
<1> QED
  BY <1>3, <1>8, <1>9, <1>10, <1>11, <1>12 DEF WalkInv, Untouched

LEMMA DescendStep ==
  ASSUME WalkInv, NEW v, Descend(v) PROVE WalkInv'
<1> DEFINE p == <<stack[1].type, v>>
           top == [stack[1] EXCEPT !.kids = @ \ {v}]
           subs == <<SubNode("nodename", p), SubNode("ip", p), SubNode("uuid", p)>>
<1>1. /\ Len(stack) > 0 /\ 1 \in DOMAIN stack /\ v \in stack[1].kids /\ stack[1].todo = {}
      /\ stack \in Seq(Nodes) /\ stack[1] \in Nodes
  <2>1. stack \in Seq(Nodes) /\ stack # <<>> /\ v \in stack[1].kids /\ stack[1].todo = {}
    BY DEF Descend, Top, WalkInv, StackInv
  <2> QED
    BY <2>1
<1>2. stack' = subs \o [stack EXCEPT ![1] = top]
  BY DEF Descend, Top, TypeOrder
<1>3. UNCHANGED <<dbVars, search, tree>>
  BY DEF Descend
<1>4. /\ search # NoPair /\ \A q : Targets(q)' = Targets(q) /\ Found(tree') = Found(tree)
  <2>1. search # NoPair
    BY <1>1 DEF WalkInv, Untouched
  <2>2. \A q : Targets(q)' = Targets(q)
    BY <1>3 DEF Targets, Links, LinksOfIP, LinksOfUUID, LinksOfName, Pair, dbVars
  <2> QED
    BY <1>3, <2>1, <2>2
<1>5. top \in Nodes /\ top.type = stack[1].type /\ top.todo = {} /\ top.kids = stack[1].kids \ {v}
  BY <1>1 DEF Nodes
<1>6. \A ty \in Types :
        /\ SubNode(ty, p) \in Nodes /\ SubNode(ty, p).type = ty
        /\ SubNode(ty, p).todo = SubNode(ty, p).kids
        /\ \A u \in SubNode(ty, p).kids : <<ty, u>> \in Found(tree)
        /\ \A r \in tree : r.parent = p /\ r.type = ty => r.value \in SubNode(ty, p).todo
  BY DEF SubNode, Node, Nodes, Found, Pair, WalkInv, TreeInv
<1> HIDE DEF top
<1>7. /\ DOMAIN stack' = 1..(Len(stack) + 3) /\ stack' \in Seq(Nodes)
      /\ stack'[1] = SubNode("nodename", p) /\ stack'[2] = SubNode("ip", p)
      /\ stack'[3] = SubNode("uuid", p) /\ stack'[4] = top
      /\ \A i \in DOMAIN stack \ {1} : stack'[i + 3] = stack[i]
  <2> DEFINE rest == [stack EXCEPT ![1] = top]
  <2>1. rest \in Seq(Nodes) /\ Len(rest) = Len(stack) /\ rest[1] = top
        /\ \A i \in DOMAIN stack \ {1} : rest[i] = stack[i]
    BY <1>1, <1>5, ExceptSeq
  <2> HIDE DEF rest
  <2>2. stack' = subs \o rest
    BY <1>2 DEF rest
  <2>3. subs \in Seq(Nodes) /\ Len(subs) = 3
    BY <1>6 DEF Types
  <2>4. stack' \in Seq(Nodes) /\ Len(stack') = Len(stack) + 3
    BY <2>1, <2>2, <2>3, ConcatProperties
  <2>5. \A i \in 1..Len(stack') : stack'[i] = IF i <= 3 THEN subs[i] ELSE rest[i - 3]
    BY <2>1, <2>2, <2>3, <2>4, ConcatProperties
  <2>6. stack'[1] = subs[1] /\ stack'[2] = subs[2] /\ stack'[3] = subs[3] /\ stack'[4] = rest[1]
    BY <1>1, <2>4, <2>5
  <2>7. \A i \in DOMAIN stack \ {1} : stack'[i + 3] = rest[i]
    BY <1>1, <2>4, <2>5
  <2> QED
    BY <2>1, <2>4, <2>6, <2>7
<1> HIDE DEF subs
<1>8. \A i \in DOMAIN stack' :
        \/ \E ty \in Types : stack'[i] = SubNode(ty, p)
        \/ stack'[i] = top
        \/ \E j \in DOMAIN stack \ {1} : stack'[i] = stack[j]
  <2> SUFFICES ASSUME NEW i \in DOMAIN stack', i \notin 1..4
               PROVE  \E j \in DOMAIN stack \ {1} : stack'[i] = stack[j]
    BY <1>1, <1>7 DEF Types
  <2>1. i - 3 \in DOMAIN stack \ {1} /\ stack'[(i - 3) + 3] = stack[i - 3]
    BY <1>1, <1>7
  <2> QED
    BY <2>1, <1>7
<1>9. StackInv'
  <2> SUFFICES ASSUME NEW i \in DOMAIN stack'
               PROVE  /\ stack'[i].todo \subseteq stack'[i].kids
                      /\ \A u \in stack'[i].kids : <<stack'[i].type, u>> \in Found(tree)
    BY <1>3, <1>4, <1>7 DEF StackInv
  <2>1. CASE \E ty \in Types : stack'[i] = SubNode(ty, p)
    BY <2>1, <1>6
  <2>2. CASE stack'[i] = top
    BY <2>2, <1>1, <1>5 DEF WalkInv, StackInv
  <2>3. CASE \E j \in DOMAIN stack \ {1} : stack'[i] = stack[j]
    BY <2>3 DEF WalkInv, StackInv
  <2> QED
    BY <1>8, <2>1, <2>2, <2>3
<1>10. \A i \in DOMAIN stack : \E j \in DOMAIN stack' :
         /\ stack'[j].type = stack[i].type /\ stack'[j].todo = stack[i].todo
         /\ stack'[j].kids = IF i = 1 THEN stack[1].kids \ {v} ELSE stack[i].kids
  <2> SUFFICES ASSUME NEW i \in DOMAIN stack
               PROVE  \E j \in DOMAIN stack' :
                        /\ stack'[j].type = stack[i].type /\ stack'[j].todo = stack[i].todo
                        /\ stack'[j].kids = IF i = 1 THEN stack[1].kids \ {v} ELSE stack[i].kids
    OBVIOUS
  <2>1. i + 3 \in DOMAIN stack'
    BY <1>1, <1>7
  <2>2. CASE i = 1
    BY <2>1, <2>2, <1>1, <1>5, <1>7
  <2>3. CASE i # 1
    BY <2>1, <2>3, <1>7
  <2> QED
    BY <2>2, <2>3
<1>11. Pending'
  <2> SUFFICES ASSUME NEW r \in tree PROVE (Linked(Pair(r)) \/ Waits(Pair(r)) \/ Above(r.parent))'
    BY <1>3 DEF Pending
  <2>1. CASE Linked(Pair(r))
    BY <2>1, <1>4 DEF Linked
  <2>2. CASE Waits(Pair(r))
    BY <2>2, <1>10 DEF Waits
  <2>3. CASE r.parent = p
    <3>1. r.type \in Types /\ r.value \in SubNode(r.type, p).todo /\ SubNode(r.type, p).type = r.type
      BY <2>3, <1>6 DEF WalkInv, TreeInv
    <3>2. \E i \in DOMAIN stack' : stack'[i] = SubNode(r.type, p)
      BY <3>1, <1>1, <1>7 DEF Types
    <3> QED
      BY <3>1, <3>2 DEF Waits, Pair
  <2>4. CASE Above(r.parent) /\ r.parent # p
    <3>1. PICK i \in DOMAIN stack : stack[i].type = r.parent[1] /\ r.parent[2] \in stack[i].kids
      BY <2>4 DEF Above
    <3>2. PICK j \in DOMAIN stack' :
            /\ stack'[j].type = stack[i].type
            /\ stack'[j].kids = IF i = 1 THEN stack[1].kids \ {v} ELSE stack[i].kids
      BY <1>10
    <3>3. ~(r.parent[1] = stack[1].type /\ r.parent[2] = v)
      BY <2>4 DEF WalkInv, TreeInv
    <3>4. r.parent[2] \in stack'[j].kids
      BY <3>1, <3>2, <3>3
    <3> QED
      BY <3>1, <3>2, <3>4 DEF Above
  <2> QED
    BY <2>1, <2>2, <2>3, <2>4 DEF WalkInv, Pending
<1>12. TreeInv' /\ FoundOnce' /\ Untouched'
  BY <1>3, <1>4 DEF WalkInv, TreeInv, FoundOnce, Untouched
<1>13. OnlyLinked'
  BY <1>3, <1>4 DEF WalkInv, OnlyLinked, ClosedSet
<1> QED
  BY <1>9, <1>11, <1>12, <1>13 DEF WalkInv

LEMMA ReturnStep == ASSUME WalkInv, Return PROVE WalkInv'
<1>1. stack \in Seq(Nodes) /\ Len(stack) > 0 /\ stack[1].todo = {} /\ stack[1].kids = {}
  <2>1. stack \in Seq(Nodes) /\ stack # <<>>
    BY DEF Return, WalkInv, StackInv
  <2> QED
    BY <2>1 DEF Return, Top
<1>2. stack' = Tail(stack) /\ UNCHANGED <<dbVars, search, tree>>
  BY DEF Return
<1>3. search # NoPair /\ (\A q : Targets(q)' = Targets(q)) /\ Found(tree') = Found(tree)
  <2>1. search # NoPair
    BY <1>1 DEF WalkInv, Untouched
  <2>2. \A q : Targets(q)' = Targets(q)
    BY <1>2 DEF Targets, Links, LinksOfIP, LinksOfUUID, LinksOfName, Pair, dbVars
  <2> QED
    BY <1>2, <2>1, <2>2
<1>4. /\ stack' \in Seq(Nodes)
      /\ \A i \in DOMAIN stack' : i + 1 \in DOMAIN stack /\ stack'[i] = stack[i + 1]
      /\ \A i \in DOMAIN stack \ {1} : i - 1 \in DOMAIN stack' /\ stack'[i - 1] = stack[i]
  BY <1>1, <1>2
<1>5. StackInv'
  BY <1>3, <1>4 DEF WalkInv, StackInv
<1>6. Pending'
  <2> SUFFICES ASSUME NEW r \in tree PROVE (Linked(Pair(r)) \/ Waits(Pair(r)) \/ Above(r.parent))'
    BY <1>2 DEF Pending
  <2>1. CASE Linked(Pair(r))
    BY <2>1, <1>3 DEF Linked
  <2>2. CASE Waits(Pair(r))
    BY <2>2, <1>1, <1>4 DEF Waits
  <2>3. CASE Above(r.parent)
    BY <2>3, <1>1, <1>4 DEF Above
  <2> QED
    BY <2>1, <2>2, <2>3 DEF WalkInv, Pending
<1>7. TreeInv' /\ FoundOnce' /\ Untouched'
  BY <1>2, <1>3 DEF WalkInv, TreeInv, FoundOnce, Untouched
<1>8. OnlyLinked'
  BY <1>2, <1>3 DEF WalkInv, OnlyLinked, ClosedSet
<1> QED
  BY <1>5, <1>6, <1>7, <1>8 DEF WalkInv

LEMMA WhoisStep == ASSUME WalkInv, NEW p \in Pairs, Whois(p) PROVE WalkInv'
<1>1. /\ p[1] \in Types /\ p[2] \in Values /\ p = <<p[1], p[2]>> /\ p # NoPair
  BY DEF Pairs, Types, Values, NoPair
<1>2. search' = p /\ tree' = {Entry(p, NoPair, 0)} /\ stack' = <<Node(p[1], {p[2]})>>
  BY DEF Whois
<1>3. Found(tree') = {p}
  BY <1>1, <1>2 DEF Found, Pair, Entry
<1>4. Node(p[1], {p[2]}) \in Nodes
  BY <1>1 DEF Node, Nodes
<1>5. StackInv'
  <2>1. stack' \in Seq(Nodes) /\ DOMAIN stack' = {1}
    BY <1>2, <1>4
  <2> QED
    BY <2>1, <1>1, <1>2, <1>3 DEF StackInv, Node
<1>6. Pending'
  <2>1. Waits(p)'
    BY <1>2 DEF Waits, Node
  <2>2. \A r \in tree' : Pair(r) = p
    BY <1>1, <1>2 DEF Pair, Entry
  <2> QED
    BY <2>1, <2>2 DEF Pending
<1>7. TreeInv'
  BY <1>1, <1>2, <1>3 DEF TreeInv, Entry, NoPair
<1>8. FoundOnce' /\ Untouched'
  BY <1>1, <1>2 DEF FoundOnce, Untouched
<1>9. OnlyLinked'
  BY <1>2, <1>3 DEF OnlyLinked
<1> QED
  BY <1>5, <1>6, <1>7, <1>8, <1>9 DEF WalkInv

LEMMA ReadStep ==
  ASSUME WalkInv, search = NoPair, UNCHANGED whoisVars PROVE WalkInv'
BY DEF WalkInv, Untouched, whoisVars, Pending, StackInv, TreeInv, FoundOnce, OnlyLinked

\* However the values are linked in circles and in whatever order they are
\* visited, the search finds what is linked to it, all of it, nothing else, and
\* each value once.
THEOREM FoundExactlyTheorem == Spec => []FoundExactly
<1>1. Init => WalkInv
  BY DEF Init, WalkInv, Untouched, Pending, StackInv, TreeInv, FoundOnce, OnlyLinked
<1>2. WalkInv /\ [Next]_vars => WalkInv'
  <2> SUFFICES ASSUME WalkInv, [Next]_vars PROVE WalkInv'
    OBVIOUS
  <2>1. CASE search = NoPair /\ ReadLogs /\ UNCHANGED whoisVars
    BY <2>1, ReadStep
  <2>2. ASSUME NEW p \in Pairs, Whois(p) PROVE WalkInv'
    BY <2>2, WhoisStep
  <2>3. CASE Filter
    BY <2>3, ReturnStep, FilterDBStep, DescendStep DEF Filter
  <2>4. CASE UNCHANGED vars
    <3>1. UNCHANGED <<db, search, tree, stack>>
      BY <2>4 DEF vars, dbVars, whoisVars
    <3>2. \A q : Targets(q)' = Targets(q)
      BY <3>1 DEF Targets, Links, LinksOfIP, LinksOfUUID, LinksOfName, Pair
    <3> QED
      BY <3>1, <3>2 DEF WalkInv, Untouched, Pending, Linked, Waits, Above, StackInv, TreeInv,
                        FoundOnce, OnlyLinked, ClosedSet
  <2> QED
    BY <2>1, <2>2, <2>3, <2>4 DEF Next
<1>3. WalkInv => FoundExactly
  <2> SUFFICES ASSUME WalkInv PROVE AllLinked
    BY DEF WalkInv, FoundExactly
  <2>1. ASSUME stack = <<>>, NEW r \in tree PROVE Targets(Pair(r)) \subseteq Found(tree)
    BY <2>1 DEF WalkInv, Pending, Linked, Waits, Above
  <2> QED
    BY <2>1 DEF AllLinked, ClosedSet, Found
<1> QED
  BY <1>1, <1>2, <1>3, PTL DEF Spec
-----------------------------------------------------------------------------
(* Lookups.                                                                 *)

LEMMA LeastNumber ==
  ASSUME NEW T \in SUBSET Nat, T # {} PROVE \E n \in T : \A k \in T : n <= k
<1>1. PICK n \in T : \A k \in T : ~(<<k, n>> \in OpToRel(<, Nat))
  BY NatLessThanWellFounded, WFMin
<1>2. \A k \in T : ~(k < n)
  BY <1>1 DEF OpToRel
<1> QED
  BY <1>2

LEMMA MinIs ==
  ASSUME NEW T \in SUBSET Nat, NEW n \in T, \A k \in T : n <= k PROVE Min(T) = n
<1>1. n \in T /\ \A k \in T : n =< k
  OBVIOUS
<1>2. Min(T) \in T /\ \A k \in T : Min(T) =< k
  BY <1>1 DEF Min
<1> DEFINE m == Min(T)
<1>3. m \in T /\ m =< n /\ n =< m
  BY <1>1, <1>2
<1> HIDE DEF m
<1>4. m = n
  BY <1>3
<1> QED
  BY <1>4 DEF m

LEMMA MaxIs ==
  ASSUME NEW T \in SUBSET Nat, NEW n \in T, \A k \in T : k <= n PROVE Max(T) = n
<1>1. n \in T /\ \A k \in T : n >= k
  OBVIOUS
<1>2. Max(T) \in T /\ \A k \in T : Max(T) >= k
  BY <1>1 DEF Max
<1> DEFINE m == Max(T)
<1>3. m \in T /\ m =< n /\ n =< m
  BY <1>1, <1>2
<1> HIDE DEF m
<1>4. m = n
  BY <1>3
<1> QED
  BY <1>4 DEF m

LEMMA GreatestNumber ==
  ASSUME NEW N \in Nat, NEW T \in SUBSET (1..N), T # {} PROVE \E n \in T : \A k \in T : k <= n
<1> DEFINE S == {j \in Nat : N - j \in T}
<1>1. S # {}
  <2>1. PICK k \in T : TRUE
    OBVIOUS
  <2>2. N - k \in Nat /\ N - (N - k) = k
    OBVIOUS
  <2> QED
    BY <2>1, <2>2
<1>2. PICK j \in S : \A k \in S : j <= k
  BY <1>1, LeastNumber
<1>3. ASSUME NEW k \in T PROVE k <= N - j
  <2>1. N - k \in S
    OBVIOUS
  <2>2. j <= N - k
    BY <1>2, <2>1
  <2> QED
    BY <2>2
<1> QED
  BY <1>2, <1>3

\* The values that are current one after the other.
Steps(cur, us, t) ==
  /\ cur[1] = us[1]
  /\ \A i \in 2..Len(us) :
       cur[i] = IF us[i].ts > cur[i - 1].ts /\ us[i].ts <= t THEN us[i] ELSE cur[i - 1]

LEMMA ValueSteps ==
  ASSUME NEW S, NEW us \in Seq(S), us # <<>>, NEW t
  PROVE  \E cur : Steps(cur, us, t) /\ ValueAt(us, t) = cur[Len(us)]
<1> DEFINE N == Len(us)
           next(g, i) == IF us[i].ts > g[i - 1].ts /\ us[i].ts <= t THEN us[i] ELSE g[i - 1]
           F(g, k) == [i \in 1..k |-> IF i = 1 THEN us[1] ELSE next(g, i)]
           cur == CHOOSE g : g = F(g, N)
<1>0. N \in Nat /\ N > 0
  OBVIOUS
<1>1. ValueAt(us, t) = cur[N]
  BY DEF ValueAt
<1> HIDE DEF N
<1>2. \A k \in Nat : \E g : g = F(g, k)
  <2> DEFINE T == {k \in Nat : ~\E g : g = F(g, k)}
  <2> SUFFICES ASSUME T # {} PROVE FALSE
    OBVIOUS
  <2>1. PICK k \in T : \A j \in T : k <= j
    BY LeastNumber
  <2>2. k # 0
    <3> DEFINE g == [i \in 1..0 |-> us[1]]
    <3>1. g = F(g, 0)
      OBVIOUS
    <3> QED
      BY <3>1
  <2>3. PICK f : f = F(f, k - 1)
    <3>1. k - 1 \in Nat /\ ~(k <= k - 1)
      BY <2>1, <2>2
    <3>2. k - 1 \notin T
      BY <2>1, <3>1
    <3> QED
      BY <3>1, <3>2
  <2> DEFINE g == [i \in 1..k |-> IF i = k THEN IF i = 1 THEN us[1] ELSE next(f, k) ELSE f[i]]
  <2>4. g = F(g, k)
    <3>1. k \in Nat /\ k - 1 \in Nat
      BY <2>1, <2>2
    <3>2. ASSUME NEW i \in 1..k PROVE g[i] = IF i = 1 THEN us[1] ELSE next(g, i)
      <4>1. CASE i = k
        BY <2>2, <3>1, <4>1
      <4>2. CASE i # k
        <5>1. i \in 1..(k - 1) /\ g[i] = f[i]
          BY <3>1, <4>2
        <5>2. f[i] = IF i = 1 THEN us[1] ELSE next(f, i)
          BY <2>3, <5>1
        <5>3. i # 1 => g[i - 1] = f[i - 1]
          BY <3>1, <4>2
        <5> QED
          BY <5>1, <5>2, <5>3
      <4> QED
        BY <4>1, <4>2
    <3> QED
      BY <3>2
  <2> QED
    BY <2>4
<1>3. cur = F(cur, N)
  BY <1>0, <1>2
<1> HIDE DEF cur
<1>4. \A i \in 1..N : cur[i] = IF i = 1 THEN us[1] ELSE next(cur, i)
  BY <1>3
<1>5. Steps(cur, us, t)
  BY <1>0, <1>4 DEF Steps, N
<1> QED
  BY <1>1, <1>5 DEF N

\* A lookup among one value more.
LEMMA ValueAppended ==
  ASSUME NEW S, NEW us \in Seq(S), us # <<>>, NEW u \in S, NEW t
  PROVE  LET c == ValueAt(us, t) IN
         ValueAt(Append(us, u), t) = IF u.ts > c.ts /\ u.ts <= t THEN u ELSE c
<1> DEFINE N == Len(us)  vs == Append(us, u)
<1>1. /\ N \in Nat /\ N > 0 /\ vs \in Seq(S) /\ vs # <<>> /\ Len(vs) = N + 1
      /\ vs[N + 1] = u /\ \A i \in 1..N : vs[i] = us[i]
  OBVIOUS
<1>2. PICK c : Steps(c, us, t) /\ ValueAt(us, t) = c[N]
  BY ValueSteps
<1> HIDE DEF vs
<1>3. PICK d : Steps(d, vs, t) /\ ValueAt(vs, t) = d[N + 1]
  BY <1>1, ValueSteps
<1> HIDE DEF N
<1>4. \A i \in 1..N : d[i] = c[i]
  <2> DEFINE T == {i \in 1..N : d[i] # c[i]}
  <2> SUFFICES ASSUME T # {} PROVE FALSE
    OBVIOUS
  <2>1. PICK i \in T : \A j \in T : i <= j
    <3>1. T \in SUBSET Nat
      BY <1>1
    <3> QED
      BY <3>1, LeastNumber
  <2>2. i # 1
    BY <1>1, <1>2, <1>3 DEF Steps
  <2>3. i \in 2..N /\ i \in 2..(N + 1) /\ i - 1 \in 1..N /\ i - 1 \notin T
    BY <1>1, <2>1, <2>2
  <2>4. d[i - 1] = c[i - 1] /\ vs[i] = us[i]
    BY <1>1, <2>3
  <2>5. c[i] = IF us[i].ts > c[i - 1].ts /\ us[i].ts <= t THEN us[i] ELSE c[i - 1]
    BY <1>2, <2>3 DEF Steps, N
  <2>6. d[i] = IF vs[i].ts > d[i - 1].ts /\ vs[i].ts <= t THEN vs[i] ELSE d[i - 1]
    BY <1>1, <1>3, <2>3 DEF Steps
  <2> QED
    BY <2>4, <2>5, <2>6
<1>5. d[N + 1] = IF u.ts > d[N].ts /\ u.ts <= t THEN u ELSE d[N]
  <2>1. N + 1 \in 2..(N + 1) /\ (N + 1) - 1 = N
    BY <1>1
  <2>2. d[N + 1] = IF vs[N + 1].ts > d[(N + 1) - 1].ts /\ vs[N + 1].ts <= t THEN vs[N + 1] ELSE d[(N + 1) - 1]
    BY <1>1, <1>3, <2>1 DEF Steps
  <2> QED
    BY <1>1, <2>1, <2>2
<1>6. d[N] = c[N]
  BY <1>1, <1>4
<1> QED
  BY <1>2, <1>3, <1>5, <1>6 DEF vs

\* A lookup gives one of the values; the first if it is later than asked for,
\* else the latest that is not.
LEMMA ValueTaken ==
  ASSUME NEW V, NEW us \in Seq(UnitType(V)), us # <<>>, NEW t \in Times
  PROVE  LET v == ValueAt(us, t) IN
         /\ \E i \in DOMAIN us : v = us[i]
         /\ us[1].ts > t => v = us[1]
         /\ us[1].ts <= t => v.ts <= t /\ \A i \in DOMAIN us : us[i].ts <= t => us[i].ts <= v.ts
<1> DEFINE N == Len(us)
<1>1. N \in Nat /\ N > 0 /\ DOMAIN us = 1..N /\ \A i \in 1..N : us[i] \in UnitType(V) /\ us[i].ts \in Nat
  <2>1. N \in Nat /\ N > 0 /\ DOMAIN us = 1..N
    OBVIOUS
  <2>2. \A i \in 1..N : us[i] \in UnitType(V)
    OBVIOUS
  <2>3. \A x \in UnitType(V) : x.ts \in Nat
    BY DEF UnitType, Times
  <2> QED
    BY <2>1, <2>2, <2>3
<1>2. PICK c : Steps(c, us, t) /\ ValueAt(us, t) = c[N]
  BY ValueSteps
<1>3. t \in Nat
  BY DEF Times
<1> DEFINE P(k) == /\ \E i \in 1..k : c[k] = us[i]
                   /\ us[1].ts > t => c[k] = us[1]
                   /\ us[1].ts <= t => c[k].ts <= t /\ \A i \in 1..k : us[i].ts <= t => us[i].ts <= c[k].ts
<1>4. \A k \in 1..N : P(k)
  <2> DEFINE T == {k \in 1..N : ~P(k)}
  <2> SUFFICES ASSUME T # {} PROVE FALSE
    OBVIOUS
  <2> HIDE DEF N
  <2>1. PICK k \in T : \A j \in T : k <= j
    <3>1. T \in SUBSET Nat
      BY <1>1
    <3> QED
      BY <3>1, LeastNumber
  <2>2. k # 1
    <3>1. c[1] = us[1] /\ us[1].ts \in Nat
      BY <1>1, <1>2 DEF Steps
    <3>2. P(1)
      BY <1>3, <3>1
    <3> QED
      BY <3>2
  <2>3. k \in 2..N /\ k - 1 \in 1..N /\ k - 1 \notin T /\ k \in 1..N
    BY <1>1, <2>1, <2>2
  <2>4. P(k - 1)
    BY <2>3
  <2>5. c[k] = IF us[k].ts > c[k - 1].ts /\ us[k].ts <= t THEN us[k] ELSE c[k - 1]
    BY <1>2, <2>3 DEF Steps, N
  <2>6. PICK h \in 1..(k - 1) : c[k - 1] = us[h]
    BY <2>4
  <2>7. us[k].ts \in Nat /\ us[h].ts \in Nat /\ us[1].ts \in Nat /\ h \in 1..k /\ h \in 1..N
    BY <1>1, <2>3, <2>6
  <2>8. \E i \in 1..k : c[k] = us[i]
    BY <2>3, <2>5, <2>6, <2>7
  <2>9. us[1].ts > t => c[k] = us[1]
    BY <1>3, <2>4, <2>5, <2>7
  <2>10. ASSUME us[1].ts <= t PROVE c[k].ts <= t /\ \A i \in 1..k : us[i].ts <= t => us[i].ts <= c[k].ts
    <3>1. c[k - 1].ts <= t /\ c[k - 1].ts \in Nat
      BY <2>4, <2>6, <2>7, <2>10
    <3>2. c[k].ts <= t /\ c[k - 1].ts <= c[k].ts /\ c[k].ts \in Nat
      BY <1>3, <2>5, <2>7, <3>1
    <3>3. ASSUME NEW i \in 1..k, us[i].ts <= t PROVE us[i].ts <= c[k].ts
      <4>1. CASE i = k
        BY <1>3, <2>5, <2>7, <3>1, <3>3, <4>1
      <4>2. CASE i # k
        <5>1. i \in 1..(k - 1) /\ us[i].ts \in Nat
          BY <1>1, <2>3, <4>2
        <5>2. us[i].ts <= c[k - 1].ts
          BY <2>4, <2>10, <3>3, <5>1
        <5> QED
          BY <3>1, <3>2, <5>1, <5>2
      <4> QED
        BY <4>1, <4>2
    <3> QED
      BY <3>2, <3>3
  <2>11. P(k)
    BY <2>8, <2>9, <2>10
  <2> QED
    BY <2>11
<1>5. P(N)
  BY <1>1, <1>4
<1> HIDE DEF N
<1> QED
  BY <1>1, <1>2, <1>5

\* The lines is of the history fs, said in time order; the one in force at t.
Ordered(fs, is) == \A i, j \in is : i < j => fs[i].ts < fs[j].ts
InForceAt(fs, is, t, m) ==
  /\ (\A i \in is : m <= i) \/ fs[m].ts <= t
  /\ \A i \in is : fs[i].ts <= t => i <= m

\* What was kept of them.
Kept(fs, is, us) ==
  /\ is = {} <=> us = <<>>
  /\ Ordered(fs, is) => \A m \in is :
       /\ (\A i \in is : i <= m) =>
            us[Len(us)].value = Said(fs[m]) /\ \A j \in DOMAIN us : us[j].ts <= fs[m].ts
       /\ \A t \in Times : InForceAt(fs, is, t, m) => ValueAt(us, t).value = Said(fs[m])

\* The first address said, with the time of the earliest line.
First(fs, is, u) ==
  IF is = {} THEN u = NoUnit
  ELSE \E m, e \in is : /\ \A i \in is : m <= i /\ fs[e].ts <= fs[i].ts
                        /\ u = Unit(fs[m].value, fs[e].ts)

LEMMA FactTime == \A f \in Facts : f.ts \in Times /\ f.ts \in Nat
BY DEF Facts, Times

\* One line more about something else, about it.
LEMMA KeptStill ==
  ASSUME NEW fs \in Seq(Facts), NEW is \in SUBSET (1..Len(fs)), NEW us, Kept(fs, is, us), NEW f \in Facts
  PROVE  Kept(Append(fs, f), is, us)
<1>1. \A i \in is : Append(fs, f)[i] = fs[i]
  OBVIOUS
<1> DEFINE gs == Append(fs, f)
<1> HIDE DEF gs
<1>2. Ordered(gs, is) <=> Ordered(fs, is)
  BY <1>1 DEF Ordered, gs
<1>3. \A m \in is : \A t \in Times : InForceAt(gs, is, t, m) <=> InForceAt(fs, is, t, m)
  BY <1>1 DEF InForceAt, gs
<1>4. \A m \in is : gs[m] = fs[m]
  BY <1>1 DEF gs
<1>5. Kept(gs, is, us)
  BY <1>2, <1>3, <1>4 DEF Kept
<1> QED
  BY <1>5 DEF gs

LEMMA FirstStill ==
  ASSUME NEW fs \in Seq(Facts), NEW is \in SUBSET (1..Len(fs)), NEW u, First(fs, is, u), NEW f \in Facts
  PROVE  First(Append(fs, f), is, u)
<1>1. \A i \in is : Append(fs, f)[i] = fs[i]
  OBVIOUS
<1> DEFINE gs == Append(fs, f)
<1>2. \A i \in is : gs[i] = fs[i]
  BY <1>1
<1> HIDE DEF gs
<1>3. First(gs, is, u)
  BY <1>2 DEF First
<1> QED
  BY <1>3 DEF gs

LEMMA FirstStep ==
  ASSUME NEW fs \in Seq(Facts), NEW is \in SUBSET (1..Len(fs)), NEW u, First(fs, is, u), NEW f \in Facts
  PROVE  First(Append(fs, f), is \cup {Len(fs) + 1},
               IF u = NoUnit THEN Unit(f.value, f.ts) ELSE Sooner(u, f.ts))
<1> DEFINE n == Len(fs) + 1  gs == Append(fs, f)  js == is \cup {n}
           w == IF u = NoUnit THEN Unit(f.value, f.ts) ELSE Sooner(u, f.ts)
<1>1. gs[n] = f /\ n \in js /\ n \in Nat /\ \A i \in is : gs[i] = fs[i] /\ i < n /\ i \in Nat /\ fs[i] \in Facts
  OBVIOUS
<1>2. \A i \in is : fs[i].ts \in Nat /\ fs[i].ts > 0
  BY <1>1, FactTime DEF Times
<1>3. f.ts \in Nat
  BY FactTime
<1> HIDE DEF n, gs
<1>4. CASE is = {}
  <2>1. w = Unit(gs[n].value, gs[n].ts) /\ js = {n}
    BY <1>1, <1>4 DEF First
  <2>2. \A i \in js : n <= i /\ gs[n].ts <= gs[i].ts
    BY <1>1, <1>3, <2>1
  <2> QED
    BY <1>1, <2>1, <2>2 DEF First, n, gs
<1>5. CASE is # {}
  <2>1. PICK m \in is, e \in is : /\ \A i \in is : m <= i /\ fs[e].ts <= fs[i].ts
                                  /\ u = Unit(fs[m].value, fs[e].ts)
    BY <1>5 DEF First
  <2>2. u # NoUnit
    <3>1. u.ts = fs[e].ts /\ NoUnit.ts = 0
      BY <2>1 DEF Unit, NoUnit
    <3> QED
      BY <1>2, <3>1
  <2>3. Sooner(u, f.ts) = Unit(fs[m].value, IF fs[e].ts > f.ts THEN f.ts ELSE fs[e].ts)
    BY <2>1 DEF Sooner, Unit
  <2>4. PICK d : d = IF fs[e].ts > f.ts THEN n ELSE e
    OBVIOUS
  <2>5. d \in js /\ m \in js /\ w = Unit(gs[m].value, gs[d].ts)
    BY <1>1, <2>2, <2>3, <2>4
  <2>6. \A i \in js : m <= i /\ gs[d].ts <= gs[i].ts
    <3> TAKE i \in js
    <3>1. CASE i = n
      BY <1>1, <1>2, <1>3, <2>4, <3>1
    <3>2. CASE i \in is
      BY <1>1, <1>2, <1>3, <2>1, <2>4, <3>2
    <3> QED
      BY <3>1, <3>2
  <2>7. js # {}
    BY <1>1
  <2> HIDE DEF w, js
  <2>8. First(gs, js, w)
    BY <2>5, <2>6, <2>7 DEF First
  <2> QED
    BY <2>8 DEF w, js, n, gs
<1> QED
  BY <1>4, <1>5

LEMMA KeptStep ==
  ASSUME NEW V, NEW us \in Seq(UnitType(V)), NEW fs \in Seq(Facts), NEW is \in SUBSET (1..Len(fs)),
         Kept(fs, is, us), NEW f \in Facts, Said(f) \in V
  PROVE  Kept(Append(fs, f), is \cup {Len(fs) + 1}, Upsert(us, Unit(Said(f), f.ts)))
<1> DEFINE n == Len(fs) + 1  gs == Append(fs, f)  js == is \cup {n}
           u == Unit(Said(f), f.ts)  vs == Upsert(us, u)
<1>1. gs[n] = f /\ n \in js /\ n \in Nat /\ \A i \in is : gs[i] = fs[i] /\ i < n /\ i \in Nat /\ fs[i] \in Facts
  OBVIOUS
<1>2. \A i \in is : fs[i].ts \in Nat
  BY <1>1, FactTime
<1>3. f.ts \in Nat /\ u \in UnitType(V) /\ u.ts = f.ts /\ u.value = Said(f)
  BY FactTime, UnitTyped DEF Unit
<1>4. \A i \in js : i \in Nat /\ gs[i].ts \in Nat
  BY <1>1, <1>2, <1>3
<1>5. Times \subseteq Nat
  BY DEF Times
<1>6. vs # <<>>
  <2>1. CASE us = <<>> \/ us[Len(us)].value # u.value
    <3>1. Append(us, u) # <<>>
      OBVIOUS
    <3> QED
      BY <2>1, <3>1 DEF Upsert
  <2>2. CASE ~(us = <<>> \/ us[Len(us)].value # u.value)
    <3>1. vs = [us EXCEPT ![Len(us)] = Sooner(us[Len(us)], u.ts)]
      BY <2>2 DEF Upsert
    <3>2. DOMAIN vs = DOMAIN us /\ DOMAIN us # {}
      BY <2>2, <3>1
    <3>3. DOMAIN <<>> = {}
      OBVIOUS
    <3> QED
      BY <3>2, <3>3
  <2> QED
    BY <2>1, <2>2
<1>7. ASSUME Ordered(gs, js), NEW m \in js
      PROVE  /\ (\A i \in js : i <= m) =>
                  vs[Len(vs)].value = Said(gs[m]) /\ \A j \in DOMAIN vs : vs[j].ts <= gs[m].ts
             /\ \A t \in Times : InForceAt(gs, js, t, m) => ValueAt(vs, t).value = Said(gs[m])
  <2> HIDE DEF n, gs
  <2>1. Ordered(fs, is)
    BY <1>1, <1>7 DEF Ordered
  <2>2. \A i \in is : fs[i].ts < f.ts
    BY <1>1, <1>7 DEF Ordered
  <2>3. (\A i \in js : i <= m) => m = n
    BY <1>1
  <2>4. CASE is = {}
    <3>1. us = <<>> /\ m = n
      BY <1>1, <2>4 DEF Kept
    <3>2. vs = <<u>>
      BY <3>1 DEF Upsert
    <3>3. \A t \in Times : ValueAt(vs, t) = u
      <4> TAKE t \in Times
      <4>1. PICK xs : xs = <<u>>
        OBVIOUS
      <4>2. xs \in Seq(UnitType(V)) /\ xs # <<>> /\ DOMAIN xs = {1} /\ xs[1] = u
        BY <1>3, <4>1
      <4>3. \E i \in DOMAIN xs : ValueAt(xs, t) = xs[i]
        BY <4>2, ValueTaken
      <4> QED
        BY <3>2, <4>1, <4>2, <4>3
    <3>4. vs[Len(vs)] = u /\ DOMAIN vs = {1} /\ vs[1] = u
      BY <3>2
    <3> HIDE DEF u, vs
    <3> QED
      BY <1>1, <1>3, <3>1, <3>3, <3>4
  <2>5. CASE is # {}
    <3>1. PICK g \in is : \A i \in is : i <= g
      <4>1. Len(fs) \in Nat
        OBVIOUS
      <4> QED
        BY <2>5, <4>1, GreatestNumber
    <3>2. us # <<>> /\ us[Len(us)].value = Said(fs[g]) /\ \A j \in DOMAIN us : us[j].ts <= fs[g].ts
      BY <2>1, <2>5, <3>1 DEF Kept
    <3>3. \A k \in is, t \in Times : InForceAt(fs, is, t, k) => ValueAt(us, t).value = Said(fs[k])
      BY <2>1 DEF Kept
    <3>4. fs[g].ts < f.ts /\ fs[g].ts \in Nat
      BY <1>2, <2>2
    <3>5. \A j \in DOMAIN us : us[j] \in UnitType(V) /\ us[j].ts \in Nat /\ us[j].ts < f.ts
      <4> TAKE j \in DOMAIN us
      <4>1. us[j] \in UnitType(V)
        OBVIOUS
      <4>2. us[j].ts \in Nat
        BY <4>1, <1>5 DEF UnitType
      <4> QED
        BY <1>3, <3>2, <3>4, <4>1, <4>2
    <3>6. ASSUME NEW t \in Times, InForceAt(gs, js, t, m), f.ts <= t
          PROVE  m = n /\ ValueAt(us, t).value = us[Len(us)].value
      <4>1. n <= m
        BY <1>1, <3>6 DEF InForceAt
      <4>2. m = n
        BY <1>1, <4>1
      <4>3. fs[g].ts <= t
        BY <1>3, <1>5, <3>4, <3>6
      <4>4. InForceAt(fs, is, t, g)
        BY <3>1, <4>3 DEF InForceAt
      <4> QED
        BY <3>2, <3>3, <4>2, <4>4
    <3>7. ASSUME NEW t \in Times, InForceAt(gs, js, t, m), ~(f.ts <= t)
          PROVE  m \in is /\ ValueAt(us, t).value = Said(fs[m])
      <4>1. m # n
        BY <1>1, <2>5, <3>7 DEF InForceAt
      <4>2. m \in is
        BY <4>1
      <4>3. InForceAt(fs, is, t, m)
        BY <1>1, <3>7, <4>2 DEF InForceAt
      <4> QED
        BY <3>3, <4>2, <4>3
    <3>8. Len(us) \in DOMAIN us
      BY <3>2
    <3>9. CASE us[Len(us)].value = u.value
      <4>1. vs = [us EXCEPT ![Len(us)] = Sooner(us[Len(us)], u.ts)]
        BY <3>2, <3>9 DEF Upsert
      <4>2. ~(us[Len(us)].ts > u.ts)
        BY <1>3, <3>5, <3>8
      <4>3. Sooner(us[Len(us)], u.ts) = us[Len(us)]
        BY <3>5, <3>8, <4>2 DEF Sooner, UnitType
      <4>4. vs = us
        BY <3>8, <4>1, <4>3
      <4> HIDE DEF u, vs
      <4>5. (\A i \in js : i <= m) => vs[Len(vs)].value = Said(gs[m]) /\ \A j \in DOMAIN vs : vs[j].ts <= gs[m].ts
        BY <1>1, <1>3, <2>3, <3>5, <3>9, <4>4
      <4>6. \A t \in Times : InForceAt(gs, js, t, m) => ValueAt(vs, t).value = Said(gs[m])
        BY <1>1, <1>3, <3>6, <3>7, <3>9, <4>4
      <4> QED
        BY <4>5, <4>6
    <3>10. CASE us[Len(us)].value # u.value
      <4>1. vs = Append(us, u)
        BY <3>10 DEF Upsert
      <4>2. /\ vs[Len(vs)] = u /\ DOMAIN vs = DOMAIN us \cup {Len(us) + 1}
            /\ vs[Len(us) + 1] = u /\ \A j \in DOMAIN us : vs[j] = us[j]
        BY <4>1
      <4> HIDE DEF u, vs
      <4>3. (\A i \in js : i <= m) => vs[Len(vs)].value = Said(gs[m]) /\ \A j \in DOMAIN vs : vs[j].ts <= gs[m].ts
        BY <1>1, <1>3, <2>3, <3>5, <4>2
      <4>4. ASSUME NEW t \in Times, InForceAt(gs, js, t, m) PROVE ValueAt(vs, t).value = Said(gs[m])
        <5> DEFINE c == ValueAt(us, t)
        <5>1. ValueAt(vs, t) = IF u.ts > c.ts /\ u.ts <= t THEN u ELSE c
          BY <1>3, <3>2, <4>1, ValueAppended
        <5>2. \E i \in DOMAIN us : c = us[i]
          BY <3>2, ValueTaken
        <5>3. u.ts > c.ts
          BY <1>3, <3>5, <5>2
        <5>4. CASE f.ts <= t
          <6>1. ValueAt(vs, t) = u /\ m = n
            BY <1>3, <3>6, <4>4, <5>1, <5>3, <5>4
          <6> QED
            BY <1>1, <1>3, <6>1
        <5>5. CASE ~(f.ts <= t)
          <6>1. ValueAt(vs, t) = c
            BY <1>3, <5>1, <5>5
          <6>2. m \in is /\ c.value = Said(fs[m])
            BY <3>7, <4>4, <5>5
          <6> QED
            BY <1>1, <6>1, <6>2
        <5> QED
          BY <5>4, <5>5
      <4> QED
        BY <4>3, <4>4
    <3> QED
      BY <3>9, <3>10
  <2> QED
    BY <2>4, <2>5
<1> HIDE DEF u, vs, n, gs
<1>8. Kept(gs, js, vs)
  BY <1>1, <1>6, <1>7 DEF Kept
<1> QED
  BY <1>8 DEF gs, n, vs, u

\* Each value kept was said at its time, and the first one first.
Told(fs, is, us) ==
  /\ is = {} => us = <<>>
  /\ \A j \in DOMAIN us : \E i \in is : us[j].value = Said(fs[i]) /\ us[j].ts = fs[i].ts
  /\ is # {} => us # <<>> /\ \E m \in is : (\A i \in is : m <= i) /\ us[1].value = Said(fs[m])

LEMMA ToldStill ==
  ASSUME NEW fs \in Seq(Facts), NEW is \in SUBSET (1..Len(fs)), NEW us, Told(fs, is, us), NEW f \in Facts
  PROVE  Told(Append(fs, f), is, us)
<1> DEFINE gs == Append(fs, f)
<1>1. \A i \in is : gs[i] = fs[i]
  OBVIOUS
<1> HIDE DEF gs
<1>2. Told(gs, is, us)
  BY <1>1 DEF Told
<1> QED
  BY <1>2 DEF gs

LEMMA ToldStep ==
  ASSUME NEW V, NEW us \in Seq(UnitType(V)), NEW fs \in Seq(Facts), NEW is \in SUBSET (1..Len(fs)),
         Told(fs, is, us), NEW f \in Facts, Said(f) \in V
  PROVE  Told(Append(fs, f), is \cup {Len(fs) + 1}, Upsert(us, Unit(Said(f), f.ts)))
<1> DEFINE n == Len(fs) + 1  gs == Append(fs, f)  js == is \cup {n}
           u == Unit(Said(f), f.ts)  vs == Upsert(us, u)
<1>1. gs[n] = f /\ n \in js /\ n \in Nat /\ \A i \in is : gs[i] = fs[i] /\ i < n
  OBVIOUS
<1>2. u.ts = f.ts /\ u.value = Said(f)
  BY DEF Unit
<1>3. \A j \in DOMAIN us : \E i \in js : us[j].value = Said(gs[i]) /\ us[j].ts = gs[i].ts
  BY <1>1 DEF Told
<1>4. us # <<>> => \E m \in js : (\A i \in js : m <= i) /\ us[1].value = Said(gs[m])
  <2> SUFFICES ASSUME us # <<>> PROVE \E m \in js : (\A i \in js : m <= i) /\ us[1].value = Said(gs[m])
    OBVIOUS
  <2>1. PICK m \in is : (\A i \in is : m <= i) /\ us[1].value = Said(fs[m])
    BY DEF Told
  <2>2. \A i \in js : m <= i
    BY <1>1, <2>1
  <2> QED
    BY <1>1, <2>1, <2>2
<1>5. CASE us = <<>>
  <2>1. is = {} /\ js = {n}
    BY <1>5 DEF Told
  <2>2. vs = <<u>>
    BY <1>5 DEF Upsert
  <2>3. DOMAIN vs = {1} /\ vs[1] = u /\ vs # <<>>
    BY <2>2
  <2> HIDE DEF vs, js, u, gs, n
  <2>4. Told(gs, js, vs)
    BY <1>1, <1>2, <2>1, <2>3 DEF Told
  <2> QED
    BY <2>4 DEF vs, js, u, gs, n
<1>6. CASE us # <<>> /\ us[Len(us)].value # u.value
  <2>1. vs = Append(us, u)
    BY <1>6 DEF Upsert
  <2>2. /\ DOMAIN vs = DOMAIN us \cup {Len(us) + 1} /\ vs # <<>>
        /\ vs[Len(us) + 1] = u /\ \A j \in DOMAIN us : vs[j] = us[j]
    BY <2>1
  <2>3. 1 \in DOMAIN us
    BY <1>6
  <2>5. vs[1].value = us[1].value
    BY <2>2, <2>3
  <2>6. \A j \in DOMAIN us : vs[j] = us[j]
    BY <2>2
  <2>7. PICK K : K = Len(us) + 1
    OBVIOUS
  <2>8. DOMAIN vs = DOMAIN us \cup {K} /\ vs[K] = u /\ vs # <<>>
    BY <2>2, <2>7
  <2> HIDE DEF vs, js, u, gs, n
  <2>9. \A j \in DOMAIN us : \E i \in js : vs[j].value = Said(gs[i]) /\ vs[j].ts = gs[i].ts
    BY <1>3, <2>6
  <2>10. \E i \in js : vs[K].value = Said(gs[i]) /\ vs[K].ts = gs[i].ts
    BY <1>1, <1>2, <2>8
  <2>11. \A j \in DOMAIN vs : \E i \in js : vs[j].value = Said(gs[i]) /\ vs[j].ts = gs[i].ts
    BY <2>8, <2>9, <2>10
  <2>4. Told(gs, js, vs)
    BY <1>1, <1>4, <1>6, <2>5, <2>8, <2>11 DEF Told
  <2> QED
    BY <2>4 DEF vs, js, u, gs, n
<1>7. CASE us # <<>> /\ us[Len(us)].value = u.value
  <2>7. PICK N : N = Len(us)
    OBVIOUS
  <2>8. N \in DOMAIN us /\ us[N] \in UnitType(V)
    BY <1>7, <2>7
  <2>9. PICK w : w = Sooner(us[N], u.ts)
    OBVIOUS
  <2>1. vs = [us EXCEPT ![N] = w]
    BY <1>7, <2>7, <2>9 DEF Upsert
  <2>2. /\ DOMAIN vs = DOMAIN us /\ 1 \in DOMAIN us /\ vs[N] = w
        /\ \A j \in DOMAIN us : j # N => vs[j] = us[j]
    BY <1>7, <2>1, <2>8
  <2>3. w.value = us[N].value /\ w.ts = IF us[N].ts > f.ts THEN f.ts ELSE us[N].ts
    BY <1>2, <2>8, <2>9 DEF Sooner, UnitType
  <2>5. \E i \in js : w.value = Said(gs[i]) /\ w.ts = gs[i].ts
    BY <1>1, <1>2, <1>3, <1>7, <2>3, <2>7, <2>8
  <2>6. vs # <<>>
    <3>1. DOMAIN <<>> = {}
      OBVIOUS
    <3> QED
      BY <2>2, <3>1
  <2> HIDE DEF vs, js, u, gs, n
  <2>10. \A j \in DOMAIN vs : \E i \in js : vs[j].value = Said(gs[i]) /\ vs[j].ts = gs[i].ts
    BY <1>3, <2>2, <2>5
  <2>11. vs[1].value = us[1].value
    BY <2>2, <2>3
  <2>4. Told(gs, js, vs)
    BY <1>1, <1>4, <1>7, <2>6, <2>10, <2>11 DEF Told
  <2> QED
    BY <2>4 DEF vs, js, u, gs, n
<1> QED
  BY <1>5, <1>6, <1>7

Recorded(fs, is, us) == Kept(fs, is, us) /\ Told(fs, is, us)

LEMMA RecordedStill ==
  ASSUME NEW fs \in Seq(Facts), NEW is \in SUBSET (1..Len(fs)), NEW us, Recorded(fs, is, us),
         NEW f \in Facts
  PROVE  Recorded(Append(fs, f), is, us)
BY KeptStill, ToldStill DEF Recorded

LEMMA RecordedStep ==
  ASSUME NEW V, NEW us \in Seq(UnitType(V)), NEW fs \in Seq(Facts), NEW is \in SUBSET (1..Len(fs)),
         Recorded(fs, is, us), NEW f \in Facts, Said(f) \in V
  PROVE  Recorded(Append(fs, f), is \cup {Len(fs) + 1}, Upsert(us, Unit(Said(f), f.ts)))
BY KeptStep, ToldStep DEF Recorded

\* What one fact changes.
LEMMA RecordedAs ==
  ASSUME NEW d, Maps(d), NEW f \in Facts
  PROVE  /\ \A h \in Hashes : Record(d, f).HashToIP[h] =
              IF f.kind = "HashToIP" /\ f.key = h
              THEN IF d.HashToIP[h] = NoUnit THEN Unit(f.value, f.ts) ELSE Sooner(d.HashToIP[h], f.ts)
              ELSE d.HashToIP[h]
         /\ \A h \in Hashes : Record(d, f).HashToNodeNames[h] =
              IF f.kind = "HashToNodeName" /\ f.key = h
              THEN Upsert(d.HashToNodeNames[h], Unit(Said(f), f.ts)) ELSE d.HashToNodeNames[h]
         /\ \A p \in IPs : Record(d, f).IPToNodeNames[p] =
              IF f.kind = "IPToNodeName" /\ f.key = p
              THEN Upsert(d.IPToNodeNames[p], Unit(Said(f), f.ts)) ELSE d.IPToNodeNames[p]
         /\ \A p \in IPs : Record(d, f).IPToMethods[p] =
              IF f.kind = "IPToMethod" /\ f.key = p
              THEN Upsert(d.IPToMethods[p], Unit(Said(f), f.ts)) ELSE d.IPToMethods[p]
<1>1. CASE f.kind = "HashToIP"
  <2> DEFINE x == IF d.HashToIP[f.key] = NoUnit THEN Unit(f.value, f.ts) ELSE Sooner(d.HashToIP[f.key], f.ts)
             r == [d EXCEPT !.HashToIP = [d.HashToIP EXCEPT ![f.key] = x]]
  <2>1. Record(d, f) = r
    BY <1>1 DEF Record, AddHashToIP
  <2>2. r.HashToIP = [d.HashToIP EXCEPT ![f.key] = x] /\ r.HashToNodeNames = d.HashToNodeNames
        /\ r.IPToNodeNames = d.IPToNodeNames /\ r.IPToMethods = d.IPToMethods
    BY DEF Maps
  <2> HIDE DEF r
  <2> QED
    BY <1>1, <2>1, <2>2 DEF Maps
<1>2. CASE f.kind = "HashToNodeName"
  <2> DEFINE x == Upsert(d.HashToNodeNames[f.key], Unit(Said(f), f.ts))
             r == [d EXCEPT !.HashToNodeNames = [d.HashToNodeNames EXCEPT ![f.key] = x]]
  <2>1. Record(d, f) = r
    BY <1>2 DEF Record, AddHashToNodeName, Said
  <2>2. r.HashToIP = d.HashToIP /\ r.HashToNodeNames = [d.HashToNodeNames EXCEPT ![f.key] = x]
        /\ r.IPToNodeNames = d.IPToNodeNames /\ r.IPToMethods = d.IPToMethods
    BY DEF Maps
  <2> HIDE DEF r
  <2> QED
    BY <1>2, <2>1, <2>2 DEF Maps
<1>3. CASE f.kind = "IPToNodeName"
  <2> DEFINE x == Upsert(d.IPToNodeNames[f.key], Unit(Said(f), f.ts))
             r == [d EXCEPT !.IPToNodeNames = [d.IPToNodeNames EXCEPT ![f.key] = x]]
  <2>1. Record(d, f) = r
    BY <1>3 DEF Record, AddIPToNodeName, Said
  <2>2. r.HashToIP = d.HashToIP /\ r.HashToNodeNames = d.HashToNodeNames
        /\ r.IPToNodeNames = [d.IPToNodeNames EXCEPT ![f.key] = x] /\ r.IPToMethods = d.IPToMethods
    BY DEF Maps
  <2> HIDE DEF r
  <2> QED
    BY <1>3, <2>1, <2>2 DEF Maps
<1>4. CASE f.kind = "IPToMethod"
  <2> DEFINE x == Upsert(d.IPToMethods[f.key], Unit(Said(f), f.ts))
             r == [d EXCEPT !.IPToMethods = [d.IPToMethods EXCEPT ![f.key] = x]]
  <2>1. Record(d, f) = r
    BY <1>4 DEF Record, AddIPToMethod, Said
  <2>2. r.HashToIP = d.HashToIP /\ r.HashToNodeNames = d.HashToNodeNames
        /\ r.IPToNodeNames = d.IPToNodeNames /\ r.IPToMethods = [d.IPToMethods EXCEPT ![f.key] = x]
    BY DEF Maps
  <2> HIDE DEF r
  <2> QED
    BY <1>4, <2>1, <2>2 DEF Maps
<1> QED
  BY <1>1, <1>2, <1>3, <1>4 DEF Facts

\* The inductive invariant: until the search begins the maps are what the
\* lines read so far told of each key.
ReadInv ==
  /\ facts \in Seq(Facts)
  /\ \A h \in Hashes : First(facts, About("HashToIP", h), db.HashToIP[h])
  /\ \A h \in Hashes : Recorded(facts, About("HashToNodeName", h), db.HashToNodeNames[h])
  /\ \A p \in IPs : Recorded(facts, About("IPToNodeName", p), db.IPToNodeNames[p])
  /\ \A p \in IPs : Recorded(facts, About("IPToMethod", p), db.IPToMethods[p])
Addressed == {h \in Hashes : db.HashToIP[h] # NoUnit}
LookInv ==
  /\ Maps(db) /\ IsFiniteSet(Addressed)
  /\ search = NoPair => ReadInv
  /\ search # NoPair => facts = <<>>

LEMMA ReadFactStep ==
  ASSUME LookInv, search = NoPair, NEW f \in Facts, ReadFact(f)
  PROVE  Maps(db') /\ IsFiniteSet(Addressed') /\ ReadInv'
<1> DEFINE n == Len(facts) + 1
<1>1. ReadInv /\ Maps(db) /\ IsFiniteSet(Addressed) /\ facts \in Seq(Facts)
  BY DEF LookInv, ReadInv
<1>2. db' = Record(db, f) /\ facts' = Append(facts, f)
  BY DEF ReadFact
<1>3. Maps(db')
  BY <1>1, <1>2, RecordTyped
<1>4. IsFiniteSet(Addressed')
  <2>1. Addressed' \subseteq Addressed \cup {f.key}
    BY <1>1, <1>2, RecordedAs DEF Addressed
  <2>2. IsFiniteSet(Addressed \cup {f.key})
    BY <1>1, FS_AddElement
  <2> QED
    BY <2>1, <2>2, FS_Subset
<1>5. facts' \in Seq(Facts) /\ DOMAIN facts' = DOMAIN facts \cup {n} /\ facts'[n] = f
      /\ \A i \in DOMAIN facts : facts'[i] = facts[i] /\ i \in 1..Len(facts)
  BY <1>1, <1>2
<1>6. \A kind, k : About(kind, k)' = About(kind, k) \cup {i \in {n} : f.kind = kind /\ f.key = k}
  <2> HIDE DEF n
  <2> QED
    BY <1>1, <1>5 DEF About
<1>7. \A kind, k : /\ f.kind = kind /\ f.key = k => About(kind, k)' = About(kind, k) \cup {n}
                   /\ ~(f.kind = kind /\ f.key = k) => About(kind, k)' = About(kind, k)
                   /\ About(kind, k) \in SUBSET (1..Len(facts))
  <2>1. \A kind, k : About(kind, k) \in SUBSET (1..Len(facts))
    BY <1>1 DEF About
  <2> HIDE DEF n
  <2> QED
    BY <1>6, <2>1
<1>8. ASSUME NEW h \in Hashes PROVE First(facts', About("HashToIP", h)', db'.HashToIP[h])
  <2>1. First(facts, About("HashToIP", h), db.HashToIP[h])
    BY <1>1 DEF ReadInv
  <2>2. CASE f.kind = "HashToIP" /\ f.key = h
    <3>1. db'.HashToIP[h] = IF db.HashToIP[h] = NoUnit THEN Unit(f.value, f.ts) ELSE Sooner(db.HashToIP[h], f.ts)
      BY <1>1, <1>2, <2>2, RecordedAs
    <3>2. About("HashToIP", h) \in SUBSET (1..Len(facts)) /\ facts \in Seq(Facts)
      BY <1>1, <1>7
    <3> DEFINE u == IF db.HashToIP[h] = NoUnit THEN Unit(f.value, f.ts) ELSE Sooner(db.HashToIP[h], f.ts)
    <3>3. First(Append(facts, f), About("HashToIP", h) \cup {Len(facts) + 1}, u)
      BY <2>1, <3>2, FirstStep
    <3> HIDE DEF u
    <3>4. db'.HashToIP[h] = u
      BY <3>1 DEF u
    <3> QED
      BY <1>2, <1>7, <2>2, <3>3, <3>4
  <2>3. CASE ~(f.kind = "HashToIP" /\ f.key = h)
    <3>1. db'.HashToIP[h] = db.HashToIP[h]
      BY <1>1, <1>2, <2>3, RecordedAs
    <3> QED
      BY <1>1, <1>2, <1>7, <2>1, <2>3, <3>1, FirstStill
  <2> QED
    BY <2>2, <2>3
<1>9. ASSUME NEW h \in Hashes PROVE Recorded(facts', About("HashToNodeName", h)', db'.HashToNodeNames[h])
  <2>1. Recorded(facts, About("HashToNodeName", h), db.HashToNodeNames[h]) /\ db.HashToNodeNames[h] \in Seq(UnitType(Names))
    BY <1>1 DEF ReadInv, Maps
  <2>2. CASE f.kind = "HashToNodeName" /\ f.key = h
    <3>1. db'.HashToNodeNames[h] = Upsert(db.HashToNodeNames[h], Unit(Said(f), f.ts))
      BY <1>1, <1>2, <2>2, RecordedAs
    <3>2. Said(f) \in Names
      BY <2>2, ShortAssumption DEF Said, Facts
    <3>3. About("HashToNodeName", h) \in SUBSET (1..Len(facts)) /\ facts \in Seq(Facts)
      BY <1>1, <1>7
    <3>4. Recorded(Append(facts, f), About("HashToNodeName", h) \cup {Len(facts) + 1}, Upsert(db.HashToNodeNames[h], Unit(Said(f), f.ts)))
      BY <2>1, <3>2, <3>3, RecordedStep
    <3> QED
      BY <1>2, <1>7, <2>2, <3>1, <3>4
  <2>3. CASE ~(f.kind = "HashToNodeName" /\ f.key = h)
    <3>1. db'.HashToNodeNames[h] = db.HashToNodeNames[h]
      BY <1>1, <1>2, <2>3, RecordedAs
    <3> QED
      BY <1>1, <1>2, <1>7, <2>1, <2>3, <3>1, RecordedStill
  <2> QED
    BY <2>2, <2>3
<1>10. ASSUME NEW p \in IPs PROVE Recorded(facts', About("IPToNodeName", p)', db'.IPToNodeNames[p])
  <2>1. Recorded(facts, About("IPToNodeName", p), db.IPToNodeNames[p]) /\ db.IPToNodeNames[p] \in Seq(UnitType(Names))
    BY <1>1 DEF ReadInv, Maps
  <2>2. CASE f.kind = "IPToNodeName" /\ f.key = p
    <3>1. db'.IPToNodeNames[p] = Upsert(db.IPToNodeNames[p], Unit(Said(f), f.ts))
      BY <1>1, <1>2, <2>2, RecordedAs
    <3>2. Said(f) \in Names
      BY <2>2, ShortAssumption DEF Said, Facts
    <3>3. About("IPToNodeName", p) \in SUBSET (1..Len(facts)) /\ facts \in Seq(Facts)
      BY <1>1, <1>7
    <3>4. Recorded(Append(facts, f), About("IPToNodeName", p) \cup {Len(facts) + 1}, Upsert(db.IPToNodeNames[p], Unit(Said(f), f.ts)))
      BY <2>1, <3>2, <3>3, RecordedStep
    <3> QED
      BY <1>2, <1>7, <2>2, <3>1, <3>4
  <2>3. CASE ~(f.kind = "IPToNodeName" /\ f.key = p)
    <3>1. db'.IPToNodeNames[p] = db.IPToNodeNames[p]
      BY <1>1, <1>2, <2>3, RecordedAs
    <3> QED
      BY <1>1, <1>2, <1>7, <2>1, <2>3, <3>1, RecordedStill
  <2> QED
    BY <2>2, <2>3
<1>11. ASSUME NEW p \in IPs PROVE Recorded(facts', About("IPToMethod", p)', db'.IPToMethods[p])
  <2>1. Recorded(facts, About("IPToMethod", p), db.IPToMethods[p]) /\ db.IPToMethods[p] \in Seq(UnitType(Methods))
    BY <1>1 DEF ReadInv, Maps
  <2>2. CASE f.kind = "IPToMethod" /\ f.key = p
    <3>1. db'.IPToMethods[p] = Upsert(db.IPToMethods[p], Unit(Said(f), f.ts))
      BY <1>1, <1>2, <2>2, RecordedAs
    <3>2. Said(f) \in Methods
      BY <2>2 DEF Said, Facts
    <3>3. About("IPToMethod", p) \in SUBSET (1..Len(facts)) /\ facts \in Seq(Facts)
      BY <1>1, <1>7
    <3>4. Recorded(Append(facts, f), About("IPToMethod", p) \cup {Len(facts) + 1}, Upsert(db.IPToMethods[p], Unit(Said(f), f.ts)))
      BY <2>1, <3>2, <3>3, RecordedStep
    <3> QED
      BY <1>2, <1>7, <2>2, <3>1, <3>4
  <2>3. CASE ~(f.kind = "IPToMethod" /\ f.key = p)
    <3>1. db'.IPToMethods[p] = db.IPToMethods[p]
      BY <1>1, <1>2, <2>3, RecordedAs
    <3> QED
      BY <1>1, <1>2, <1>7, <2>1, <2>3, <3>1, RecordedStill
  <2> QED
    BY <2>2, <2>3
<1> QED
  BY <1>3, <1>4, <1>5, <1>8, <1>9, <1>10, <1>11 DEF ReadInv

LEMMA LookStart == Init => LookInv
<1> SUFFICES ASSUME Init PROVE LookInv
  OBVIOUS
<1>1. facts = <<>> /\ db = EmptyDB /\ search = NoPair
  BY DEF Init, InitDB
<1>2. Maps(db)
  BY <1>1 DEF Maps, EmptyDB
<1>3. \A kind, k : About(kind, k) = {}
  BY <1>1 DEF About
<1>4. \A h \in Hashes : db.HashToIP[h] = NoUnit /\ db.HashToNodeNames[h] = <<>>
  BY <1>1 DEF EmptyDB
<1>5. \A p \in IPs : db.IPToNodeNames[p] = <<>> /\ db.IPToMethods[p] = <<>>
  BY <1>1 DEF EmptyDB
<1>6. Addressed = {}
  BY <1>4 DEF Addressed
<1>7. facts \in Seq(Facts)
  BY <1>1
<1>8. ReadInv
  BY <1>3, <1>4, <1>5, <1>7 DEF ReadInv, First, Recorded, Kept, Told
<1> QED
  BY <1>1, <1>2, <1>6, <1>8, FS_EmptySet DEF LookInv

LEMMA LookStep == LookInv /\ [Next]_vars => LookInv'
<1> SUFFICES ASSUME LookInv, [Next]_vars PROVE LookInv'
  OBVIOUS
<1>1. ASSUME search = NoPair, NEW f \in Facts, ReadFact(f), UNCHANGED whoisVars PROVE LookInv'
  BY <1>1, ReadFactStep DEF LookInv, whoisVars
<1>2. ASSUME UNCHANGED <<db, facts, search>> PROVE LookInv'
  BY <1>2 DEF LookInv, ReadInv, About, Addressed
<1>3. ASSUME NEW p \in Pairs, Whois(p) PROVE LookInv'
  <2>1. p # NoPair
    BY DEF Pairs, NoPair
  <2>2. db' = db /\ search' = p /\ facts' = <<>>
    BY <1>3 DEF Whois
  <2> QED
    BY <2>1, <2>2 DEF LookInv, Addressed
<1>4. CASE Filter
  BY <1>2, <1>4 DEF Filter, FilterDB, Descend, Return, dbVars
<1>5. CASE UNCHANGED vars
  BY <1>2, <1>5 DEF vars, dbVars, whoisVars
<1>6. CASE search = NoPair /\ ReadLogs /\ UNCHANGED whoisVars
  <2>1. CASE NextFile
    BY <1>2, <1>6, <2>1 DEF NextFile, whoisVars
  <2> QED
    BY <1>1, <1>6, <2>1 DEF ReadLogs
<1> QED
  BY <1>3, <1>4, <1>5, <1>6 DEF Next

LEMMA EarliestProved == LookInv => EarliestProof
<1> SUFFICES ASSUME LookInv, facts # <<>>, NEW h \in Hashes
             PROVE  LET is == About("HashToIP", h) IN
                    IF is = {} THEN db.HashToIP[h] = NoUnit
                    ELSE db.HashToIP[h] = Unit(facts[Min(is)].value, Min({facts[i].ts : i \in is}))
  BY DEF EarliestProof
<1> DEFINE is == About("HashToIP", h)  T == {facts[i].ts : i \in is}
<1>1. First(facts, is, db.HashToIP[h]) /\ facts \in Seq(Facts)
  BY DEF LookInv, ReadInv
<1>2. \A i \in is : i \in Nat /\ facts[i] \in Facts
  BY <1>1 DEF About
<1>3. is \in SUBSET Nat /\ T \in SUBSET Nat
  BY <1>2, FactTime
<1> HIDE DEF is
<1>4. CASE is = {}
  BY <1>1, <1>4 DEF First, is
<1>5. CASE is # {}
  <2>1. PICK m \in is, e \in is : /\ \A i \in is : m <= i /\ facts[e].ts <= facts[i].ts
                                  /\ db.HashToIP[h] = Unit(facts[m].value, facts[e].ts)
    BY <1>1, <1>5 DEF First
  <2>2. Min(is) = m
    BY <1>3, <2>1, MinIs
  <2>3. facts[e].ts \in T /\ \A k \in T : facts[e].ts <= k
    BY <2>1
  <2>4. Min(T) = facts[e].ts
    <3> HIDE DEF T
    <3> QED
      BY <1>3, <2>3, MinIs
  <2> QED
    BY <1>5, <2>1, <2>2, <2>4 DEF is
<1> QED
  BY <1>4, <1>5

\* A key that something was said of.
LEMMA KeyRecorded ==
  ASSUME LookInv, NEW k \in Keys, k[1] # "HashToIP"
  PROVE  /\ Recorded(facts, About(k[1], k[2]), Units(k[1], k[2])) /\ About(k[1], k[2]) # {}
         /\ About(k[1], k[2]) \in SUBSET (1..Len(facts)) /\ facts \in Seq(Facts)
         /\ \E V : Units(k[1], k[2]) \in Seq(UnitType(V))
<1>1. PICK f \in ToSet(facts) : k = <<f.kind, f.key>>
  BY DEF Keys
<1>2. PICK o \in DOMAIN facts : facts[o] = f
  BY <1>1 DEF ToSet
<1>3. ReadInv /\ Maps(db) /\ facts \in Seq(Facts)
  <2>1. facts # <<>>
    <3>1. DOMAIN <<>> = {}
      OBVIOUS
    <3> QED
      BY <1>2, <3>1
  <2> QED
    BY <2>1 DEF LookInv, ReadInv
<1>4. f \in Facts /\ k[1] = f.kind /\ k[2] = f.key /\ o \in About(k[1], k[2])
  BY <1>1, <1>2, <1>3 DEF About
<1>5. Recorded(facts, About(k[1], k[2]), Units(k[1], k[2]))
  BY <1>3, <1>4 DEF ReadInv, Units, Facts
<1>6. \E V : Units(k[1], k[2]) \in Seq(UnitType(V))
  BY <1>3, <1>4 DEF Maps, Units, Facts
<1> QED
  BY <1>3, <1>4, <1>5, <1>6 DEF About

LEMMA SaidProved == LookInv => SaidByThen
<1> SUFFICES ASSUME LookInv, NEW k \in Keys, k[1] # "HashToIP", NEW t \in Times
             PROVE  LET is == About(k[1], k[2])
                        v == ValueAt(Units(k[1], k[2]), t).value
                    IN v = Said(facts[Min(is)]) \/ \E i \in is : facts[i].ts <= t /\ Said(facts[i]) = v
  BY DEF SaidByThen
<1> DEFINE is == About(k[1], k[2])  us == Units(k[1], k[2])  c == ValueAt(us, t)
<1>1. /\ Told(facts, is, us) /\ is # {} /\ is \in SUBSET (1..Len(facts)) /\ facts \in Seq(Facts)
      /\ \E V : us \in Seq(UnitType(V))
  BY KeyRecorded DEF Recorded
<1> HIDE DEF is, us
<1>2. PICK V : us \in Seq(UnitType(V))
  BY <1>1
<1>3. us # <<>>
  BY <1>1 DEF Told
<1>4. /\ \E i \in DOMAIN us : c = us[i]
      /\ us[1].ts > t => c = us[1]
      /\ us[1].ts <= t => c.ts <= t
  BY <1>2, <1>3, ValueTaken
<1>5. PICK m \in is : (\A i \in is : m <= i) /\ us[1].value = Said(facts[m])
  BY <1>1 DEF Told
<1>6. Min(is) = m
  <2>1. is \in SUBSET Nat
    BY <1>1
  <2> QED
    BY <1>5, <2>1, MinIs
<1>7. us[1].ts > t \/ us[1].ts <= t
  <2>1. us[1] \in UnitType(V)
    BY <1>2, <1>3
  <2>2. us[1].ts \in Nat /\ t \in Nat
    BY <2>1 DEF UnitType, Times
  <2> QED
    BY <2>2
<1> HIDE DEF c
<1>8. CASE us[1].ts > t
  BY <1>4, <1>5, <1>6, <1>8 DEF is, us, c
<1>9. CASE us[1].ts <= t
  <2>1. PICK i \in is : c.value = Said(facts[i]) /\ c.ts = facts[i].ts
    BY <1>1, <1>4 DEF Told
  <2> QED
    BY <1>4, <1>9, <2>1 DEF is, us, c
<1> QED
  BY <1>7, <1>8, <1>9

LEMMA InForceProved == LookInv => InForce
<1> SUFFICES ASSUME LookInv, NEW k \in Keys, k[1] # "HashToIP",
                    Ordered(facts, About(k[1], k[2])), NEW t \in Times
             PROVE  LET is == About(k[1], k[2]) IN
                    ValueAt(Units(k[1], k[2]), t).value =
                      Said(facts[Max({Min(is)} \cup {i \in is : facts[i].ts <= t})])
  BY DEF InForce, Ordered
<1> DEFINE is == About(k[1], k[2])  us == Units(k[1], k[2])
           now == {i \in is : facts[i].ts <= t}  T == {Min(is)} \cup now
<1>5. /\ Kept(facts, is, us) /\ is # {}
      /\ is \in SUBSET (1..Len(facts)) /\ facts \in Seq(Facts)
  BY KeyRecorded DEF Recorded
<1>6. is \in SUBSET (1..Len(facts)) /\ Len(facts) \in Nat
  BY <1>5
<1> HIDE DEF is, us
<1>7. is # {} /\ is \in SUBSET Nat
  BY <1>5, <1>6
<1>8. PICK a \in is : \A i \in is : a <= i
  BY <1>7, LeastNumber
<1>9. Min(is) = a
  BY <1>7, <1>8, MinIs
<1>10. PICK m \in T : \A i \in T : i <= m
  <2>1. T # {} /\ T \in SUBSET (1..Len(facts))
    BY <1>6, <1>8, <1>9
  <2> HIDE DEF T
  <2> QED
    BY <1>6, <2>1, GreatestNumber
<1>11. Max(T) = m
  <2>1. T \in SUBSET Nat
    BY <1>7, <1>8, <1>9
  <2> HIDE DEF T
  <2> QED
    BY <1>10, <2>1, MaxIs
<1>12. m \in is /\ InForceAt(facts, is, t, m)
  BY <1>8, <1>9, <1>10 DEF InForceAt
<1>13. ValueAt(us, t).value = Said(facts[m])
  BY <1>5, <1>12 DEF Kept, is
<1> QED
  BY <1>11, <1>13 DEF is, us

\* What is put in a sequence is in it.
LEMMA AllListed ==
  ASSUME NEW S, IsFiniteSet(S), NEW s \in SetToSeqs(S)
  PROVE  s \in Seq(S) /\ \A x \in S : \E i \in DOMAIN s : s[i] = x
<1> DEFINE D == 1..Cardinality(S)
<1>1. Cardinality(S) \in Nat /\ IsFiniteSet(D) /\ Cardinality(D) = Cardinality(S)
  BY FS_CardinalityType, FS_Interval
<1>2. s \in [D -> S] /\ \A i, j \in D : i # j => s[i] # s[j]
  BY DEF SetToSeqs
<1>3. s \in Injection(D, S)
  BY <1>2 DEF Injection, IsInjective
<1>4. s \in Surjection(D, S)
  BY <1>1, <1>3, FS_Injection
<1>5. \A x \in S : \E i \in D : s[i] = x
  BY <1>4 DEF Surjection
<1>6. s \in Seq(S)
  BY <1>1, <1>2
<1> QED
  BY <1>2, <1>5, <1>6

LEMMA LastHashProved == LookInv => LastHashOfIP
<1> SUFFICES ASSUME LookInv, NEW ip \in IPs, NEW t \in Times
             PROVE  LET on == {h \in Hashes : db.HashToIP[h] # NoUnit /\ db.HashToIP[h].value = ip}
                        seen == {h \in on : db.HashToIP[h].ts <= t}
                    IN \A h \in GetHashFromIP(db, ip, t) \ {""} :
                         IF seen = {} THEN \A g \in on : db.HashToIP[h].ts <= db.HashToIP[g].ts
                         ELSE h \in seen /\ \A g \in seen : db.HashToIP[g].ts <= db.HashToIP[h].ts
  BY DEF LastHashOfIP
<1> DEFINE on == {h \in Hashes : db.HashToIP[h] # NoUnit /\ db.HashToIP[h].value = ip}
           seen == {h \in on : db.HashToIP[h].ts <= t}
           tm(h) == db.HashToIP[h].ts
           S == {Unit(h, tm(h)) : h \in on}
<1>1. \A h \in on : h \in Hashes /\ tm(h) \in Times
  BY DEF LookInv, Maps, UnitType
<1>2. IsFiniteSet(S)
  <2>1. on \subseteq Addressed
    BY DEF Addressed
  <2>2. IsFiniteSet(on)
    BY <2>1, FS_Subset DEF LookInv
  <2> DEFINE u == [h \in on |-> Unit(h, tm(h))]
  <2>3. u \in Surjection(on, S)
    BY DEF Surjection
  <2> HIDE DEF on, S, u
  <2> QED
    BY <2>2, <2>3, FS_Surjection
<1>3. S \subseteq UnitType(Hashes)
  BY <1>1 DEF UnitType, Unit
<1>4. \A x \in S : \E g \in on : x = Unit(g, tm(g)) /\ x.value = g /\ x.ts = tm(g)
  BY DEF Unit
<1>5. \A g \in on : Unit(g, tm(g)) \in S /\ Unit(g, tm(g)).ts = tm(g)
  BY DEF Unit
<1> DEFINE Answer(h) == IF seen = {} THEN \A g \in on : tm(h) <= tm(g)
                        ELSE h \in seen /\ \A g \in seen : tm(g) <= tm(h)
           Sorted(s) == \A i, j \in DOMAIN s : i < j => s[i].ts <= s[j].ts
<1>6. t \in Nat /\ \A g \in on : tm(g) \in Nat
  BY <1>1 DEF Times
<1>7. \A x \in S : x.ts \in Nat
  BY <1>3 DEF UnitType, Times
<1>8. ASSUME NEW s \in SetToSeqs(S), Sorted(s), s # <<>>
      PROVE  ValueAt(s, t).value \in on /\ Answer(ValueAt(s, t).value)
  <2> DEFINE v == ValueAt(s, t)  h == v.value
  <2> HIDE DEF S
  <2>1. s \in Seq(S) /\ \A x \in S : \E i \in DOMAIN s : s[i] = x
    BY <1>2, AllListed
  <2>2. s \in Seq(UnitType(Hashes))
    BY <1>3, <2>1
  <2>3. /\ \E i \in DOMAIN s : v = s[i]
        /\ s[1].ts > t => v = s[1]
        /\ s[1].ts <= t => v.ts <= t /\ \A i \in DOMAIN s : s[i].ts <= t => s[i].ts <= v.ts
    BY <1>8, <2>2, ValueTaken
  <2>4. \A i \in DOMAIN s : s[i] \in S
    BY <2>1
  <2>5. 1 \in DOMAIN s /\ \A i \in DOMAIN s : i = 1 \/ 1 < i
    BY <1>8, <2>1
  <2>6. \A i \in DOMAIN s : s[1].ts <= s[i].ts
    BY <1>7, <1>8, <2>4, <2>5
  <2>7. v \in S /\ h \in on /\ v.ts = tm(h)
    BY <1>4, <2>3, <2>4
  <2>8. \A g \in on : \E i \in DOMAIN s : s[i].ts = tm(g)
    BY <1>5, <2>1
  <2>9. s[1].ts \in Nat /\ \A i \in DOMAIN s : s[i].ts \in Nat
    BY <1>7, <2>4, <2>5
  <2> HIDE DEF v, on, tm
  <2>10. ASSUME seen = {} PROVE Answer(h)
    <3>1. ~(tm(h) <= t)
      BY <2>7, <2>10 DEF tm
    <3>2. v = s[1]
      BY <1>6, <2>3, <2>7, <2>9, <3>1
    <3> QED
      BY <2>6, <2>7, <2>8, <2>10, <3>2
  <2>11. ASSUME seen # {} PROVE Answer(h)
    <3>1. PICK g \in on : tm(g) <= t
      BY <2>11 DEF tm
    <3>2. PICK i \in DOMAIN s : s[i].ts = tm(g)
      BY <2>8
    <3>3. s[1].ts <= t
      BY <1>6, <2>6, <2>9, <3>1, <3>2
    <3>4. v.ts <= t /\ \A k \in DOMAIN s : s[k].ts <= t => s[k].ts <= v.ts
      BY <2>3, <3>3
    <3>5. \A e \in on : tm(e) <= t => tm(e) <= tm(h)
      BY <2>7, <2>8, <3>4
    <3>6. h \in seen
      BY <2>7, <3>4 DEF tm
    <3> QED
      BY <2>11, <3>5, <3>6 DEF tm
  <2> QED
    BY <2>7, <2>10, <2>11 DEF v, on, tm
<1>9. ASSUME NEW h \in GetHashFromIP(db, ip, t), h # "" PROVE Answer(h)
  <2>1. PICK s \in SetToSeqs(S) : Sorted(s) /\ h = ValueAt(s, t).value
    BY DEF GetHashFromIP, HashSlices
  <2>2. ValueAt(<<>>, t) = NoUnit
    BY DEF ValueAt
  <2>3. NoUnit.value = ""
    BY DEF NoUnit
  <2>4. s # <<>>
    BY <1>9, <2>1, <2>2, <2>3, Zenon
  <2> HIDE DEF Answer, S, Sorted
  <2> QED
    BY <1>8, <2>1, <2>4, Zenon
<1> QED
  BY <1>9

\* In whatever order the files were read a hash has the address its first line gave,
\* from the time of its earliest line on, a hash found by address is the last one
\* seen there, and a name or a method was said by the time asked for or is the first
\* one read.  Where the lines about a key came in order of time, no two at one
\* instant, it is also the one in force; otherwise it need not be.
THEOREM LookupsRightTheorem == Spec => []LookupsRight
<1>1. LookInv => LookupsRight
  BY EarliestProved, InForceProved, SaidProved, LastHashProved DEF LookupsRight
<1> QED
  BY <1>1, LookStart, LookStep, PTL DEF Spec
=============================================================================
