-------------------------- MODULE GaleraLogProofs --------------------------
(***************************************************************************)
(* Theorems about GaleraLog: whatever the members, the log and the order   *)
(* of its lines, the program takes the log for its own node's, what it     *)
(* tells the translation maps is true, and each vote keeps its own winner. *)
(***************************************************************************)
EXTENDS GaleraLog, SequenceTheorems, FiniteSetTheorems, WellFoundedInduction, TLAPS

(* The inductive invariant.                                                 *)

Sums == UNION {MD5s[s] : s \in Seqnos}
MapsTo(D, S) == UNION {[K -> S] : K \in SUBSET D}

Transfers == [joiner : Members, donor : Members, type : {"", "SST", "IST"}, selected : Times]
Votes == [seqno : Seqnos, initiatedBy : Seq(Voters), winner : {""} \cup Sums,
          votes : MapsTo(Voters \cup Members, Sums)]

\* A context that names the log's own node and no other.
OwnIPs == Seq({IPOf[Self]})
OwnLives == {HashOf[Self], Reborn[Self]}
OwnHashes == Seq(OwnLives)
OwnNames == Seq({Short[Self]})
Indexes == {"", "-1"} \cup {Idxs[i] : i \in DOMAIN Idxs}
StateMaps == [FileTypes -> WsrepStates \cup {""}]
TransferMaps == MapsTo(Members, Transfers)
Conflicts == Seq(Votes)
Contexts ==
  [path : {"log"}, ftype : {"", "error.log"}, ips : OwnIPs, hashes : OwnHashes, names : OwnNames,
   states : StateMaps, version : {"", "8.0"}, pod : {NoPod}, ssts : TransferMaps,
   myIdx : Indexes, members : Nat, desynced : {FALSE}, minVerbosity : Nat,
   conflicts : Conflicts]

\* The members a hash was ever of.
Bearers(h) == {n \in Names : h \in {HashOf[n], Reborn[n]}}
Units(V) == [value : V, ts : Times]
AddressesOf(h) == {IPOf[n] : n \in Bearers(h)}
NamesOf(h) == {Short[n] : n \in Bearers(h)}

\* The maps say what is true, and of addresses only the node's own.
TrueMaps(d) ==
  /\ d = [HashToIP |-> d.HashToIP, HashToNodeNames |-> d.HashToNodeNames,
          IPToNodeNames |-> d.IPToNodeNames, IPToMethods |-> d.IPToMethods]
  /\ DOMAIN d.HashToIP = Hashes /\ DOMAIN d.HashToNodeNames = Hashes
  /\ DOMAIN d.IPToNodeNames = IPs
  /\ d.IPToMethods \in [IPs -> Seq(Units(Methods))]
  /\ \A h \in Hashes : d.HashToIP[h] \in Units(AddressesOf(h)) \cup {NoUnit}
  /\ \A h \in Hashes : d.HashToNodeNames[h] \in Seq(Units(NamesOf(h)))
  /\ \A p \in IPs \ {IPOf[Self]} : d.IPToNodeNames[p] = <<>>

OwnAddressNamed(d) == \E t \in Times : d.IPToNodeNames[IPOf[Self]] = <<Unit(Short[Self], t)>>

Good(x) ==
  /\ x = [ctx |-> x.ctx, db |-> x.db]
  /\ x.ctx \in Contexts /\ TrueMaps(x.db)
  /\ x.db.IPToNodeNames[IPOf[Self]] = <<>> \/ OwnAddressNamed(x.db)
  /\ x.ctx.names # <<>> /\ x.ctx.ips # <<>> => OwnAddressNamed(x.db)
-----------------------------------------------------------------------------
(* Sequences and maps.                                                      *)

LEMMA UpsertTyped ==
  ASSUME NEW V, NEW us \in Seq(Units(V)), NEW v \in V, NEW t \in Times
  PROVE  Upsert(us, Unit(v, t)) \in Seq(Units(V))
<1> DEFINE u == Unit(v, t)
<1>0. u \in Units(V)
  BY DEF Unit, Units
<1>1. CASE us = <<>> \/ us[Len(us)].value # u.value
  <2>1. Append(us, u) \in Seq(Units(V))
    BY <1>0
  <2> QED
    BY <1>1, <2>1 DEF Upsert
<1>2. CASE ~(us = <<>> \/ us[Len(us)].value # u.value)
  <2>1. us[Len(us)] \in Units(V) /\ Len(us) \in 1..Len(us)
    BY <1>2
  <2>2. u.ts \in Times
    BY DEF Unit
  <2>3. Sooner(us[Len(us)], u.ts) \in Units(V)
    BY <2>1, <2>2 DEF Sooner, Units
  <2>4. Upsert(us, u) = [us EXCEPT ![Len(us)] = Sooner(us[Len(us)], u.ts)]
    BY <1>2 DEF Upsert
  <2>5. [us EXCEPT ![Len(us)] = Sooner(us[Len(us)], u.ts)] \in Seq(Units(V))
    BY <2>1, <2>3, ExceptSeq
  <2> QED
    BY <2>4, <2>5
<1> QED
  BY <1>1, <1>2

\* One name said twice of an address is there once.
LEMMA UpsertOnce ==
  ASSUME NEW us, NEW v, NEW t \in Times,
         us = <<>> \/ \E s \in Times : us = <<Unit(v, s)>>
  PROVE  \E s \in Times : Upsert(us, Unit(v, t)) = <<Unit(v, s)>>
<1>1. CASE us = <<>>
  <2>1. Upsert(us, Unit(v, t)) = <<Unit(v, t)>>
    BY <1>1 DEF Upsert
  <2> QED
    BY <2>1
<1>2. ASSUME NEW s \in Times, us = <<Unit(v, s)>>
      PROVE  \E r \in Times : Upsert(us, Unit(v, t)) = <<Unit(v, r)>>
  <2>1. Len(us) = 1 /\ us # <<>> /\ us[1] = Unit(v, s) /\ us[1].value = v
    BY <1>2 DEF Unit
  <2>2. Upsert(us, Unit(v, t)) = [us EXCEPT ![1] = Sooner(Unit(v, s), t)]
    BY <2>1 DEF Upsert, Unit
  <2>3. Sooner(Unit(v, s), t) = Unit(v, IF s > t THEN t ELSE s)
    BY DEF Sooner, Unit
  <2>4. [us EXCEPT ![1] = Sooner(Unit(v, s), t)] = <<Unit(v, IF s > t THEN t ELSE s)>>
    BY <1>2, <2>3
  <2> QED
    BY <2>2, <2>4
<1> QED
  BY <1>1, <1>2

LEMMA LastOne ==
  ASSUME NEW v, NEW s \in Seq({v}), s # <<>> PROVE Last(s) = v
BY DEF Last

LEMMA AppendOne ==
  ASSUME NEW v, NEW s \in Seq({v}) PROVE Append(s, v) \in Seq({v})
OBVIOUS

LEMMA HashToIPTrue ==
  ASSUME NEW d, TrueMaps(d), NEW h \in Hashes, NEW ip \in AddressesOf(h), NEW t \in Times
  PROVE  /\ TrueMaps(AddHashToIP(d, h, ip, t))
         /\ AddHashToIP(d, h, ip, t).IPToNodeNames = d.IPToNodeNames
<1> DEFINE x == IF d.HashToIP[h] = NoUnit THEN Unit(ip, t) ELSE Sooner(d.HashToIP[h], t)
<1>1. x \in Units(AddressesOf(h)) \cup {NoUnit}
  <2>1. CASE d.HashToIP[h] = NoUnit
    BY <2>1 DEF Unit, Units
  <2>2. CASE d.HashToIP[h] # NoUnit
    <3>1. d.HashToIP[h] \in Units(AddressesOf(h))
      BY <2>2 DEF TrueMaps
    <3> QED
      BY <2>2, <3>1 DEF Sooner, Units
  <2> QED
    BY <2>1, <2>2
<1>2. AddHashToIP(d, h, ip, t) = [d EXCEPT !.HashToIP = [d.HashToIP EXCEPT ![h] = x]]
  BY DEF AddHashToIP, TrueMaps
<1> DEFINE f == [d.HashToIP EXCEPT ![h] = x]
<1>3. AddHashToIP(d, h, ip, t) =
        [HashToIP |-> f, HashToNodeNames |-> d.HashToNodeNames,
         IPToNodeNames |-> d.IPToNodeNames, IPToMethods |-> d.IPToMethods]
  BY <1>2 DEF TrueMaps
<1>4. DOMAIN f = Hashes /\ \A g \in Hashes : f[g] \in Units(AddressesOf(g)) \cup {NoUnit}
  <2> HIDE DEF x
  <2> QED
    BY <1>1 DEF TrueMaps
<1> HIDE DEF x, f
<1> QED
  BY <1>3, <1>4 DEF TrueMaps

LEMMA HashToNodeNameTrue ==
  ASSUME NEW d, TrueMaps(d), NEW h \in Hashes, NEW n \in Names, Short[n] \in NamesOf(h),
         NEW t \in Times
  PROVE  /\ TrueMaps(AddHashToNodeName(d, h, n, t))
         /\ AddHashToNodeName(d, h, n, t).IPToNodeNames = d.IPToNodeNames
<1> DEFINE x == Upsert(d.HashToNodeNames[h], Unit(Short[n], t))
<1>1. x \in Seq(Units(NamesOf(h)))
  BY UpsertTyped DEF TrueMaps
<1>2. AddHashToNodeName(d, h, n, t) = [d EXCEPT !.HashToNodeNames = [d.HashToNodeNames EXCEPT ![h] = x]]
  BY DEF AddHashToNodeName, TrueMaps
<1> HIDE DEF x
<1> QED
  BY <1>1, <1>2 DEF TrueMaps

LEMMA MethodTrue ==
  ASSUME NEW d, TrueMaps(d), NEW p \in IPs, NEW i \in Methods, NEW t \in Times
  PROVE  /\ TrueMaps(AddIPToMethod(d, p, i, t))
         /\ AddIPToMethod(d, p, i, t).IPToNodeNames = d.IPToNodeNames
<1> DEFINE x == Upsert(d.IPToMethods[p], Unit(i, t))
<1>1. x \in Seq(Units(Methods))
  BY UpsertTyped DEF TrueMaps
<1>2. AddIPToMethod(d, p, i, t) = [d EXCEPT !.IPToMethods = [d.IPToMethods EXCEPT ![p] = x]]
  BY DEF AddIPToMethod, TrueMaps
<1> DEFINE f == [d.IPToMethods EXCEPT ![p] = x]
<1>3. AddIPToMethod(d, p, i, t) =
        [HashToIP |-> d.HashToIP, HashToNodeNames |-> d.HashToNodeNames,
         IPToNodeNames |-> d.IPToNodeNames, IPToMethods |-> f]
  BY <1>2 DEF TrueMaps
<1>4. f \in [IPs -> Seq(Units(Methods))]
  <2> HIDE DEF x
  <2> QED
    BY <1>1 DEF TrueMaps
<1> HIDE DEF x, f
<1> QED
  BY <1>3, <1>4 DEF TrueMaps

LEMMA SelfNamed == /\ Self \in Names /\ Self \in Printed /\ IPOf[Self] \in IPs
                   /\ Short[Self] \in Names /\ Short[Short[Self]] = Short[Self]
                   /\ \A h \in OwnLives : /\ h \in Hashes
                                          /\ IPOf[Self] \in AddressesOf(h) /\ Short[Self] \in NamesOf(h)
BY SelfAssumption, ShortAssumption, ClusterAssumption DEF AddressesOf, NamesOf, Bearers, OwnLives

LEMMA OwnIPNamed ==
  ASSUME NEW d, TrueMaps(d), NEW t \in Times,
         d.IPToNodeNames[IPOf[Self]] = <<>> \/ OwnAddressNamed(d)
  PROVE  LET r == AddIPToNodeName(d, IPOf[Self], Short[Self], t)
         IN TrueMaps(r) /\ OwnAddressNamed(r)
<1> DEFINE x == Upsert(d.IPToNodeNames[IPOf[Self]], Unit(Short[Self], t))
           r == AddIPToNodeName(d, IPOf[Self], Short[Self], t)
<1>1. \E s \in Times : x = <<Unit(Short[Self], s)>>
  BY UpsertOnce DEF OwnAddressNamed
<1>2. r = [d EXCEPT !.IPToNodeNames = [d.IPToNodeNames EXCEPT ![IPOf[Self]] = x]]
  BY SelfNamed DEF AddIPToNodeName, TrueMaps
<1> HIDE DEF x
<1>3. TrueMaps(r)
  BY <1>1, <1>2, SelfNamed DEF TrueMaps
<1>4. OwnAddressNamed(r)
  BY <1>1, <1>2, SelfNamed DEF TrueMaps, OwnAddressNamed
<1> QED
  BY <1>3, <1>4
-----------------------------------------------------------------------------
(* What is learnt of the node itself.                                       *)

\* What identity has no part in.
SameRest(x, y) == y.ctx.ssts = x.ctx.ssts /\ y.ctx.conflicts = x.ctx.conflicts

LEMMA ContextFields ==
  ASSUME NEW c \in Contexts
  PROVE  /\ c.ips \in OwnIPs /\ c.hashes \in OwnHashes /\ c.names \in OwnNames
         /\ c.states \in StateMaps /\ c.ssts \in TransferMaps /\ c.conflicts \in Conflicts
         /\ c.myIdx \in Indexes /\ c.ftype \in {"", "error.log"}
         /\ c.minVerbosity \in Nat /\ c.members \in Nat
BY DEF Contexts

LEMMA OwnNameGood ==
  ASSUME NEW x, Good(x), NEW n \in Names, Short[n] = Short[Self], NEW t \in Times
  PROVE  Good(AddOwnName(x, n, t)) /\ SameRest(x, AddOwnName(x, n, t))
<1> DEFINE c == x.ctx  y == AddOwnName(x, n, t)
           d == IF c.ips = <<>> THEN x.db ELSE AddIPToNodeName(x.db, Last(c.ips), Short[n], t)
<1>1. CASE c.names # <<>> /\ Last(c.names) = Short[n]
  BY <1>1 DEF AddOwnName, SameRest
<1>2. CASE ~(c.names # <<>> /\ Last(c.names) = Short[n])
  <2>1. y = [ctx |-> [c EXCEPT !.names = Append(c.names, Short[Self])], db |-> d]
    BY <1>2 DEF AddOwnName
  <2>2. c \in Contexts /\ TrueMaps(x.db)
    BY DEF Good
  <2>3. c.names \in OwnNames /\ c.ips \in OwnIPs
    BY <2>2, ContextFields
  <2>4. Append(c.names, Short[Self]) \in OwnNames
    BY <2>3, AppendOne DEF OwnNames
  <2>5. [c EXCEPT !.names = Append(c.names, Short[Self])] \in Contexts
    BY <2>2, <2>4 DEF Contexts
  <2>8. TrueMaps(d) /\ (c.ips # <<>> => OwnAddressNamed(d))
        /\ (d.IPToNodeNames[IPOf[Self]] = <<>> \/ OwnAddressNamed(d))
    <3>1. CASE c.ips = <<>>
      BY <3>1 DEF Good
    <3>2. CASE c.ips # <<>>
      <4>1. Last(c.ips) = IPOf[Self]
        BY <2>3, <3>2, LastOne DEF OwnIPs
      <4> QED
        BY <2>2, <3>2, <4>1, OwnIPNamed DEF Good
    <3> QED
      BY <3>1, <3>2
  <2> HIDE DEF d
  <2>9. y.ctx = [c EXCEPT !.names = Append(c.names, Short[Self])] /\ y.db = d /\ y = [ctx |-> y.ctx, db |-> y.db]
    BY <2>1
  <2>10. y.ctx.ips = c.ips /\ SameRest(x, y)
    BY <2>2, <2>9 DEF Contexts, SameRest
  <2>11. Good(y)
    <3> HIDE DEF y
    <3> QED
      BY <2>5, <2>8, <2>9, <2>10 DEF Good
  <2> QED
    BY <2>10, <2>11
<1> QED
  BY <1>1, <1>2

LEMMA OwnIPGood ==
  ASSUME NEW x, Good(x), NEW t \in Times
  PROVE  LET y == AddOwnIP(x, IPOf[Self], t) IN Good(y) /\ SameRest(x, y)
<1> DEFINE c == x.ctx  y == AddOwnIP(x, IPOf[Self], t)
           d == IF c.names = <<>> THEN x.db ELSE AddIPToNodeName(x.db, IPOf[Self], Last(c.names), t)
<1>1. CASE c.ips # <<>> /\ Last(c.ips) = IPOf[Self]
  BY <1>1 DEF AddOwnIP, SameRest
<1>2. CASE ~(c.ips # <<>> /\ Last(c.ips) = IPOf[Self])
  <2>1. y = [ctx |-> [c EXCEPT !.ips = Append(c.ips, IPOf[Self])], db |-> d]
    BY <1>2 DEF AddOwnIP
  <2>2. c \in Contexts /\ TrueMaps(x.db)
    BY DEF Good
  <2>3. c.ips \in OwnIPs /\ c.names \in OwnNames
    BY <2>2, ContextFields
  <2>4. Append(c.ips, IPOf[Self]) \in OwnIPs
    BY <2>3, AppendOne DEF OwnIPs
  <2>5. [c EXCEPT !.ips = Append(c.ips, IPOf[Self])] \in Contexts
    BY <2>2, <2>4 DEF Contexts
  <2>8. TrueMaps(d) /\ (c.names # <<>> => OwnAddressNamed(d))
        /\ (d.IPToNodeNames[IPOf[Self]] = <<>> \/ OwnAddressNamed(d))
    <3>1. CASE c.names = <<>>
      BY <3>1 DEF Good
    <3>2. CASE c.names # <<>>
      <4>1. Last(c.names) = Short[Self]
        BY <2>3, <3>2, LastOne DEF OwnNames
      <4> QED
        BY <2>2, <3>2, <4>1, OwnIPNamed DEF Good
    <3> QED
      BY <3>1, <3>2
  <2> HIDE DEF d
  <2>9. y.ctx = [c EXCEPT !.ips = Append(c.ips, IPOf[Self])] /\ y.db = d /\ y = [ctx |-> y.ctx, db |-> y.db]
    BY <2>1
  <2>10. y.ctx.names = c.names /\ SameRest(x, y)
    BY <2>2, <2>9 DEF Contexts, SameRest
  <2>11. Good(y)
    <3> HIDE DEF y
    <3> QED
      BY <2>5, <2>8, <2>9, <2>10 DEF Good
  <2> QED
    BY <2>10, <2>11
<1> QED
  BY <1>1, <1>2

LEMMA OwnHashGood ==
  ASSUME NEW x, Good(x), NEW h \in OwnLives, NEW t \in Times
  PROVE  LET y == AddOwnHash(x, h, t) IN Good(y) /\ SameRest(x, y)
<1> DEFINE c == x.ctx  y == AddOwnHash(x, h, t)
           d == IF c.ips = <<>> THEN x.db ELSE AddHashToIP(x.db, h, Last(c.ips), t)
           e == IF c.names = <<>> THEN d ELSE AddHashToNodeName(d, h, Last(c.names), t)
<1>1. CASE h \in ToSet(c.hashes)
  BY <1>1 DEF AddOwnHash, SameRest
<1>2. CASE h \notin ToSet(c.hashes)
  <2>1. y = [ctx |-> [c EXCEPT !.hashes = Append(c.hashes, h)], db |-> e]
    BY <1>2 DEF AddOwnHash
  <2>2. c \in Contexts /\ TrueMaps(x.db)
    BY DEF Good
  <2>3. c.hashes \in OwnHashes /\ c.names \in OwnNames /\ c.ips \in OwnIPs
    BY <2>2, ContextFields
  <2>4. [c EXCEPT !.hashes = Append(c.hashes, h)] \in Contexts
    <3>1. Append(c.hashes, h) \in OwnHashes
      BY <2>3 DEF OwnHashes
    <3> QED
      BY <2>2, <3>1 DEF Contexts
  <2>5. TrueMaps(d) /\ d.IPToNodeNames = x.db.IPToNodeNames
    <3>1. CASE c.ips # <<>>
      <4>1. Last(c.ips) = IPOf[Self]
        BY <2>3, <3>1, LastOne DEF OwnIPs
      <4> QED
        BY <2>2, <3>1, <4>1, SelfNamed, HashToIPTrue
    <3> QED
      BY <2>2, <3>1
  <2> HIDE DEF d
  <2>6. TrueMaps(e) /\ e.IPToNodeNames = d.IPToNodeNames
    <3>1. CASE c.names # <<>>
      <4>1. Last(c.names) = Short[Self]
        BY <2>3, <3>1, LastOne DEF OwnNames
      <4> QED
        BY <2>5, <3>1, <4>1, SelfNamed, HashToNodeNameTrue
    <3> QED
      BY <2>5, <3>1
  <2> HIDE DEF e
  <2>7. y.ctx = [c EXCEPT !.hashes = Append(c.hashes, h)] /\ y.db = e /\ y = [ctx |-> y.ctx, db |-> y.db]
    BY <2>1
  <2>8. y.ctx.names = c.names /\ y.ctx.ips = c.ips /\ SameRest(x, y)
    BY <2>2, <2>7 DEF Contexts, SameRest
  <2>9. Good(y)
    <3> HIDE DEF y
    <3>1. OwnAddressNamed(y.db) <=> OwnAddressNamed(x.db)
      BY <2>5, <2>6, <2>7 DEF OwnAddressNamed
    <3> QED
      BY <2>4, <2>5, <2>6, <2>7, <2>8, <3>1 DEF Good
  <2> QED
    BY <2>8, <2>9
<1> QED
  BY <1>1, <1>2

\* Names found one after the other: of none, or of one.
LEMMA OwnNamesGood ==
  ASSUME NEW x, Good(x), NEW ns, Len(ns) = 0 \/ Len(ns) = 1,
         \A i \in 1..Len(ns) : ns[i] \in Names /\ Short[ns[i]] = Short[Self], NEW t \in Times
  PROVE  Good(AddOwnNames(x, ns, t)) /\ SameRest(x, AddOwnNames(x, ns, t))
<1> DEFINE F(g) == [i \in 0..Len(ns) |-> IF i = 0 THEN x ELSE AddOwnName(g[i - 1], ns[i], t)]
           after == CHOOSE g : g = F(g)
<1>1. AddOwnNames(x, ns, t) = after[Len(ns)]
  BY DEF AddOwnNames
<1>2. \E g : g = F(g)
  <2> DEFINE g == [i \in 0..Len(ns) |-> IF i = 0 THEN x ELSE AddOwnName(x, ns[1], t)]
  <2>1. g = F(g)
    OBVIOUS
  <2> QED
    BY <2>1
<1>3. after = F(after)
  BY <1>2
<1> HIDE DEF after
<1>4. CASE Len(ns) = 0
  <2>1. after[0] = x
    BY <1>3, <1>4
  <2> QED
    BY <1>1, <1>4, <2>1 DEF SameRest
<1>5. CASE Len(ns) = 1
  <2>1. after[0] = x
    BY <1>3, <1>5
  <2>2. after[1] = AddOwnName(after[0], ns[1], t)
    BY <1>3, <1>5
  <2>3. 1 \in 1..Len(ns)
    BY <1>5
  <2> QED
    BY <1>1, <1>5, <2>1, <2>2, <2>3, OwnNameGood
<1> QED
  BY <1>4, <1>5
-----------------------------------------------------------------------------
(* Views.                                                                   *)

\* A member goes by a uuid of one of its lives.
UuidsTrue == \A n \in Names : uuid[n] \in {HashOf[n], Reborn[n]}

\* A line that tells the truth about a member of a view where the node has the
\* index own.
TrueOf(a, own) ==
  \E n \in Printed :
    /\ a.hash \in {HashOf[n], Reborn[n]} /\ (a.name = n \/ a.truncated)
    /\ a.idx # "" /\ (a.idx = own => Short[n] = Short[Self])

\* No index is known but the one of that view.
Knows(x, own) == Good(x) /\ x.ctx.myIdx \in {"", own}

LEMMA IndexKept ==
  ASSUME NEW x, x.ctx \in Contexts, NEW v, NEW t
  PROVE  AddOwnName(x, v, t).ctx.myIdx = x.ctx.myIdx /\ AddOwnHash(x, v, t).ctx.myIdx = x.ctx.myIdx
<1>1. \A q : [x.ctx EXCEPT !.names = q].myIdx = x.ctx.myIdx /\ [x.ctx EXCEPT !.hashes = q].myIdx = x.ctx.myIdx
  BY DEF Contexts
<1> QED
  BY <1>1 DEF AddOwnName, AddOwnHash

LEMMA SelfAlike ==
  ASSUME NEW n \in Printed, Short[n] = Short[Self]
  PROVE  {HashOf[n], Reborn[n]} = OwnLives
BY SelfAssumption, ClusterAssumption DEF OwnLives

LEMMA MemberAssociationGood ==
  ASSUME NEW x, NEW own, Knows(x, own), NEW a, TrueOf(a, own), a.truncated \in BOOLEAN, NEW t \in Times
  PROVE  LET y == MemberAssociation(x, a, t) IN Knows(y, own) /\ SameRest(x, y)
<1> DEFINE d == AddHashToNodeName(x.db, a.hash, a.name, t)
           told == [x EXCEPT !.db = d]
           mine == x.ctx.myIdx = a.idx /\ (IsPrimary(x.ctx) \/ x.ctx.members = 1)
<1>0. Good(x) /\ x.ctx.myIdx \in {"", own}
  BY DEF Knows
<1>1. CASE a.truncated
  BY <1>0, <1>1 DEF MemberAssociation, SameRest, Knows
<1>2. CASE ~a.truncated
  <2>1. PICK n \in Printed : /\ a.hash \in {HashOf[n], Reborn[n]} /\ a.name = n
                             /\ a.idx # "" /\ (a.idx = own => Short[n] = Short[Self])
    BY <1>2 DEF TrueOf
  <2>2. n \in Names /\ a.hash \in Hashes /\ Short[n] \in NamesOf(a.hash) /\ Short[n] \in Names
        /\ Short[Short[n]] = Short[n]
    BY <2>1, SelfAssumption, ShortAssumption, ClusterAssumption DEF NamesOf, Bearers
  <2>3. TrueMaps(d) /\ d.IPToNodeNames = x.db.IPToNodeNames
    BY <1>0, <2>1, <2>2, HashToNodeNameTrue DEF Good
  <2>4. Good(told) /\ SameRest(x, told) /\ told.ctx = x.ctx
    <3> HIDE DEF d
    <3>0. x = [ctx |-> x.ctx, db |-> x.db]
      BY <1>0, Zenon DEF Good
    <3>1. told = [ctx |-> x.ctx, db |-> d] /\ told.ctx = x.ctx /\ told.db = d
      BY <3>0
    <3> HIDE DEF told
    <3>2. OwnAddressNamed(told.db) <=> OwnAddressNamed(x.db)
      BY <2>3, <3>1 DEF OwnAddressNamed
    <3> QED
      BY <1>0, <2>3, <3>1, <3>2 DEF Good, SameRest
  <2>5. CASE ~mine
    <3>1. MemberAssociation(x, a, t) = told
      BY <1>2, <2>5 DEF MemberAssociation
    <3> HIDE DEF told
    <3> QED
      BY <1>0, <2>4, <3>1 DEF Knows
  <2>6. CASE mine
    <3>1. MemberAssociation(x, a, t) = AddOwnName(AddOwnHash(told, a.hash, t), Short[n], t)
      BY <1>2, <2>1, <2>6 DEF MemberAssociation
    <3>2. a.idx = own
      BY <1>0, <2>1, <2>6
    <3>3. Short[n] = Short[Self] /\ a.hash \in OwnLives
      BY <2>1, <3>2, SelfAlike
    <3> HIDE DEF told
    <3>4. PICK w : w = AddOwnHash(told, a.hash, t)
      OBVIOUS
    <3>5. Good(w) /\ SameRest(told, w) /\ w.ctx.myIdx = told.ctx.myIdx
      BY <2>4, <3>3, <3>4, OwnHashGood, IndexKept DEF Good
    <3>6. PICK y : y = AddOwnName(w, Short[n], t)
      OBVIOUS
    <3>7. Good(y) /\ SameRest(w, y) /\ y.ctx.myIdx = w.ctx.myIdx
      BY <2>2, <3>3, <3>5, <3>6, OwnNameGood, IndexKept DEF Good
    <3> QED
      BY <1>0, <2>4, <3>1, <3>4, <3>5, <3>6, <3>7 DEF Knows, SameRest
  <2> QED
    BY <2>5, <2>6
<1> QED
  BY <1>1, <1>2

LEMMA LeastNumber ==
  ASSUME NEW T \in SUBSET Nat, T # {} PROVE \E n \in T : \A k \in T : n <= k
<1>1. PICK n \in T : \A k \in T : ~(<<k, n>> \in OpToRel(<, Nat))
  BY NatLessThanWellFounded, WFMin
<1>2. \A k \in T : ~(k < n)
  BY <1>1 DEF OpToRel
<1> QED
  BY <1>2

-----------------------------------------------------------------------------
(* What a handler leaves alone.                                             *)

Alike(c, d) == d.names = c.names /\ d.ips = c.ips /\ d.ssts = c.ssts /\ d.conflicts = c.conflicts

LEMMA ContextGood ==
  ASSUME NEW x, Good(x), NEW c \in Contexts, c.names = x.ctx.names, c.ips = x.ctx.ips
  PROVE  Good([x EXCEPT !.ctx = c]) /\ [x EXCEPT !.ctx = c].ctx = c
<1> DEFINE y == [x EXCEPT !.ctx = c]
<1>1. y = [ctx |-> c, db |-> x.db] /\ y.ctx = c /\ y.db = x.db
  BY DEF Good
<1>2. Good(y)
  <2> HIDE DEF y
  <2> QED
    BY <1>1 DEF Good
<1> QED
  BY <1>1, <1>2

LEMMA MapsGood ==
  ASSUME NEW x, Good(x), NEW d, TrueMaps(d), d.IPToNodeNames = x.db.IPToNodeNames
  PROVE  Good([x EXCEPT !.db = d]) /\ [x EXCEPT !.db = d].ctx = x.ctx
<1> DEFINE y == [x EXCEPT !.db = d]
<1>1. y = [ctx |-> x.ctx, db |-> d] /\ y.ctx = x.ctx /\ y.db = d
  BY DEF Good
<1>2. Good(y)
  <2> HIDE DEF y
  <2> QED
    BY <1>1 DEF Good, OwnAddressNamed
<1> QED
  BY <1>1, <1>2

LEMMA StateTyped ==
  ASSUME NEW c \in Contexts, NEW s
  PROVE  /\ SetState(c, s) \in Contexts /\ Alike(c, SetState(c, s))
         /\ s \in WsrepStates => State(SetState(c, s)) = s
<1> DEFINE f == [c.states EXCEPT ![Slot(c)] = s]
<1>1. Slot(c) = "error.log" /\ Slot(c) \in FileTypes
  BY ContextFields DEF Slot, FileTypes
<1>2. c.states \in StateMaps
  BY DEF Contexts
<1>3. CASE s \in WsrepStates
  <2>1. SetState(c, s) = [c EXCEPT !.states = f]
    BY <1>3 DEF SetState
  <2>2. f \in StateMaps /\ f[Slot(c)] = s
    BY <1>1, <1>2, <1>3 DEF StateMaps
  <2> HIDE DEF f
  <2>3. SetState(c, s) \in Contexts /\ Alike(c, SetState(c, s)) /\ SetState(c, s).states = f
        /\ SetState(c, s).ftype = c.ftype
    BY <2>1, <2>2 DEF Contexts, Alike
  <2>4. State(SetState(c, s)) = s
    BY <2>2, <2>3 DEF State, Slot
  <2> QED
    BY <2>3, <2>4
<1>4. CASE s \notin WsrepStates
  BY <1>4 DEF SetState, Alike
<1> QED
  BY <1>3, <1>4

\* The context as a handler finds it.
Seen(x, e) ==
  LET v == Verbosity(e.re)
      least == IF x.ctx.minVerbosity > v THEN v ELSE x.ctx.minVerbosity
  IN [ctx |-> [x.ctx EXCEPT !.ftype = "error.log", !.minVerbosity = least], db |-> x.db]

\* A line of an error log that its handler accepts.
Accepted(e) == e.parsed = TRUE /\ e.ftype = "error.log" /\ e.ts \in Times

LEMMA SeenGood ==
  ASSUME NEW x, Good(x), NEW e, e.ftype = "error.log", e.parsed \in BOOLEAN
  PROVE  /\ Handle(x, e) = IF e.parsed THEN Handler(Seen(x, e), e) ELSE {Seen(x, e)}
         /\ Good(Seen(x, e)) /\ Alike(x.ctx, Seen(x, e).ctx) /\ SameRest(x, Seen(x, e))
         /\ Seen(x, e).ctx.myIdx = x.ctx.myIdx
<1> DEFINE v == Verbosity(e.re)
           least == IF x.ctx.minVerbosity > v THEN v ELSE x.ctx.minVerbosity
<1>1. v \in Nat
  BY DEF Verbosity, Info, DebugMySQL
<1>2. Handle(x, e) = IF e.parsed THEN Handler(Seen(x, e), e) ELSE {Seen(x, e)}
  <2> DEFINE c == [x.ctx EXCEPT !.ftype = "error.log", !.minVerbosity = least]
  <2>1. Handle(x, e) = IF e.parsed THEN Handler([x EXCEPT !.ctx = c], e) ELSE {[x EXCEPT !.ctx = c]}
    BY DEF Handle, HandleAt
  <2>2. [x EXCEPT !.ctx = c] = [ctx |-> c, db |-> x.db]
    BY DEF Good
  <2>3. Seen(x, e) = [ctx |-> c, db |-> x.db]
    BY DEF Seen
  <2> QED
    BY <2>1, <2>2, <2>3
<1>3. Seen(x, e).ctx \in Contexts
  <2>1. x.ctx \in Contexts
    BY DEF Good
  <2>2. least \in Nat
    BY <1>1, <2>1, ContextFields
  <2>3. Seen(x, e).ctx = [x.ctx EXCEPT !.ftype = "error.log", !.minVerbosity = least]
    BY DEF Seen
  <2> HIDE DEF least
  <2> QED
    BY <2>1, <2>2, <2>3 DEF Contexts
<1>4. Alike(x.ctx, Seen(x, e).ctx) /\ SameRest(x, Seen(x, e)) /\ Seen(x, e).ctx.myIdx = x.ctx.myIdx
  BY DEF Alike, SameRest, Seen, Good, Contexts
<1>5. Seen(x, e) = [ctx |-> Seen(x, e).ctx, db |-> x.db]
  BY DEF Seen
<1>6. Good(Seen(x, e))
  BY <1>3, <1>4, <1>5 DEF Good, Alike
<1> QED
  BY <1>2, <1>4, <1>6

LEMMA HandleSeen ==
  ASSUME NEW x, Good(x), NEW e, Accepted(e)
  PROVE  /\ Handle(x, e) = Handler(Seen(x, e), e)
         /\ Good(Seen(x, e)) /\ Alike(x.ctx, Seen(x, e).ctx) /\ SameRest(x, Seen(x, e))
         /\ Seen(x, e).ctx.myIdx = x.ctx.myIdx
BY SeenGood DEF Accepted
-----------------------------------------------------------------------------
(* The handlers.                                                            *)

LEMMA IdentityHandlers ==
  ASSUME NEW x, NEW e
  PROVE  /\ e.re \in {"RegexBaseHost", "RegexNodeIPFromEnv"} => Handler(x, e) = {AddOwnIP(x, e.ip, e.ts)}
         /\ e.re \in {"RegexOwnUUID", "RegexOwnUUIDFromEstablished"} =>
              Handler(x, e) = {AddOwnHash(x, e.hash, e.ts)}
         /\ e.re \in {"RegexMyIDXFromComponent", "RegexOwnIndexFromView"} =>
              Handler(x, e) = OnCtx(x, [x.ctx EXCEPT !.myIdx = e.idx])
         /\ e.re = "RegexMemberCount" => Handler(x, e) = OnCtx(x, [x.ctx EXCEPT !.members = e.members])
         /\ e.re = "RegexMemberAssociations" => Handler(x, e) = {MemberAssociation(x, e, e.ts)}
         /\ e.re = "RegexNodeNameFromEnv" => Handler(x, e) = {AddOwnName(x, e.name, e.ts)}
BY DEF Handler, OwnIPLines, OwnHashLines, IdxLines, EventState, ViewState, SSTEnds, SSTStage

LEMMA ViewHandlers ==
  ASSUME NEW x, NEW e
  PROVE  /\ e.re = "RegexShift" => Handler(x, e) = Shift(x, e)
         /\ e.re \in DOMAIN EventState => Handler(x, e) = OnCtx(x, Event(x.ctx, e))
         /\ e.re = "RegexNewComponent" => Handler(x, e) = OnCtx(x, NewComponent(x.ctx, e))
         /\ e.re = "RegexNodeEstablished" => Handler(x, e) = {NodeEstablished(x, e)}
         /\ e.re = "RegexNodeJoined" => Handler(x, e) = {NodeSeen(x, e)}
         /\ e.re = "RegexNodeChangedIdentity" => Handler(x, e) = {NodeChangedIdentity(x, e)}
BY DEF Handler, OwnIPLines, OwnHashLines, IdxLines, EventState, ViewState, SSTEnds, SSTStage

LEMMA TransferHandlers ==
  ASSUME NEW x, NEW e
  PROVE  /\ e.re = "RegexSSTRequestSuccess" => Handler(x, e) = OnCtx(x, SSTSelected(x.ctx, e))
         /\ e.re \in SSTEnds => Handler(x, e) = OnCtx(x, SSTOver(x.ctx, e))
         /\ e.re \in DOMAIN SSTStage => Handler(x, e) = {[x EXCEPT !.ctx = s] : s \in SSTProgress(x.ctx, e)}
BY DEF Handler, OwnIPLines, OwnHashLines, IdxLines, EventState, ViewState, SSTEnds, SSTStage

LEMMA VoteHandlers ==
  ASSUME NEW x, NEW e
  PROVE  /\ e.re = "RegexInconsistencyVoteInit" => Handler(x, e) = OnCtx(x, VoteInit(x.ctx, e))
         /\ e.re = "RegexInconsistencyVoteRespond" => Handler(x, e) = OnCtx(x, VoteRespond(x.ctx, e))
         /\ e.re = "RegexInconsistencyVoteInconsistentWithGroup" =>
              Handler(x, e) = OnCtx(x, InconsistentWithGroup(x.ctx, e))
         /\ e.re = "RegexInconsistencyWinner" => Handler(x, e) = OnCtx(x, VoteWinner(x.ctx, e))
         /\ e.re = "RegexInconsistencyRecovery" => Handler(x, e) = OnCtx(x, VoteRecovery(x.ctx, e))
         /\ e.re = "RegexInconsistencyVoteRecomputed" => Handler(x, e) = OnCtx(x, VoteRecomputed(x.ctx, e))
BY DEF Handler, OwnIPLines, OwnHashLines, IdxLines, EventState, ViewState, SSTEnds, SSTStage

\* A handler that changes the context only, and neither names nor addresses.
LEMMA OnCtxGood ==
  ASSUME NEW x, Good(x), NEW c \in Contexts, Alike(x.ctx, c), NEW y \in OnCtx(x, c)
  PROVE  Good(y) /\ SameRest(x, y)
BY ContextGood DEF OnCtx, Alike, SameRest

LEMMA ComponentTyped ==
  ASSUME NEW c \in Contexts, NEW e, e.members \in Nat
  PROVE  NewComponent(c, e) \in Contexts /\ Alike(c, NewComponent(c, e))
<1> DEFINE counted == [c EXCEPT !.members = e.members]
<1>1. counted \in Contexts /\ Alike(c, counted)
  BY DEF Contexts, Alike
<1>2. NewComponent(c, e) \in {SetState(counted, "NON-PRIMARY"), counted, SetState(counted, "PRIMARY")}
  BY DEF NewComponent
<1> HIDE DEF counted
<1> QED
  BY <1>1, <1>2, StateTyped DEF Alike

LEMMA EventTyped ==
  ASSUME NEW c \in Contexts, NEW e, e.version = "8.0"
  PROVE  Event(c, e) \in Contexts /\ Alike(c, Event(c, e))
<1> DEFINE s == SetState(c, EventState[e.re])
<1>1. s \in Contexts /\ Alike(c, s)
  BY StateTyped
<1>2. Event(c, e) = IF e.re = "RegexStarting" THEN [s EXCEPT !.version = e.version] ELSE s
  BY DEF Event
<1> HIDE DEF s
<1>3. [s EXCEPT !.version = e.version] \in Contexts /\ Alike(c, [s EXCEPT !.version = e.version])
  BY <1>1 DEF Contexts, Alike
<1> QED
  BY <1>1, <1>2, <1>3

\* What is said of a member's address.
LEMMA PeerGood ==
  ASSUME NEW x, Good(x), NEW e, NEW n \in Printed, e.hash \in {HashOf[n], Reborn[n]}, e.ip = IPOf[n],
         e.method = "tcp", e.ts \in Times
  PROVE  /\ Good(NodeEstablished(x, e)) /\ SameRest(x, NodeEstablished(x, e))
         /\ Good(NodeSeen(x, e)) /\ SameRest(x, NodeSeen(x, e))
<1> DEFINE d == AddHashToIP(x.db, e.hash, e.ip, e.ts)
           f == AddIPToMethod(d, e.ip, e.method, e.ts)
<1>1. e.hash \in Hashes /\ e.ip \in IPs /\ e.ip \in AddressesOf(e.hash) /\ e.method \in Methods
  BY SelfAssumption, ClusterAssumption DEF AddressesOf, Bearers
<1>2. TrueMaps(d) /\ d.IPToNodeNames = x.db.IPToNodeNames
  BY <1>1, HashToIPTrue DEF Good
<1>3. TrueMaps(f) /\ f.IPToNodeNames = d.IPToNodeNames
  BY <1>1, <1>2, MethodTrue
<1>4. NodeEstablished(x, e) = [x EXCEPT !.db = d] /\ NodeSeen(x, e) = [x EXCEPT !.db = f]
  BY DEF NodeEstablished, NodeSeen
<1> HIDE DEF d, f
<1> QED
  BY <1>2, <1>3, <1>4, MapsGood DEF SameRest

\* A member's new uuid is on the address of the old one.
LEMMA ChangedIdentityGood ==
  ASSUME NEW x, Good(x), NEW e, NEW n \in Printed, e.hash = HashOf[n], e.hash2 \in {HashOf[n], Reborn[n]},
         e.ts \in Times
  PROVE  Good(NodeChangedIdentity(x, e)) /\ SameRest(x, NodeChangedIdentity(x, e))
<1> DEFINE ip == GetIPFromHash(x.db, e.hash)
           d == AddHashToIP(x.db, e.hash2, ip, e.ts)
<1>1. CASE ip = ""
  BY <1>1 DEF NodeChangedIdentity, SameRest
<1>2. CASE ip # ""
  <2>1. n \in Names /\ e.hash \in Hashes /\ e.hash2 \in Hashes
    BY SelfAssumption
  <2>2. ip \in AddressesOf(e.hash)
    <3>1. PICK u : u = x.db.HashToIP[e.hash]
      OBVIOUS
    <3>2. u \in Units(AddressesOf(e.hash)) \cup {NoUnit}
      BY <2>1, <3>1 DEF Good, TrueMaps
    <3>3. ip = u.value
      BY <3>1 DEF GetIPFromHash
    <3>4. NoUnit.value = ""
      BY DEF NoUnit
    <3>5. u # NoUnit
      <4> HIDE DEF ip
      <4> SUFFICES ASSUME u = NoUnit PROVE FALSE
        OBVIOUS
      <4>1. ip = ""
        BY <3>3, <3>4
      <4> QED
        BY <1>2, <4>1
    <3> QED
      BY <3>2, <3>3, <3>5 DEF Units
  <2>3. PICK k \in Bearers(e.hash) : ip = IPOf[k]
    BY <2>2 DEF AddressesOf
  <2>4. IPOf[k] = IPOf[n]
    BY <2>1, <2>3, ClusterAssumption DEF Bearers
  <2>5. ip \in AddressesOf(e.hash2)
    BY <2>1, <2>3, <2>4 DEF AddressesOf, Bearers
  <2>6. TrueMaps(d) /\ d.IPToNodeNames = x.db.IPToNodeNames
    BY <2>1, <2>5, HashToIPTrue DEF Good
  <2>7. NodeChangedIdentity(x, e) = [x EXCEPT !.db = d]
    BY <1>2 DEF NodeChangedIdentity
  <2> HIDE DEF d
  <2> QED
    BY <2>6, <2>7, MapsGood DEF SameRest
<1> QED
  BY <1>1, <1>2
-----------------------------------------------------------------------------
(* The lines.                                                               *)

LEMMA PlainLine ==
  ASSUME NEW re, now \in Times
  PROVE  Accepted(Line(re)) /\ Line(re).re = re /\ Line(re).ts = now
BY DEF Line, Accepted

\* The node's index in a view is that of no other member.
LEMMA OwnIdxIs ==
  ASSUME NEW v \in Views
  PROVE  /\ OwnIdx(v) \in Indexes /\ OwnIdx(v) # ""
         /\ \A i \in DOMAIN v : Idxs[i] # "" /\ (Idxs[i] = OwnIdx(v) => Short[v[i]] = Short[Self])
<1> DEFINE own == {i \in DOMAIN v : Short[v[i]] = Short[Self]}
<1>0. PICK T : T = STRING \ {"", "-1"}
  OBVIOUS
<1>1. /\ v \in Seq(Printed) /\ Len(v) <= Len(Idxs) /\ Idxs \in Seq(T)
      /\ \A i, j \in DOMAIN Idxs : Idxs[i] = Idxs[j] => i = j
  BY <1>0, ViewsAssumption
<1>2. \A i \in DOMAIN v : i \in DOMAIN Idxs /\ Idxs[i] # "" /\ Idxs[i] # "-1"
  <2> SUFFICES ASSUME NEW i \in DOMAIN v PROVE i \in DOMAIN Idxs /\ Idxs[i] # "" /\ Idxs[i] # "-1"
    OBVIOUS
  <2>1. Len(v) \in Nat /\ DOMAIN v = 1..Len(v) /\ Len(Idxs) \in Nat /\ DOMAIN Idxs = 1..Len(Idxs)
    BY <1>1, LenProperties
  <2>2. i \in 1..Len(Idxs)
    BY <1>1, <2>1
  <2>3. Idxs[i] \in T
    BY <1>1, <2>2, ElementOfSeq
  <2> QED
    BY <1>0, <2>1, <2>2, <2>3, Zenon
<1>3. CASE own = {}
  <2>1. OwnIdx(v) = "-1"
    BY <1>3 DEF OwnIdx
  <2> QED
    BY <1>2, <2>1 DEF Indexes
<1>4. CASE own # {}
  <2>1. PICK k \in own : OwnIdx(v) = Idxs[k]
    BY <1>4 DEF OwnIdx
  <2>2. k \in DOMAIN v /\ Short[v[k]] = Short[Self]
    BY <2>1
  <2>3. k \in DOMAIN Idxs /\ Idxs[k] # ""
    BY <1>2, <2>2
  <2>4. OwnIdx(v) \in Indexes /\ OwnIdx(v) # ""
    BY <2>1, <2>3 DEF Indexes
  <2>5. ASSUME NEW i \in DOMAIN v, Idxs[i] = OwnIdx(v) PROVE Short[v[i]] = Short[Self]
    BY <1>1, <1>2, <2>1, <2>2, <2>3, <2>5
  <2> QED
    BY <1>2, <2>4, <2>5
<1> QED
  BY <1>3, <1>4

\* A line about the node or about a member says what is true.
LEMMA LineOfMember ==
  ASSUME NEW v \in Views, NEW i \in DOMAIN v, NEW c \in BOOLEAN, UuidsTrue, now \in Times,
         NEW e, e = [Member(v, i) EXCEPT !.truncated = c]
  PROVE  Accepted(e) /\ e.re = "RegexMemberAssociations" /\ TrueOf(e, OwnIdx(v)) /\ e.truncated = c
<1>1. e.idx = Idxs[i] /\ e.hash = uuid[v[i]] /\ e.name = v[i]
  BY DEF Member, Line
<1>0. v \in Seq(Printed)
  BY ViewsAssumption
<1>2. v[i] \in Printed /\ v[i] \in Names
  BY <1>0, SelfAssumption
<1>3. uuid[v[i]] \in {HashOf[v[i]], Reborn[v[i]]}
  BY <1>2 DEF UuidsTrue
<1>4. TrueOf(e, OwnIdx(v))
  BY <1>1, <1>2, <1>3, OwnIdxIs DEF TrueOf
<1> QED
  BY <1>4 DEF Member, Line, Accepted

LEMMA LineOfPeer ==
  ASSUME NEW n \in Printed, NEW re, UuidsTrue, now \in Times
  PROVE  LET e == Peer(re, n) IN
         /\ Accepted(e) /\ e.re = re /\ e.hash = uuid[n] /\ e.hash \in {HashOf[n], Reborn[n]}
         /\ e.ip = IPOf[n] /\ e.method = "tcp" /\ e.ts = now
BY SelfAssumption DEF Peer, Line, Accepted, UuidsTrue

LEMMA LineOfSelf ==
  ASSUME NEW re, UuidsTrue, now \in Times
  PROVE  /\ LET e == OwnUUID(re) IN
              Accepted(e) /\ e.re = re /\ e.hash = uuid[Self] /\ e.hash \in OwnLives /\ e.ts = now
         /\ LET e == [Line(re) EXCEPT !.ip = IPOf[Self]] IN
              Accepted(e) /\ e.re = re /\ e.ip = IPOf[Self] /\ e.ts = now
         /\ LET e == [Line(re) EXCEPT !.name = Short[Self]] IN
              Accepted(e) /\ e.re = re /\ e.name = Short[Self] /\ e.ts = now
<1>1. uuid[Self] \in OwnLives
  BY SelfNamed DEF UuidsTrue, OwnLives
<1> QED
  BY <1>1 DEF OwnUUID, Line, Accepted

LEMMA LineOfIndex ==
  ASSUME NEW re, NEW v, now \in Times
  PROVE  LET e == OwnIndex(re, v) IN Accepted(e) /\ e.re = re /\ e.idx = OwnIdx(v) /\ e.ts = now
BY DEF OwnIndex, Line, Accepted

LEMMA LineOfView ==
  ASSUME NEW p, NEW v \in Views, now \in Times
  PROVE  /\ LET e == Component(p, v) IN
              /\ Accepted(e) /\ e.re = "RegexNewComponent" /\ e.members \in Nat /\ e.primary = p
              /\ e.ts = now
         /\ LET e == Count(v) IN Accepted(e) /\ e.re = "RegexMemberCount" /\ e.members \in Nat
<1>1. v \in Seq(Printed)
  BY ViewsAssumption
<1>2. Len(v) \in Nat
  BY <1>1
<1> QED
  BY <1>2 DEF Component, Count, Line, Accepted

LEMMA LineOfRebirth ==
  ASSUME NEW n \in Printed, UuidsTrue, now \in Times
  PROVE  LET e == NewIdentity(n) IN
         /\ Accepted(e) /\ e.re = "RegexNodeChangedIdentity" /\ e.hash = HashOf[n]
         /\ e.hash2 \in {HashOf[n], Reborn[n]} /\ e.ts = now
BY SelfAssumption DEF NewIdentity, Line, Accepted, UuidsTrue
-----------------------------------------------------------------------------
(* State transfers.                                                         *)

\* A transfer of the context is one that was selected, kept by its donor.
TransfersTrue(c, sel) ==
  \A k \in DOMAIN c.ssts :
    /\ c.ssts[k].donor = k
    /\ [donor |-> k, joiner |-> c.ssts[k].joiner, at |-> c.ssts[k].selected] \in sel

\* Transfers are selected one after the other, more than a unit of time apart.
Apart(sel, t) ==
  /\ sel \subseteq [donor : Members, joiner : Members, at : 1..t]
  /\ \A r, s \in sel : r = s \/ r.at + 1 < s.at \/ s.at + 1 < r.at

LEMMA PutTyped ==
  ASSUME NEW D, NEW S, NEW f \in MapsTo(D, S), NEW k \in D, NEW v \in S
  PROVE  Put(f, k, v) \in MapsTo(D, S)
<1>1. PICK K \in SUBSET D : f \in [K -> S]
  BY DEF MapsTo
<1>2. Put(f, k, v) \in [K \cup {k} -> S] /\ K \cup {k} \in SUBSET D
  BY <1>1 DEF Put
<1> QED
  BY <1>2 DEF MapsTo

LEMMA SelectedTyped ==
  ASSUME NEW c \in Contexts, NEW e, NEW sel, TransfersTrue(c, sel),
         Short[e.name] \in Members, Short[e.donor] \in Members, e.selected \in Times
  PROVE  LET d == SSTSelected(c, e) IN
         /\ d \in Contexts /\ d.names = c.names /\ d.ips = c.ips /\ d.conflicts = c.conflicts
         /\ TransfersTrue(d, sel \cup {[donor |-> Short[e.donor], joiner |-> Short[e.name], at |-> e.selected]})
<1> DEFINE k == Short[e.donor]
           new == [joiner |-> Short[e.name], donor |-> k, type |-> "", selected |-> e.selected]
           ssts == Put(c.ssts, k, new)
           d == SSTSelected(c, e)
<1>1. new \in Transfers
  BY DEF Transfers
<1>2. ssts \in TransferMaps
  BY <1>1, ContextFields, PutTyped DEF TransferMaps
<1>3. d = [c EXCEPT !.ssts = ssts]
  BY DEF SSTSelected
<1>4. \A j \in DOMAIN ssts :
        /\ j = k => ssts[j] = new
        /\ j # k => j \in DOMAIN c.ssts /\ ssts[j] = c.ssts[j]
  BY DEF Put
<1>5. /\ d \in Contexts /\ d.names = c.names /\ d.ips = c.ips /\ d.conflicts = c.conflicts /\ d.ssts = ssts
  <2> HIDE DEF ssts
  <2> QED
    BY <1>2, <1>3 DEF Contexts
<1> HIDE DEF ssts, d
<1>6. TransfersTrue(d, sel \cup {[donor |-> k, joiner |-> Short[e.name], at |-> e.selected]})
  <2> SUFFICES ASSUME NEW j \in DOMAIN ssts
               PROVE  /\ ssts[j].donor = j
                      /\ [donor |-> j, joiner |-> ssts[j].joiner, at |-> ssts[j].selected]
                           \in sel \cup {[donor |-> k, joiner |-> Short[e.name], at |-> e.selected]}
    BY <1>5 DEF TransfersTrue
  <2>1. CASE j = k
    <3>1. ssts[j].donor = k /\ ssts[j].joiner = Short[e.name] /\ ssts[j].selected = e.selected
      <4>1. ssts[j] = new
        BY <1>4, <2>1
      <4>2. new.donor = k /\ new.joiner = Short[e.name] /\ new.selected = e.selected
        OBVIOUS
      <4> HIDE DEF new
      <4> QED
        BY <4>1, <4>2
    <3> QED
      BY <2>1, <3>1
  <2>2. CASE j # k
    BY <1>4, <2>2 DEF TransfersTrue
  <2> QED
    BY <2>1, <2>2
<1> QED
  BY <1>5, <1>6 DEF d

LEMMA OverTyped ==
  ASSUME NEW c \in Contexts, NEW e, NEW sel, TransfersTrue(c, sel)
  PROVE  LET d == SSTOver(c, e) IN
         /\ d \in Contexts /\ d.names = c.names /\ d.ips = c.ips /\ d.conflicts = c.conflicts
         /\ TransfersTrue(d, sel)
<1> DEFINE ssts == Drop(c.ssts, Short[e.donor])
           d == SSTOver(c, e)
<1>1. PICK K \in SUBSET Members : c.ssts \in [K -> Transfers]
  BY ContextFields DEF TransferMaps, MapsTo
<1>2. ssts \in [K \ {Short[e.donor]} -> Transfers]
  BY <1>1 DEF Drop
<1>3. ssts \in TransferMaps
  <2> HIDE DEF ssts
  <2>1. K \ {Short[e.donor]} \in SUBSET Members
    OBVIOUS
  <2> QED
    BY <1>2, <2>1 DEF TransferMaps, MapsTo
<1>4. \A j \in DOMAIN ssts : j \in DOMAIN c.ssts /\ ssts[j] = c.ssts[j]
  BY DEF Drop
<1>5. d = [c EXCEPT !.ssts = ssts]
  BY DEF SSTOver
<1>6. /\ d \in Contexts /\ d.names = c.names /\ d.ips = c.ips /\ d.conflicts = c.conflicts /\ d.ssts = ssts
  <2> HIDE DEF ssts
  <2> QED
    BY <1>3, <1>5 DEF Contexts
<1> HIDE DEF ssts, d
<1>7. TransfersTrue(d, sel)
  BY <1>4, <1>6 DEF TransfersTrue
<1> QED
  BY <1>6, <1>7 DEF d

\* A line about the transfer under way changes what kind it is, of one at most.
LEMMA ProgressTyped ==
  ASSUME NEW c \in Contexts, NEW e, e.re \in DOMAIN SSTStage, NEW sel, TransfersTrue(c, sel),
         NEW d \in SSTProgress(c, e)
  PROVE  /\ d \in Contexts /\ d.names = c.names /\ d.ips = c.ips /\ d.conflicts = c.conflicts
         /\ TransfersTrue(d, sel)
<1> DEFINE b == SetState(c, SSTStage[e.re].state)
           type == IF e.re = "RegexISTReceiver" /\ e.seqno = "0" THEN "SST" ELSE SSTStage[e.re].type
<1>1. b \in Contexts /\ Alike(c, b) /\ TransfersTrue(b, sel)
  BY StateTyped DEF Alike, TransfersTrue
<1>2. type \in {"", "SST", "IST"}
  <2>1. \/ SSTStage[e.re].type = SSTStage["RegexSSTProceeding"].type
        \/ SSTStage[e.re].type = SSTStage["RegexSSTStreamingTo"].type
        \/ SSTStage[e.re].type = SSTStage["RegexISTSender"].type
        \/ SSTStage[e.re].type = SSTStage["RegexISTReceiver"].type
        \/ SSTStage[e.re].type = SSTStage["RegexFailedToPrepareIST"].type
        \/ SSTStage[e.re].type = SSTStage["RegexXtrabackupISTReceived"].type
        \/ SSTStage[e.re].type = SSTStage["RegexBypassSST"].type
    <3>1. DOMAIN SSTStage =
            {"RegexSSTProceeding", "RegexSSTStreamingTo", "RegexISTSender", "RegexISTReceiver",
             "RegexFailedToPrepareIST", "RegexXtrabackupISTReceived", "RegexBypassSST"}
      BY DEF SSTStage
    <3> QED
      BY <3>1
  <2>2. /\ SSTStage["RegexSSTProceeding"].type = "SST" /\ SSTStage["RegexSSTStreamingTo"].type = ""
        /\ SSTStage["RegexISTSender"].type = "IST" /\ SSTStage["RegexISTReceiver"].type = "IST"
        /\ SSTStage["RegexFailedToPrepareIST"].type = "SST"
        /\ SSTStage["RegexXtrabackupISTReceived"].type = "IST" /\ SSTStage["RegexBypassSST"].type = "IST"
    BY DEF SSTStage
  <2> QED
    BY <2>1, <2>2
<1>3. d = b \/ d \in SetSSTTypeMaybe(b, type)
  BY DEF SSTProgress
<1> HIDE DEF b, type
<1>4. d = b \/ \E k \in DOMAIN b.ssts : d = [b EXCEPT !.ssts = [b.ssts EXCEPT ![k] = [b.ssts[k] EXCEPT !.type = type]]]
  BY <1>3 DEF SetSSTTypeMaybe
<1>5. CASE d = b
  BY <1>1, <1>5 DEF Alike
<1>6. ASSUME NEW k \in DOMAIN b.ssts,
             d = [b EXCEPT !.ssts = [b.ssts EXCEPT ![k] = [b.ssts[k] EXCEPT !.type = type]]]
      PROVE  /\ d \in Contexts /\ d.names = c.names /\ d.ips = c.ips /\ d.conflicts = c.conflicts
             /\ TransfersTrue(d, sel)
  <2> DEFINE x == [b.ssts[k] EXCEPT !.type = type]
             ssts == [b.ssts EXCEPT ![k] = x]
  <2>1. PICK K \in SUBSET Members : b.ssts \in [K -> Transfers]
    BY <1>1, ContextFields DEF TransferMaps, MapsTo
  <2>2. b.ssts[k] \in Transfers
    BY <2>1
  <2>3. x \in Transfers /\ x.donor = b.ssts[k].donor /\ x.joiner = b.ssts[k].joiner
        /\ x.selected = b.ssts[k].selected
    BY <1>2, <2>2 DEF Transfers
  <2> HIDE DEF x
  <2>4. ssts \in [K -> Transfers]
    BY <2>1, <2>3
  <2>5. \A j \in DOMAIN ssts : j \in DOMAIN b.ssts /\ ssts[j].donor = b.ssts[j].donor
          /\ ssts[j].joiner = b.ssts[j].joiner /\ ssts[j].selected = b.ssts[j].selected
    BY <2>1, <2>3
  <2>6. d = [b EXCEPT !.ssts = ssts]
    BY <1>6 DEF x
  <2> HIDE DEF ssts
  <2>7. ssts \in TransferMaps
    BY <2>4 DEF TransferMaps, MapsTo
  <2>8. d \in Contexts /\ d.ssts = ssts /\ d.names = b.names /\ d.ips = b.ips /\ d.conflicts = b.conflicts
    BY <1>1, <2>6, <2>7 DEF Contexts
  <2>9. TransfersTrue(d, sel)
    BY <1>1, <2>5, <2>8 DEF TransfersTrue
  <2> QED
    BY <1>1, <2>8, <2>9 DEF Alike
<1> QED
  BY <1>4, <1>5, <1>6

\* The names found when the node shifts for a transfer are its own: no other
\* transfer began within a unit of time.
LEMMA ConfirmGood ==
  ASSUME NEW x, Good(x), now \in Times, TransfersTrue(x.ctx, selected), Apart(selected, now),
         NEW s \in selected, now - s.at <= 1,
         \/ State(x.ctx) = "JOINER" /\ s.joiner = Short[Self]
         \/ State(x.ctx) = "DONOR" /\ s.donor = Short[Self],
         NEW y \in ConfirmSSTMetadata(x, now)
  PROVE  Good(y) /\ SameRest(x, y)
<1> DEFINE c == x.ctx
           here == {k \in DOMAIN c.ssts : MustHaveHappenedLocally(c.ssts[k], now)}
           own(k) == IF State(c) = "DONOR" THEN k ELSE c.ssts[k].joiner
<1>1. ASSUME NEW k \in here PROVE k = s.donor /\ own(k) = Short[Self]
  <2> DEFINE r == [donor |-> k, joiner |-> c.ssts[k].joiner, at |-> c.ssts[k].selected]
  <2>1. r \in selected /\ now - c.ssts[k].selected <= 1
    BY <1>1 DEF TransfersTrue, MustHaveHappenedLocally
  <2>2. r.at \in 1..now /\ s.at \in 1..now /\ now - r.at <= 1 /\ now \in Nat
    BY <2>1 DEF Apart, Times
  <2>3. r = s
    BY <2>1, <2>2 DEF Apart
  <2>4. s.donor = k /\ s.joiner = c.ssts[k].joiner
    BY <2>3
  <2> QED
    BY <2>4
<1>2. PICK order \in SetToSeqs(here) : y = AddOwnNames(x, [i \in DOMAIN order |-> own(order[i])], now)
  BY DEF ConfirmSSTMetadata
<1>3. here = {} \/ here = {s.donor}
  BY <1>1
<1> DEFINE ns == [i \in DOMAIN order |-> own(order[i])]
<1>4. (Cardinality(here) = 0 \/ Cardinality(here) = 1)
  BY <1>3, FS_EmptySet, FS_Singleton
<1>5. order \in [1..Cardinality(here) -> here]
  BY DEF SetToSeqs
<1> HIDE DEF here
<1>6. Len(ns) = Cardinality(here) /\ \A i \in 1..Len(ns) : ns[i] = own(order[i]) /\ order[i] \in here
  BY <1>4, <1>5
<1>7. \A i \in 1..Len(ns) : ns[i] \in Names /\ Short[ns[i]] = Short[Self]
  BY <1>1, <1>6, SelfNamed
<1> HIDE DEF ns
<1>8. y = AddOwnNames(x, ns, now)
  BY <1>2 DEF ns
<1> QED
  BY <1>4, <1>6, <1>7, <1>8, OwnNamesGood
-----------------------------------------------------------------------------
(* The steps.                                                               *)

LEMMA BaseHostLineGood ==
  ASSUME NEW x, Good(x), UuidsTrue, now \in Times,
         NEW e, e = [Line("RegexBaseHost") EXCEPT !.ip = IPOf[Self]], NEW y \in Handle(x, e)
  PROVE  Good(y) /\ SameRest(x, y)
<1>1. Accepted(e) /\ e.re = "RegexBaseHost" /\ e.ip = IPOf[Self] /\ e.ts = now
  BY LineOfSelf
<1>2. y = AddOwnIP(Seen(x, e), IPOf[Self], now)
  <2>1. Handle(x, e) = Handler(Seen(x, e), e)
    BY <1>1, HandleSeen
  <2>2. Handler(Seen(x, e), e) = {AddOwnIP(Seen(x, e), IPOf[Self], now)}
    BY <1>1, IdentityHandlers
  <2> QED
    BY <2>1, <2>2
<1> QED
  BY <1>1, <1>2, HandleSeen, OwnIPGood DEF SameRest

LEMMA OwnUUIDLineGood ==
  ASSUME NEW x, Good(x), UuidsTrue, now \in Times,
         NEW re \in {"RegexOwnUUID", "RegexOwnUUIDFromEstablished"}, NEW e, e = OwnUUID(re), NEW y \in Handle(x, e)
  PROVE  Good(y) /\ SameRest(x, y)
<1>1. Accepted(e) /\ e.re = re /\ e.hash \in OwnLives /\ e.ts = now
  BY LineOfSelf
<1>2. y = AddOwnHash(Seen(x, e), e.hash, now)
  <2> DEFINE s == Seen(x, e)
  <2>1. Handle(x, e) = Handler(s, e)
    BY <1>1, HandleSeen
  <2> HIDE DEF s
  <2>2. Handler(s, e) = {AddOwnHash(s, e.hash, e.ts)}
    BY <1>1, IdentityHandlers
  <2> QED
    BY <1>1, <2>1, <2>2 DEF s
<1> QED
  BY <1>1, <1>2, HandleSeen, OwnHashGood DEF SameRest

LEMMA JoinedLineGood ==
  ASSUME NEW x, Good(x), UuidsTrue, now \in Times, NEW n \in Printed,
         NEW e, e = Peer("RegexNodeJoined", n), NEW y \in Handle(x, e)
  PROVE  Good(y) /\ SameRest(x, y)
<1>1. /\ Accepted(e) /\ e.re = "RegexNodeJoined" /\ e.hash \in {HashOf[n], Reborn[n]} /\ e.ip = IPOf[n]
      /\ e.method = "tcp" /\ e.ts \in Times
  BY LineOfPeer
<1>2. y = NodeSeen(Seen(x, e), e)
  <2>1. Handle(x, e) = Handler(Seen(x, e), e)
    BY <1>1, HandleSeen
  <2>2. Handler(Seen(x, e), e) = {NodeSeen(Seen(x, e), e)}
    BY <1>1, ViewHandlers
  <2> QED
    BY <2>1, <2>2
<1> QED
  BY <1>1, <1>2, HandleSeen, PeerGood DEF SameRest

LEMMA NewIdentityLineGood ==
  ASSUME NEW x, Good(x), UuidsTrue, now \in Times, NEW n \in Printed,
         NEW e, e = NewIdentity(n), NEW y \in Handle(x, e)
  PROVE  Good(y) /\ SameRest(x, y)
<1>1. /\ Accepted(e) /\ e.re = "RegexNodeChangedIdentity" /\ e.hash = HashOf[n]
      /\ e.hash2 \in {HashOf[n], Reborn[n]} /\ e.ts \in Times
  BY LineOfRebirth
<1>2. y = NodeChangedIdentity(Seen(x, e), e)
  <2>1. Handle(x, e) = Handler(Seen(x, e), e)
    BY <1>1, HandleSeen
  <2>2. Handler(Seen(x, e), e) = {NodeChangedIdentity(Seen(x, e), e)}
    BY <1>1, ViewHandlers
  <2> QED
    BY <2>1, <2>2
<1> QED
  BY <1>1, <1>2, HandleSeen, ChangedIdentityGood DEF SameRest

\* The lines of a view.
LEMMA OwnIndexLineGood ==
  ASSUME NEW x, Good(x), UuidsTrue, now \in Times, NEW v \in Views,
         NEW re \in {"RegexMyIDXFromComponent", "RegexOwnIndexFromView"},
         NEW e, e = OwnIndex(re, v), NEW y \in Handle(x, e)
  PROVE  Good(y) /\ SameRest(x, y) /\ y.ctx.myIdx = OwnIdx(v)
<1>1. Accepted(e) /\ e.re = re /\ e.idx = OwnIdx(v) /\ e.ts = now
  BY LineOfIndex
<1> DEFINE s == Seen(x, e)  c == [s.ctx EXCEPT !.myIdx = e.idx]
<1>2. Good(s) /\ SameRest(x, s) /\ y \in OnCtx(s, c)
  <2>1. Handle(x, e) = Handler(s, e) /\ Good(s) /\ SameRest(x, s)
    BY <1>1, HandleSeen
  <2> HIDE DEF s
  <2>2. Handler(s, e) = OnCtx(s, c)
    BY <1>1, IdentityHandlers
  <2> QED
    BY <2>1, <2>2
<1> HIDE DEF s
<1>3. c \in Contexts /\ Alike(s.ctx, c) /\ c.myIdx = OwnIdx(v)
  BY <1>1, <1>2, OwnIdxIs DEF Good, Contexts, Alike
<1> HIDE DEF c
<1>4. y.ctx = c
  BY <1>2, <1>3, ContextGood DEF OnCtx, Alike
<1> QED
  BY <1>2, <1>3, <1>4, OnCtxGood DEF SameRest

LEMMA CountLineGood ==
  ASSUME NEW x, NEW own, Knows(x, own), now \in Times, NEW v \in Views,
         NEW e, e = Count(v), NEW y \in Handle(x, e)
  PROVE  Knows(y, own) /\ SameRest(x, y)
<1>1. Accepted(e) /\ e.re = "RegexMemberCount" /\ e.members \in Nat
  BY LineOfView
<1> DEFINE s == Seen(x, e)  c == [s.ctx EXCEPT !.members = e.members]
<1>2. Good(s) /\ SameRest(x, s) /\ y \in OnCtx(s, c) /\ s.ctx.myIdx \in {"", own}
  <2>1. Handle(x, e) = Handler(s, e) /\ Good(s) /\ SameRest(x, s) /\ s.ctx.myIdx \in {"", own}
    BY <1>1, HandleSeen DEF Knows
  <2> HIDE DEF s
  <2>2. Handler(s, e) = OnCtx(s, c)
    BY <1>1, IdentityHandlers
  <2> QED
    BY <2>1, <2>2
<1> HIDE DEF s
<1>3. c \in Contexts /\ Alike(s.ctx, c) /\ c.myIdx = s.ctx.myIdx
  BY <1>1, <1>2 DEF Good, Contexts, Alike
<1> HIDE DEF c
<1>4. y.ctx = c
  BY <1>2, <1>3, ContextGood DEF OnCtx, Alike
<1> QED
  BY <1>2, <1>3, <1>4, OnCtxGood DEF SameRest, Knows

LEMMA MemberLineGood ==
  ASSUME NEW x, NEW v \in Views, Knows(x, OwnIdx(v)), UuidsTrue, now \in Times,
         NEW i \in DOMAIN v, NEW c \in BOOLEAN, NEW e, e = [Member(v, i) EXCEPT !.truncated = c],
         NEW y \in Handle(x, e)
  PROVE  Knows(y, OwnIdx(v)) /\ SameRest(x, y)
<1>1. Accepted(e) /\ e.re = "RegexMemberAssociations" /\ TrueOf(e, OwnIdx(v)) /\ e.truncated \in BOOLEAN
  BY LineOfMember
<1> DEFINE s == Seen(x, e)
<1>2. Knows(s, OwnIdx(v)) /\ SameRest(x, s) /\ e.ts \in Times /\ Handle(x, e) = Handler(s, e)
  BY <1>1, HandleSeen DEF Accepted, Knows
<1> HIDE DEF s
<1>3. y = MemberAssociation(s, e, e.ts)
  <2>1. Handler(s, e) = {MemberAssociation(s, e, e.ts)}
    BY <1>1, IdentityHandlers
  <2> QED
    BY <1>2, <2>1
<1>4. Knows(y, OwnIdx(v)) /\ SameRest(s, y)
  BY <1>1, <1>2, <1>3, MemberAssociationGood
<1> QED
  BY <1>2, <1>4 DEF SameRest

LEMMA ComponentLineGood ==
  ASSUME NEW x, Good(x), now \in Times, NEW p, NEW v \in Views, NEW e, e = Component(p, v), NEW y \in Handle(x, e)
  PROVE  Good(y) /\ SameRest(x, y)
<1>1. Accepted(e) /\ e.re = "RegexNewComponent" /\ e.members \in Nat
  BY LineOfView
<1> DEFINE s == Seen(x, e)  c == NewComponent(s.ctx, e)
<1>2. Good(s) /\ SameRest(x, s) /\ y \in OnCtx(s, c)
  <2>1. Handle(x, e) = Handler(s, e) /\ Good(s) /\ SameRest(x, s)
    BY <1>1, HandleSeen
  <2> HIDE DEF s
  <2>2. Handler(s, e) = OnCtx(s, c)
    BY <1>1, ViewHandlers
  <2> QED
    BY <2>1, <2>2
<1> HIDE DEF s
<1>3. c \in Contexts /\ Alike(s.ctx, c)
  BY <1>1, <1>2, ComponentTyped DEF Good
<1> HIDE DEF c
<1> QED
  BY <1>2, <1>3, OnCtxGood DEF SameRest

LEMMA EstablishedLineGood ==
  ASSUME NEW x, Good(x), UuidsTrue, now \in Times, NEW n \in Printed, NEW e, e = Established(n), NEW y \in Handle(x, e)
  PROVE  Good(y) /\ SameRest(x, y)
<1>1. /\ Accepted(e) /\ e.re = "RegexNodeEstablished" /\ e.hash \in {HashOf[n], Reborn[n]} /\ e.ip = IPOf[n]
      /\ e.method = "tcp" /\ e.ts \in Times
  BY LineOfPeer DEF Established
<1>2. y = NodeEstablished(Seen(x, e), e)
  <2>1. Handle(x, e) = Handler(Seen(x, e), e)
    BY <1>1, HandleSeen
  <2>2. Handler(Seen(x, e), e) = {NodeEstablished(Seen(x, e), e)}
    BY <1>1, ViewHandlers
  <2> QED
    BY <2>1, <2>2
<1> QED
  BY <1>1, <1>2, HandleSeen, PeerGood DEF SameRest

LEMMA OwnNameLineGood ==
  ASSUME NEW x, Good(x), now \in Times, NEW e,
         Accepted(e), e.re = "RegexNodeNameFromEnv", e.name = Short[Self], e.ts = now, NEW y \in Handle(x, e)
  PROVE  Good(y) /\ SameRest(x, y)
<1>1. y = AddOwnName(Seen(x, e), Short[Self], now)
  <2>1. Handle(x, e) = Handler(Seen(x, e), e)
    BY HandleSeen
  <2>2. Handler(Seen(x, e), e) = {AddOwnName(Seen(x, e), e.name, e.ts)}
    BY IdentityHandlers
  <2> QED
    BY <2>1, <2>2
<1> QED
  BY <1>1, HandleSeen, SelfNamed, OwnNameGood DEF SameRest

LEMMA OwnAddressLineGood ==
  ASSUME NEW x, Good(x), now \in Times, NEW e,
         Accepted(e), e.re = "RegexNodeIPFromEnv", e.ip = IPOf[Self], e.ts = now, NEW y \in Handle(x, e)
  PROVE  Good(y) /\ SameRest(x, y)
<1>1. y = AddOwnIP(Seen(x, e), IPOf[Self], now)
  <2>1. Handle(x, e) = Handler(Seen(x, e), e)
    BY HandleSeen
  <2>2. Handler(Seen(x, e), e) = {AddOwnIP(Seen(x, e), e.ip, e.ts)}
    BY IdentityHandlers
  <2> QED
    BY <2>1, <2>2
<1> QED
  BY <1>1, HandleSeen, OwnIPGood DEF SameRest

LEMMA StateLineGood ==
  ASSUME NEW x, Good(x), now \in Times, NEW s \in {"SYNCED", "CLOSED"},
         NEW e, e = [Line("RegexShift") EXCEPT !.state2 = s], NEW y \in Handle(x, e)
  PROVE  Good(y) /\ SameRest(x, y)
<1>1. Accepted(e) /\ e.re = "RegexShift" /\ e.state2 = s
  BY DEF Line, Accepted
<1> DEFINE v == Seen(x, e)  c == SetState(v.ctx, s)
<1>2. Good(v) /\ SameRest(x, v) /\ y \in OnCtx(v, c)
  <2>1. Handle(x, e) = Handler(v, e) /\ Good(v) /\ SameRest(x, v)
    BY <1>1, HandleSeen
  <2> HIDE DEF v
  <2>2. Handler(v, e) = Shift(v, e)
    BY <1>1, ViewHandlers
  <2>3. Shift(v, e) = OnCtx(v, c)
    BY <1>1 DEF Shift, OnCtx
  <2> QED
    BY <2>1, <2>2, <2>3
<1> HIDE DEF v
<1>3. c \in Contexts /\ Alike(v.ctx, c)
  BY <1>2, StateTyped DEF Good
<1> HIDE DEF c
<1> QED
  BY <1>2, <1>3, OnCtxGood DEF SameRest

LEMMA EventLineGood ==
  ASSUME NEW x, Good(x), now \in Times, NEW re \in DOMAIN EventState,
         NEW e, e = [Line(re) EXCEPT !.version = "8.0"], NEW y \in Handle(x, e)
  PROVE  Good(y) /\ SameRest(x, y)
<1>1. Accepted(e) /\ e.re = re /\ e.version = "8.0"
  BY DEF Line, Accepted
<1> DEFINE v == Seen(x, e)  c == Event(v.ctx, e)
<1>2. Good(v) /\ SameRest(x, v) /\ y \in OnCtx(v, c)
  <2>1. Handle(x, e) = Handler(v, e) /\ Good(v) /\ SameRest(x, v)
    BY <1>1, HandleSeen
  <2> HIDE DEF v
  <2>2. Handler(v, e) = OnCtx(v, c)
    BY <1>1, ViewHandlers
  <2> QED
    BY <2>1, <2>2
<1> HIDE DEF v
<1>3. c \in Contexts /\ Alike(v.ctx, c)
  BY <1>1, <1>2, EventTyped DEF Good
<1> HIDE DEF c
<1> QED
  BY <1>2, <1>3, OnCtxGood DEF SameRest

\* A handler that changes the context only, but its names and addresses.
LEMMA OnCtxKept ==
  ASSUME NEW x, Good(x), NEW c \in Contexts, c.names = x.ctx.names, c.ips = x.ctx.ips, NEW y \in OnCtx(x, c)
  PROVE  Good(y) /\ y.ctx = c
BY ContextGood DEF OnCtx

LEMMA SelectedLineGood ==
  ASSUME NEW x, Good(x), now \in Times, NEW donor \in Printed, NEW joiner \in Printed,
         NEW sel, TransfersTrue(x.ctx, sel),
         NEW e, e = [Line("RegexSSTRequestSuccess") EXCEPT !.name = joiner, !.donor = donor, !.selected = now],
         NEW y \in Handle(x, e)
  PROVE  /\ Good(y) /\ y.ctx.conflicts = x.ctx.conflicts
         /\ TransfersTrue(y.ctx, sel \cup {[donor |-> Short[donor], joiner |-> Short[joiner], at |-> now]})
<1>1. Accepted(e) /\ e.re = "RegexSSTRequestSuccess" /\ e.name = joiner /\ e.donor = donor /\ e.selected = now
  BY DEF Line, Accepted
<1> DEFINE v == Seen(x, e)  c == SSTSelected(v.ctx, e)
<1>2. Good(v) /\ SameRest(x, v) /\ y \in OnCtx(v, c)
  <2>1. Handle(x, e) = Handler(v, e) /\ Good(v) /\ SameRest(x, v)
    BY <1>1, HandleSeen
  <2> HIDE DEF v
  <2>2. Handler(v, e) = OnCtx(v, c)
    BY <1>1, TransferHandlers
  <2> QED
    BY <2>1, <2>2
<1> HIDE DEF v
<1>3. Short[joiner] \in Members /\ Short[donor] \in Members
  BY DEF Members
<1>4. v.ctx \in Contexts /\ TransfersTrue(v.ctx, sel)
  BY <1>2 DEF Good, TransfersTrue, SameRest
<1>5. /\ c \in Contexts /\ c.names = v.ctx.names /\ c.ips = v.ctx.ips /\ c.conflicts = v.ctx.conflicts
      /\ TransfersTrue(c, sel \cup {[donor |-> Short[donor], joiner |-> Short[joiner], at |-> now]})
  BY <1>1, <1>3, <1>4, SelectedTyped
<1> HIDE DEF c
<1> QED
  BY <1>2, <1>5, OnCtxKept DEF SameRest

LEMMA OverLineGood ==
  ASSUME NEW x, Good(x), now \in Times, NEW sel, TransfersTrue(x.ctx, sel),
         NEW re \in SSTEnds, NEW k, NEW e, e = Over(re, k), NEW y \in Handle(x, e)
  PROVE  Good(y) /\ y.ctx.conflicts = x.ctx.conflicts /\ TransfersTrue(y.ctx, sel)
<1>1. Accepted(e) /\ e.re = re
  BY DEF Over, Line, Accepted
<1> DEFINE v == Seen(x, e)  c == SSTOver(v.ctx, e)
<1>2. Good(v) /\ SameRest(x, v) /\ y \in OnCtx(v, c)
  <2>1. Handle(x, e) = Handler(v, e) /\ Good(v) /\ SameRest(x, v)
    BY <1>1, HandleSeen
  <2> HIDE DEF v
  <2>2. Handler(v, e) = OnCtx(v, c)
    BY <1>1, TransferHandlers
  <2> QED
    BY <2>1, <2>2
<1> HIDE DEF v
<1>3. v.ctx \in Contexts /\ TransfersTrue(v.ctx, sel)
  BY <1>2 DEF Good, TransfersTrue, SameRest
<1>4. /\ c \in Contexts /\ c.names = v.ctx.names /\ c.ips = v.ctx.ips /\ c.conflicts = v.ctx.conflicts
      /\ TransfersTrue(c, sel)
  BY <1>3, OverTyped
<1> HIDE DEF c
<1> QED
  BY <1>2, <1>4, OnCtxKept DEF SameRest

LEMMA NamelessLineGood ==
  ASSUME NEW x, Good(x), NEW sel, TransfersTrue(x.ctx, sel),
         NEW re, NEW k, NEW e, e = NamelessOver(re, k), NEW y \in Handle(x, e)
  PROVE  Good(y) /\ y.ctx.conflicts = x.ctx.conflicts /\ TransfersTrue(y.ctx, sel)
<1>1. e.parsed = FALSE /\ e.ftype = "error.log"
  BY DEF NamelessOver, Over, Line
<1>2. y = Seen(x, e) /\ Good(y) /\ SameRest(x, y)
  BY <1>1, SeenGood
<1> QED
  BY <1>2 DEF SameRest, TransfersTrue

LEMMA ProgressLineGood ==
  ASSUME NEW x, Good(x), now \in Times, NEW sel, TransfersTrue(x.ctx, sel),
         NEW re \in DOMAIN SSTStage, NEW e, e = [Line(re) EXCEPT !.seqno = "0"], NEW y \in Handle(x, e)
  PROVE  Good(y) /\ y.ctx.conflicts = x.ctx.conflicts /\ TransfersTrue(y.ctx, sel)
<1>1. Accepted(e) /\ e.re = re
  BY DEF Line, Accepted
<1> DEFINE v == Seen(x, e)
<1>2. Good(v) /\ SameRest(x, v) /\ y \in {[v EXCEPT !.ctx = d] : d \in SSTProgress(v.ctx, e)}
  <2>1. Handle(x, e) = Handler(v, e) /\ Good(v) /\ SameRest(x, v)
    BY <1>1, HandleSeen
  <2> HIDE DEF v
  <2>2. Handler(v, e) = {[v EXCEPT !.ctx = d] : d \in SSTProgress(v.ctx, e)}
    BY <1>1, TransferHandlers
  <2> QED
    BY <2>1, <2>2
<1> HIDE DEF v
<1>3. v.ctx \in Contexts /\ TransfersTrue(v.ctx, sel)
  BY <1>2 DEF Good, TransfersTrue, SameRest
<1>4. PICK d \in SSTProgress(v.ctx, e) : y = [v EXCEPT !.ctx = d]
  BY <1>2
<1>5. /\ d \in Contexts /\ d.names = v.ctx.names /\ d.ips = v.ctx.ips /\ d.conflicts = v.ctx.conflicts
      /\ TransfersTrue(d, sel)
  BY <1>1, <1>3, ProgressTyped
<1>6. y \in OnCtx(v, d)
  BY <1>4 DEF OnCtx
<1> QED
  BY <1>2, <1>5, <1>6, OnCtxKept DEF SameRest

LEMMA TransferLineGood ==
  ASSUME NEW x, Good(x), now \in Times, TransfersTrue(x.ctx, selected), Apart(selected, now),
         NEW s \in selected, now - s.at <= 1, NEW st,
         (st = "JOINER" /\ s.joiner = Short[Self]) \/ (st = "DONOR" /\ s.donor = Short[Self]),
         NEW e, e = [Line("RegexShift") EXCEPT !.state2 = st], NEW y \in Handle(x, e)
  PROVE  Good(y) /\ SameRest(x, y)
<1>1. Accepted(e) /\ e.re = "RegexShift" /\ e.state2 = st /\ e.ts = now
  BY DEF Line, Accepted
<1> DEFINE v == Seen(x, e)  c == SetState(v.ctx, st)  u == [v EXCEPT !.ctx = c]
<1>2. Good(v) /\ SameRest(x, v) /\ y \in ConfirmSSTMetadata(u, now)
  <2>1. Handle(x, e) = Handler(v, e) /\ Good(v) /\ SameRest(x, v)
    BY <1>1, HandleSeen
  <2> HIDE DEF v
  <2>2. Handler(v, e) = Shift(v, e)
    BY <1>1, ViewHandlers
  <2>3. Shift(v, e) = ConfirmSSTMetadata(u, now)
    BY <1>1 DEF Shift
  <2> QED
    BY <2>1, <2>2, <2>3
<1> HIDE DEF v
<1>3. st \in WsrepStates
  BY DEF WsrepStates
<1>4. c \in Contexts /\ Alike(v.ctx, c) /\ State(c) = st
  BY <1>2, <1>3, StateTyped DEF Good
<1> HIDE DEF c
<1>5. Good(u) /\ u.ctx = c
  BY <1>2, <1>4, ContextGood DEF Alike
<1>6. SameRest(x, u) /\ TransfersTrue(u.ctx, selected)
  BY <1>2, <1>4, <1>5 DEF SameRest, Alike, TransfersTrue
<1> HIDE DEF u
<1>7. Good(y) /\ SameRest(u, y)
  BY <1>2, <1>4, <1>5, <1>6, ConfirmGood
<1> QED
  BY <1>6, <1>7 DEF SameRest
-----------------------------------------------------------------------------
(* Votes.                                                                   *)

\* No checksum is voted for in two votes.
VotesApart == \A s, t \in Seqnos : s # t => MD5s[s] \cap MD5s[t] = {}

\* A vote is kept once; what it holds was voted for it and won it.
VotesTrue(cs, w) ==
  \A i \in DOMAIN cs :
    /\ \A n \in DOMAIN cs[i].votes : cs[i].votes[n] \in MD5s[cs[i].seqno]
    /\ cs[i].winner \in {"", w[cs[i].seqno]}
    /\ \A j \in DOMAIN cs : cs[j].seqno = cs[i].seqno => i = j

LEMMA VoteAt ==
  ASSUME NEW cs \in Conflicts, NEW i \in DOMAIN cs PROVE cs[i] \in Votes
BY DEF Conflicts

LEMMA ConflictsAlike ==
  ASSUME NEW ds \in Conflicts, NEW cs, cs = [i \in DOMAIN ds |-> cs[i]], \A i \in DOMAIN ds : cs[i] \in Votes
  PROVE  cs \in Conflicts
<1>1. DOMAIN ds = 1..Len(ds) /\ Len(ds) \in Nat
  BY DEF Conflicts
<1>2. cs \in [1..Len(ds) -> Votes]
  BY <1>1
<1> QED
  BY <1>1, <1>2, IsASeq DEF Conflicts

LEMMA FirstFound ==
  ASSUME NEW cs \in Conflicts, NEW is, is \subseteq DOMAIN cs, is # {}
  PROVE  Min(is) \in is /\ Min(is) # 0
<1>1. is \in SUBSET Nat /\ 0 \notin is
  BY DEF Conflicts
<1>2. \E n \in is : \A k \in is : n <= k
  BY <1>1, LeastNumber
<1>3. Min(is) \in is
  BY <1>2 DEF Min
<1> QED
  BY <1>1, <1>3

LEMMA SeqnoFound ==
  ASSUME NEW c \in Contexts, NEW s
  PROVE  LET i == ConflictWithSeqno(c, s) IN
         /\ i = 0 => \A j \in DOMAIN c.conflicts : c.conflicts[j].seqno # s
         /\ i # 0 => i \in DOMAIN c.conflicts /\ c.conflicts[i].seqno = s
<1> DEFINE is == {i \in DOMAIN c.conflicts : c.conflicts[i].seqno = s}
<1>1. ConflictWithSeqno(c, s) = IF is = {} THEN 0 ELSE Min(is)
  BY DEF ConflictWithSeqno, FirstConflict
<1>2. is # {} => Min(is) \in is /\ Min(is) # 0
  BY ContextFields, FirstFound
<1> QED
  BY <1>1, <1>2

LEMMA MD5Found ==
  ASSUME NEW c \in Contexts, NEW q
  PROVE  LET i == ConflictFromMD5(c, q) IN
         i # 0 => /\ i \in DOMAIN c.conflicts
                  /\ \E n \in DOMAIN c.conflicts[i].votes : c.conflicts[i].votes[n] = q
<1> DEFINE is == {i \in DOMAIN c.conflicts : \E n \in DOMAIN c.conflicts[i].votes : c.conflicts[i].votes[n] = q}
<1>1. ConflictFromMD5(c, q) = IF is = {} THEN 0 ELSE Min(is)
  BY DEF ConflictFromMD5, FirstConflict
<1>2. is # {} => Min(is) \in is
  BY ContextFields, FirstFound
<1> QED
  BY <1>1, <1>2

\* A handler of votes leaves the rest of the context alone.
VotesOnly(c, d) == d \in Contexts /\ d.names = c.names /\ d.ips = c.ips /\ d.ssts = c.ssts

LEMMA ConflictsOnly ==
  ASSUME NEW c \in Contexts, NEW cs \in Conflicts
  PROVE  VotesOnly(c, [c EXCEPT !.conflicts = cs]) /\ [c EXCEPT !.conflicts = cs].conflicts = cs
BY DEF VotesOnly, Contexts

LEMMA ConflictTyped ==
  ASSUME NEW cs \in Conflicts, NEW i \in DOMAIN cs, NEW y \in Votes
  PROVE  [cs EXCEPT ![i] = y] \in Conflicts
<1> DEFINE ds == [cs EXCEPT ![i] = y]
<1>1. ds = [j \in DOMAIN cs |-> ds[j]] /\ \A j \in DOMAIN cs : ds[j] = IF j = i THEN y ELSE cs[j]
  OBVIOUS
<1> HIDE DEF ds
<1>2. \A j \in DOMAIN cs : ds[j] \in Votes
  BY <1>1, VoteAt
<1>3. ds \in Conflicts
  BY <1>1, <1>2, ConflictsAlike
<1> QED
  BY <1>3 DEF ds

LEMMA VoteTyped ==
  ASSUME NEW x \in Votes, NEW n \in Voters \cup Members, NEW q \in Sums
  PROVE  LET y == [x EXCEPT !.votes = Put(x.votes, n, q)] IN
         /\ y \in Votes /\ y.seqno = x.seqno /\ y.winner = x.winner /\ y.votes = Put(x.votes, n, q)
<1>1. x.votes \in MapsTo(Voters \cup Members, Sums)
  BY DEF Votes
<1>2. Put(x.votes, n, q) \in MapsTo(Voters \cup Members, Sums)
  BY <1>1, PutTyped
<1> QED
  BY <1>2 DEF Votes

LEMMA VoteKept ==
  ASSUME NEW c \in Contexts, NEW i \in DOMAIN c.conflicts, NEW n \in Voters \cup Members, NEW q \in Sums
  PROVE  VotesOnly(c, Vote(c, i, n, q))
<1> DEFINE y == [c.conflicts[i] EXCEPT !.votes = Put(c.conflicts[i].votes, n, q)]
           cs == [c.conflicts EXCEPT ![i] = y]
<1>1. c.conflicts \in Conflicts
  BY ContextFields
<1>2. y \in Votes
  BY <1>1, VoteAt, VoteTyped
<1>3. Vote(c, i, n, q) = [c EXCEPT !.conflicts = cs]
  BY DEF Vote
<1> HIDE DEF y
<1>4. cs \in Conflicts
  BY <1>1, <1>2, ConflictTyped
<1> HIDE DEF cs
<1> QED
  BY <1>3, <1>4, ConflictsOnly

LEMMA OwnNameVotes ==
  ASSUME NEW c \in Contexts, c.names # <<>> PROVE Last(c.names) \in Voters \cup Members
<1>1. Last(c.names) = Short[Self]
  BY ContextFields, LastOne DEF OwnNames
<1>2. Short[Self] \in Members
  BY SelfNamed DEF Members
<1> QED
  BY <1>1, <1>2

\* The conflict a first vote begins.
Begun(e) == [seqno |-> e.seqno, initiatedBy |-> <<e.name>>, winner |-> "",
             votes |-> Put(EmptyMap, e.name, e.md5)]

LEMMA BegunTyped ==
  ASSUME NEW e, e.name \in Voters, e.seqno \in Seqnos, e.md5 \in Sums
  PROVE  /\ Begun(e) \in Votes /\ Begun(e).seqno = e.seqno /\ Begun(e).winner = ""
         /\ \A k \in DOMAIN Begun(e).votes : Begun(e).votes[k] = e.md5
<1>1. EmptyMap \in [{} -> Sums]
  BY DEF EmptyMap
<1>2. EmptyMap \in MapsTo(Voters \cup Members, Sums)
  BY <1>1 DEF MapsTo
<1>3. Put(EmptyMap, e.name, e.md5) \in MapsTo(Voters \cup Members, Sums)
  BY <1>2, PutTyped
<1>4. Begun(e) \in Votes
  BY <1>3 DEF Begun, Votes
<1> QED
  BY <1>4 DEF Begun, Put, EmptyMap

LEMMA RecastTyped ==
  ASSUME NEW x \in Votes, NEW old, NEW new \in Sums
  PROVE  /\ Recast(x, old, new) \in Votes /\ Recast(x, old, new).seqno = x.seqno
         /\ Recast(x, old, new).winner = x.winner
         /\ Recast(x, old, new).votes = [n \in DOMAIN x.votes |-> IF x.votes[n] = old THEN new ELSE x.votes[n]]
<1> DEFINE again == [n \in DOMAIN x.votes |-> IF x.votes[n] = old THEN new ELSE x.votes[n]]
<1>1. PICK K \in SUBSET (Voters \cup Members) : x.votes \in [K -> Sums]
  BY DEF Votes, MapsTo
<1>2. again \in [K -> Sums]
  BY <1>1
<1>3. Recast(x, old, new) = [x EXCEPT !.votes = again]
  BY DEF Recast
<1>4. again \in MapsTo(Voters \cup Members, Sums)
  BY <1>2 DEF MapsTo
<1>5. /\ Recast(x, old, new) \in Votes /\ Recast(x, old, new).seqno = x.seqno
      /\ Recast(x, old, new).winner = x.winner /\ Recast(x, old, new).votes = again
  <2> HIDE DEF again
  <2> QED
    BY <1>3, <1>4 DEF Votes
<1> QED
  BY <1>5

\* Whatever the handlers make of a vote, they leave the rest of the context alone.
LEMMA VotesTyped ==
  ASSUME NEW c \in Contexts, NEW e
  PROVE  /\ e.name \in Voters /\ e.seqno \in Seqnos /\ e.md5 \in Sums =>
              VotesOnly(c, VoteInit(c, e)) /\ VotesOnly(c, VoteRespond(c, e))
         /\ e.md5 \in Sums =>
              /\ VotesOnly(c, VoteRecovery(c, e)) /\ VotesOnly(c, VoteWinner(c, e))
              /\ VotesOnly(c, VoteRecomputed(c, e))
         /\ Success \in Sums => VotesOnly(c, InconsistentWithGroup(c, e))
<1> DEFINE i == ConflictWithSeqno(c, e.seqno)
<1>1. VotesOnly(c, c) /\ c.conflicts \in Conflicts
  BY ContextFields DEF VotesOnly
<1>2. i # 0 => i \in DOMAIN c.conflicts
  BY SeqnoFound
<1>3. ASSUME e.name \in Voters, e.md5 \in Sums PROVE VotesOnly(c, VoteRespond(c, e))
  <2>1. i # 0 => VotesOnly(c, Vote(c, i, e.name, e.md5))
    BY <1>2, <1>3, VoteKept
  <2>2. VoteRespond(c, e) = IF i = 0 THEN c ELSE Vote(c, i, e.name, e.md5)
    BY DEF VoteRespond
  <2> QED
    BY <1>1, <2>1, <2>2
<1>4. ASSUME e.name \in Voters, e.seqno \in Seqnos, e.md5 \in Sums PROVE VotesOnly(c, VoteInit(c, e))
  <2>1. i # 0 => VotesOnly(c, Vote(c, i, e.name, e.md5))
    BY <1>2, <1>4, VoteKept
  <2>2. Begun(e) \in Votes
    BY <1>4, BegunTyped
  <2>3. Append(c.conflicts, Begun(e)) \in Conflicts
    BY <1>1, <2>2 DEF Conflicts
  <2>4. VotesOnly(c, [c EXCEPT !.conflicts = Append(c.conflicts, Begun(e))])
    BY <2>3, ConflictsOnly
  <2>5. VoteInit(c, e) = IF i # 0 THEN Vote(c, i, e.name, e.md5)
                         ELSE [c EXCEPT !.conflicts = Append(c.conflicts, Begun(e))]
    BY DEF VoteInit, Begun
  <2> QED
    BY <2>1, <2>4, <2>5
<1>5. ASSUME e.md5 \in Sums PROVE VotesOnly(c, VoteRecovery(c, e))
  <2>1. i # 0 /\ c.names # <<>> => VotesOnly(c, Vote(c, i, Last(c.names), e.md5))
    BY <1>2, <1>5, OwnNameVotes, VoteKept
  <2>2. VoteRecovery(c, e) = IF c.names = <<>> \/ i = 0 THEN c ELSE Vote(c, i, Last(c.names), e.md5)
    BY DEF VoteRecovery
  <2> QED
    BY <1>1, <2>1, <2>2
<1>6. ASSUME Success \in Sums PROVE VotesOnly(c, InconsistentWithGroup(c, e))
  <2>1. i # 0 /\ c.names # <<>> => VotesOnly(c, Vote(c, i, Last(c.names), Success))
    BY <1>2, <1>6, OwnNameVotes, VoteKept
  <2>2. InconsistentWithGroup(c, e) = IF i = 0 \/ c.names = <<>> THEN c ELSE Vote(c, i, Last(c.names), Success)
    BY DEF InconsistentWithGroup
  <2> QED
    BY <1>1, <2>1, <2>2
<1>7. ASSUME e.md5 \in Sums PROVE VotesOnly(c, VoteWinner(c, e))
  <2> DEFINE j == ConflictFromMD5(c, e.md5)
             y == [c.conflicts[j] EXCEPT !.winner = e.md5]
             cs == [c.conflicts EXCEPT ![j] = y]
  <2>1. j # 0 => j \in DOMAIN c.conflicts
    BY MD5Found
  <2>2. VoteWinner(c, e) = IF j = 0 THEN c ELSE [c EXCEPT !.conflicts = cs]
    BY DEF VoteWinner
  <2>3. j # 0 => y \in Votes
    BY <1>1, <1>7, <2>1, VoteAt DEF Votes
  <2> HIDE DEF y, j
  <2>4. j # 0 => cs \in Conflicts
    BY <1>1, <2>1, <2>3, ConflictTyped
  <2> HIDE DEF cs
  <2> QED
    BY <1>1, <2>2, <2>4, ConflictsOnly
<1>8. ASSUME e.md5 \in Sums PROVE VotesOnly(c, VoteRecomputed(c, e))
  <2> DEFINE cs == [k \in DOMAIN c.conflicts |-> Recast(c.conflicts[k], e.oldMD5, e.md5)]
  <2>1. VoteRecomputed(c, e) = [c EXCEPT !.conflicts = cs]
    BY DEF VoteRecomputed
  <2>2. \A k \in DOMAIN c.conflicts : cs[k] \in Votes
    BY <1>1, <1>8, VoteAt, RecastTyped
  <2>3. cs = [k \in DOMAIN c.conflicts |-> cs[k]]
    OBVIOUS
  <2> HIDE DEF cs
  <2>4. cs \in Conflicts
    BY <1>1, <2>2, <2>3, ConflictsAlike
  <2> QED
    BY <2>1, <2>4, ConflictsOnly
<1> QED
  BY <1>3, <1>4, <1>5, <1>6, <1>7, <1>8

\* A conflict changed without its sequence number.
Revised(cs, i, y, w, v) ==
  /\ cs \in Conflicts /\ i \in DOMAIN cs /\ y.seqno = cs[i].seqno
  /\ VotesTrue(cs, w) /\ y.winner \in {"", v[y.seqno]}
  /\ \A n \in DOMAIN y.votes : y.votes[n] \in MD5s[y.seqno]
  /\ \A j \in DOMAIN cs : j # i => v[cs[j].seqno] = w[cs[j].seqno]

LEMMA ConflictChanged ==
  ASSUME NEW cs, NEW i, NEW y, NEW w, NEW v, Revised(cs, i, y, w, v)
  PROVE  VotesTrue([cs EXCEPT ![i] = y], v)
<1> DEFINE ds == [cs EXCEPT ![i] = y]
<1> USE DEF Revised
<1>1. DOMAIN ds = DOMAIN cs /\ ds[i] = y /\ \A j \in DOMAIN cs : j # i => ds[j] = cs[j]
  BY DEF Conflicts
<1> HIDE DEF ds
<1>2. \A j \in DOMAIN cs : ds[j].seqno = cs[j].seqno
  BY <1>1
<1>3. ASSUME NEW j \in DOMAIN ds
      PROVE  /\ \A n \in DOMAIN ds[j].votes : ds[j].votes[n] \in MD5s[ds[j].seqno]
             /\ ds[j].winner \in {"", v[ds[j].seqno]}
  <2>1. CASE j = i
    BY <1>1, <2>1
  <2>2. CASE j # i
    <3>1. ds[j] = cs[j] /\ v[cs[j].seqno] = w[cs[j].seqno]
      BY <1>1, <2>2
    <3>2. /\ \A n \in DOMAIN cs[j].votes : cs[j].votes[n] \in MD5s[cs[j].seqno]
          /\ cs[j].winner \in {"", w[cs[j].seqno]}
      BY <1>1 DEF VotesTrue
    <3> QED
      BY <3>1, <3>2
  <2> QED
    BY <2>1, <2>2
<1>4. \A j, k \in DOMAIN ds : ds[k].seqno = ds[j].seqno => j = k
  BY <1>1, <1>2 DEF VotesTrue
<1>5. VotesTrue(ds, v)
  BY <1>3, <1>4 DEF VotesTrue
<1> QED
  BY <1>5 DEF ds

\* A vote is put in the conflict of its sequence number.
LEMMA VoteGood ==
  ASSUME NEW c \in Contexts, NEW i \in DOMAIN c.conflicts, NEW n \in Voters \cup Members,
         NEW q \in MD5s[c.conflicts[i].seqno], NEW w, VotesTrue(c.conflicts, w)
  PROVE  VotesTrue(Vote(c, i, n, q).conflicts, w)
<1> DEFINE x == c.conflicts[i]
           y == [x EXCEPT !.votes = Put(x.votes, n, q)]
           cs == [c.conflicts EXCEPT ![i] = y]
<1>1. c.conflicts \in Conflicts
  BY ContextFields
<1>2. x \in Votes /\ x.seqno \in Seqnos
  BY <1>1, VoteAt DEF Votes
<1>3. q \in Sums
  BY <1>2 DEF Sums
<1>4. y \in Votes /\ y.seqno = x.seqno /\ y.winner = x.winner /\ y.votes = Put(x.votes, n, q)
  <2>1. PICK z \in Votes : z = x
    BY <1>2
  <2> QED
    BY <1>3, <2>1, VoteTyped
<1>5. Vote(c, i, n, q) = [c EXCEPT !.conflicts = cs]
  BY DEF Vote
<1>6. x.winner \in {"", w[x.seqno]} /\ \A k \in DOMAIN x.votes : x.votes[k] \in MD5s[x.seqno]
  BY DEF VotesTrue
<1>7. \A k \in DOMAIN Put(x.votes, n, q) : Put(x.votes, n, q)[k] \in MD5s[x.seqno]
  BY <1>6 DEF Put
<1>8. y.winner \in {"", w[y.seqno]} /\ \A k \in DOMAIN y.votes : y.votes[k] \in MD5s[y.seqno]
  <2> HIDE DEF x, y
  <2> QED
    BY <1>4, <1>6, <1>7
<1> HIDE DEF y
<1>9. cs \in Conflicts /\ VotesTrue(cs, w)
  <2>1. cs \in Conflicts
    BY <1>1, <1>4, ConflictTyped
  <2>2. Revised(c.conflicts, i, y, w, w)
    BY <1>1, <1>4, <1>8 DEF Revised
  <2> QED
    BY <2>1, <2>2, ConflictChanged
<1> HIDE DEF cs
<1> QED
  BY <1>5, <1>9, ConflictsOnly

LEMMA VoteInitGood ==
  ASSUME NEW c \in Contexts, NEW e, e.name \in Voters, e.seqno \in Seqnos, e.md5 \in MD5s[e.seqno],
         NEW w, VotesTrue(c.conflicts, w)
  PROVE  VotesTrue(VoteInit(c, e).conflicts, w)
<1> DEFINE i == ConflictWithSeqno(c, e.seqno)
<1>1. CASE i # 0
  <2>1. i \in DOMAIN c.conflicts /\ c.conflicts[i].seqno = e.seqno
    BY <1>1, SeqnoFound
  <2>2. VoteInit(c, e) = Vote(c, i, e.name, e.md5)
    BY <1>1 DEF VoteInit
  <2> QED
    BY <2>1, <2>2, VoteGood
<1>2. CASE i = 0
  <2> DEFINE y == Begun(e)
             cs == Append(c.conflicts, y)
  <2>1. \A j \in DOMAIN c.conflicts : c.conflicts[j].seqno # e.seqno
    BY <1>2, SeqnoFound
  <2>2. VoteInit(c, e) = [c EXCEPT !.conflicts = cs]
    BY <1>2 DEF VoteInit, Begun
  <2>3. y \in Votes /\ y.seqno = e.seqno /\ y.winner = "" /\ \A k \in DOMAIN y.votes : y.votes[k] = e.md5
    BY BegunTyped DEF Sums
  <2> HIDE DEF y
  <2>4. c.conflicts \in Conflicts
    BY ContextFields
  <2>5. cs \in Conflicts /\ DOMAIN cs = DOMAIN c.conflicts \cup {Len(c.conflicts) + 1}
        /\ \A j \in DOMAIN cs : cs[j] = IF j \in DOMAIN c.conflicts THEN c.conflicts[j] ELSE y
    <3>1. c.conflicts \in Seq(Votes) /\ y \in Votes
      BY <2>3, <2>4 DEF Conflicts
    <3>2. cs \in Seq(Votes)
      BY <3>1
    <3>3. DOMAIN cs = DOMAIN c.conflicts \cup {Len(c.conflicts) + 1}
          /\ \A j \in DOMAIN cs : cs[j] = IF j \in DOMAIN c.conflicts THEN c.conflicts[j] ELSE y
      BY <3>1
    <3> QED
      BY <3>2, <3>3 DEF Conflicts
  <2> HIDE DEF cs
  <2>6. ASSUME NEW j \in DOMAIN cs
        PROVE  /\ \A n \in DOMAIN cs[j].votes : cs[j].votes[n] \in MD5s[cs[j].seqno]
               /\ cs[j].winner \in {"", w[cs[j].seqno]}
    <3>1. CASE j \in DOMAIN c.conflicts
      BY <2>5, <3>1 DEF VotesTrue
    <3>2. CASE j \notin DOMAIN c.conflicts
      BY <2>3, <2>5, <3>2
    <3> QED
      BY <3>1, <3>2
  <2>7. ASSUME NEW j \in DOMAIN cs, NEW k \in DOMAIN cs, cs[k].seqno = cs[j].seqno PROVE j = k
    <3>1. CASE j \in DOMAIN c.conflicts /\ k \in DOMAIN c.conflicts
      BY <2>5, <2>7, <3>1 DEF VotesTrue
    <3>2. CASE j \notin DOMAIN c.conflicts \/ k \notin DOMAIN c.conflicts
      <4>1. j \notin DOMAIN c.conflicts /\ k \notin DOMAIN c.conflicts
        BY <2>1, <2>3, <2>5, <2>7, <3>2
      <4> QED
        BY <2>5, <4>1
    <3> QED
      BY <3>1, <3>2
  <2>8. VotesTrue(cs, w)
    BY <2>6, <2>7 DEF VotesTrue
  <2> QED
    BY <2>2, <2>5, <2>8, ConflictsOnly
<1> QED
  BY <1>1, <1>2

\* The handlers that put a vote in a conflict that must be there.
LEMMA VoteAnswerGood ==
  ASSUME NEW c \in Contexts, NEW e, e.seqno \in Seqnos, NEW w, VotesTrue(c.conflicts, w)
  PROVE  /\ e.name \in Voters /\ e.md5 \in MD5s[e.seqno] => VotesTrue(VoteRespond(c, e).conflicts, w)
         /\ e.md5 \in MD5s[e.seqno] => VotesTrue(VoteRecovery(c, e).conflicts, w)
         /\ Success \in MD5s[e.seqno] => VotesTrue(InconsistentWithGroup(c, e).conflicts, w)
<1> DEFINE i == ConflictWithSeqno(c, e.seqno)
<1>1. i # 0 => i \in DOMAIN c.conflicts /\ c.conflicts[i].seqno = e.seqno
  BY SeqnoFound
<1>2. c.names # <<>> => Last(c.names) \in Voters \cup Members
  BY OwnNameVotes
<1>3. i # 0 /\ e.name \in Voters /\ e.md5 \in MD5s[e.seqno] => VotesTrue(Vote(c, i, e.name, e.md5).conflicts, w)
  BY <1>1, VoteGood
<1>4. i # 0 /\ c.names # <<>> /\ e.md5 \in MD5s[e.seqno] => VotesTrue(Vote(c, i, Last(c.names), e.md5).conflicts, w)
  BY <1>1, <1>2, VoteGood
<1>5. i # 0 /\ c.names # <<>> /\ Success \in MD5s[e.seqno] => VotesTrue(Vote(c, i, Last(c.names), Success).conflicts, w)
  BY <1>1, <1>2, VoteGood
<1>6. VoteRespond(c, e) = IF i = 0 THEN c ELSE Vote(c, i, e.name, e.md5)
  BY DEF VoteRespond
<1>7. VoteRecovery(c, e) = IF c.names = <<>> \/ i = 0 THEN c ELSE Vote(c, i, Last(c.names), e.md5)
  BY DEF VoteRecovery
<1>8. InconsistentWithGroup(c, e) = IF i = 0 \/ c.names = <<>> THEN c ELSE Vote(c, i, Last(c.names), Success)
  BY DEF InconsistentWithGroup
<1> HIDE DEF i
<1> QED
  BY <1>3, <1>4, <1>5, <1>6, <1>7, <1>8

\* A checksum that was voted for in one vote only tells which vote it won.
LEMMA WinnerGood ==
  ASSUME VotesApart, NEW c \in Contexts, NEW e, NEW s \in Seqnos, e.md5 \in MD5s[s],
         NEW w, DOMAIN w = Seqnos, w[s] = "", VotesTrue(c.conflicts, w)
  PROVE  VotesTrue(VoteWinner(c, e).conflicts, [w EXCEPT ![s] = e.md5])
<1> DEFINE i == ConflictFromMD5(c, e.md5)
           v == [w EXCEPT ![s] = e.md5]
<1>1. c.conflicts \in Conflicts /\ \A j \in DOMAIN c.conflicts : c.conflicts[j] \in Votes
  BY ContextFields, VoteAt
<1>2. \A j \in DOMAIN c.conflicts : c.conflicts[j].seqno \in Seqnos
  BY <1>1 DEF Votes
<1>3. v[s] = e.md5 /\ \A t \in Seqnos : t # s => v[t] = w[t]
  OBVIOUS
<1> HIDE DEF v
<1>4. CASE i = 0
  <2>1. VoteWinner(c, e) = c
    BY <1>4 DEF VoteWinner
  <2>2. VotesTrue(c.conflicts, v)
    BY <1>2, <1>3 DEF VotesTrue
  <2> QED
    BY <2>1, <2>2 DEF v
<1>5. CASE i # 0
  <2> DEFINE x == c.conflicts[i]
             y == [x EXCEPT !.winner = e.md5]
             cs == [c.conflicts EXCEPT ![i] = y]
  <2>1. i \in DOMAIN c.conflicts /\ \E n \in DOMAIN x.votes : x.votes[n] = e.md5
    BY <1>5, MD5Found
  <2>2. x.seqno = s
    <3>1. PICK n : n \in DOMAIN x.votes /\ x.votes[n] = e.md5
      BY <2>1
    <3>2. e.md5 \in MD5s[x.seqno] /\ x.seqno \in Seqnos
      BY <1>2, <2>1, <3>1 DEF VotesTrue
    <3> HIDE DEF x
    <3> QED
      BY <3>2, Zenon DEF VotesApart
  <2>3. VoteWinner(c, e) = [c EXCEPT !.conflicts = cs]
    BY <1>5 DEF VoteWinner
  <2>4. e.md5 \in Sums /\ x \in Votes
    BY <1>1, <2>1 DEF Sums
  <2>5. y \in Votes /\ y.seqno = s /\ y.winner = e.md5 /\ y.votes = x.votes
    BY <2>2, <2>4 DEF Votes
  <2>6. \A j \in DOMAIN c.conflicts : j # i => v[c.conflicts[j].seqno] = w[c.conflicts[j].seqno]
    <3>1. \A j \in DOMAIN c.conflicts : j # i => c.conflicts[j].seqno # s
      BY <2>1, <2>2 DEF VotesTrue
    <3> QED
      BY <1>2, <1>3, <3>1
  <2>7. \A n \in DOMAIN y.votes : y.votes[n] \in MD5s[y.seqno]
    <3>1. \A n \in DOMAIN x.votes : x.votes[n] \in MD5s[x.seqno]
      BY <2>1 DEF VotesTrue
    <3> HIDE DEF x, y
    <3> QED
      BY <2>2, <2>5, <3>1
  <2>8. y.winner \in {"", v[y.seqno]} /\ y.seqno = c.conflicts[i].seqno
    BY <1>3, <2>2, <2>5
  <2> HIDE DEF y, i
  <2>9. cs \in Conflicts /\ VotesTrue(cs, v)
    <3>1. cs \in Conflicts
      BY <1>1, <2>1, <2>5, ConflictTyped
    <3>2. i \in DOMAIN c.conflicts /\ c.conflicts \in Conflicts /\ y \in Votes
      BY <1>1, <2>1, <2>5
    <3>3. VotesTrue([c.conflicts EXCEPT ![i] = y], v)
      <4>1. Revised(c.conflicts, i, y, w, v)
        BY <2>6, <2>7, <2>8, <3>2 DEF Revised
      <4> QED
        BY <4>1, ConflictChanged
    <3> QED
      BY <3>1, <3>3
  <2> HIDE DEF cs
  <2>10. VotesTrue(VoteWinner(c, e).conflicts, v)
    BY <2>3, <2>9, ConflictsOnly
  <2> QED
    BY <2>10 DEF v
<1> QED
  BY <1>4, <1>5

LEMMA RecomputedGood ==
  ASSUME VotesApart, NEW c \in Contexts, NEW e, NEW s \in Seqnos, e.oldMD5 \in MD5s[s], e.md5 \in MD5s[s],
         NEW w, VotesTrue(c.conflicts, w)
  PROVE  VotesTrue(VoteRecomputed(c, e).conflicts, w)
<1> DEFINE cs == [i \in DOMAIN c.conflicts |-> Recast(c.conflicts[i], e.oldMD5, e.md5)]
<1>1. VoteRecomputed(c, e) = [c EXCEPT !.conflicts = cs]
  BY DEF VoteRecomputed
<1>2. c.conflicts \in Conflicts /\ \A j \in DOMAIN c.conflicts : c.conflicts[j] \in Votes
  BY ContextFields, VoteAt
<1>3. ASSUME NEW j \in DOMAIN c.conflicts
      PROVE  /\ cs[j] \in Votes /\ cs[j].seqno = c.conflicts[j].seqno /\ cs[j].winner = c.conflicts[j].winner
             /\ \A n \in DOMAIN cs[j].votes : cs[j].votes[n] \in MD5s[cs[j].seqno]
  <2>1. PICK x \in Votes : x = c.conflicts[j]
    BY <1>2
  <2> DEFINE y == Recast(x, e.oldMD5, e.md5)
  <2>2. x.seqno \in Seqnos /\ \A n \in DOMAIN x.votes : x.votes[n] \in MD5s[x.seqno]
    BY <2>1 DEF VotesTrue, Votes
  <2>3. e.md5 \in Sums
    BY DEF Sums
  <2>4. /\ y \in Votes /\ y.seqno = x.seqno /\ y.winner = x.winner
        /\ y.votes = [n \in DOMAIN x.votes |-> IF x.votes[n] = e.oldMD5 THEN e.md5 ELSE x.votes[n]]
    BY <2>3, RecastTyped
  <2>5. \A n \in DOMAIN y.votes : y.votes[n] \in MD5s[x.seqno]
    BY <2>2, <2>4 DEF VotesApart
  <2>6. cs[j] = y
    BY <2>1
  <2> HIDE DEF y, cs
  <2> QED
    BY <2>1, <2>4, <2>5, <2>6
<1>4. DOMAIN cs = DOMAIN c.conflicts /\ cs = [j \in DOMAIN c.conflicts |-> cs[j]]
  OBVIOUS
<1> HIDE DEF cs
<1>5. cs \in Conflicts
  BY <1>2, <1>3, <1>4, ConflictsAlike
<1>6. VotesTrue(cs, w)
  BY <1>3, <1>4 DEF VotesTrue
<1> QED
  BY <1>1, <1>5, <1>6, ConflictsOnly

LEMMA HandledFrom ==
  ASSUME NEW x, Good(x), NEW e, Accepted(e), NEW y \in Handle(x, e)
  PROVE  \E v : Good(v) /\ SameRest(x, v) /\ y \in Handler(v, e)
BY HandleSeen

LEMMA VotesHandled ==
  ASSUME NEW x, NEW v, Good(v), SameRest(x, v), NEW c, VotesOnly(v.ctx, c), NEW y \in OnCtx(v, c)
  PROVE  Good(y) /\ y.ctx.ssts = x.ctx.ssts /\ y.ctx.conflicts = c.conflicts
<1>1. Good(y) /\ y.ctx = c
  BY OnCtxKept DEF VotesOnly
<1> QED
  BY <1>1 DEF VotesOnly, SameRest

LEMMA InitLineGood ==
  ASSUME NEW x, Good(x), NEW e, Accepted(e), e.re = "RegexInconsistencyVoteInit",
         e.name \in Voters, e.seqno \in Seqnos, e.md5 \in MD5s[e.seqno], NEW y \in Handle(x, e)
  PROVE  /\ Good(y) /\ y.ctx.ssts = x.ctx.ssts
         /\ \A w : VotesTrue(x.ctx.conflicts, w) => VotesTrue(y.ctx.conflicts, w)
<1>1. PICK v : Good(v) /\ SameRest(x, v) /\ y \in Handler(v, e)
  BY HandledFrom
<1>2. Handler(v, e) = OnCtx(v, VoteInit(v.ctx, e))
  BY VoteHandlers
<1>3. v.ctx \in Contexts /\ v.ctx.conflicts = x.ctx.conflicts
  BY <1>1 DEF Good, SameRest
<1>4. VotesOnly(v.ctx, VoteInit(v.ctx, e))
  BY <1>3, VotesTyped DEF Sums
<1>5. Good(y) /\ y.ctx.ssts = x.ctx.ssts /\ y.ctx.conflicts = VoteInit(v.ctx, e).conflicts
  BY <1>1, <1>2, <1>4, VotesHandled
<1> QED
  BY <1>3, <1>5, VoteInitGood

LEMMA AnswerLineGood ==
  ASSUME NEW x, Good(x), NEW e, Accepted(e),
         e.re \in {"RegexInconsistencyVoteRespond", "RegexInconsistencyRecovery"},
         e.name \in Voters, e.seqno \in Seqnos, e.md5 \in MD5s[e.seqno], NEW y \in Handle(x, e)
  PROVE  /\ Good(y) /\ y.ctx.ssts = x.ctx.ssts
         /\ \A w : VotesTrue(x.ctx.conflicts, w) => VotesTrue(y.ctx.conflicts, w)
<1>1. PICK v : Good(v) /\ SameRest(x, v) /\ y \in Handler(v, e)
  BY HandledFrom
<1>2. v.ctx \in Contexts /\ v.ctx.conflicts = x.ctx.conflicts
  BY <1>1 DEF Good, SameRest
<1>3. PICK c \in {VoteRespond(v.ctx, e), VoteRecovery(v.ctx, e)} : Handler(v, e) = OnCtx(v, c)
  BY VoteHandlers
<1>4. VotesOnly(v.ctx, c)
  BY <1>2, <1>3, VotesTyped DEF Sums
<1>5. Good(y) /\ y.ctx.ssts = x.ctx.ssts /\ y.ctx.conflicts = c.conflicts
  BY <1>1, <1>3, <1>4, VotesHandled
<1> QED
  BY <1>2, <1>3, <1>5, VoteAnswerGood

LEMMA GroupLineGood ==
  ASSUME NEW x, Good(x), NEW e, Accepted(e), e.re = "RegexInconsistencyVoteInconsistentWithGroup",
         e.seqno \in Seqnos, Success \in MD5s[e.seqno], NEW y \in Handle(x, e)
  PROVE  /\ Good(y) /\ y.ctx.ssts = x.ctx.ssts
         /\ \A w : VotesTrue(x.ctx.conflicts, w) => VotesTrue(y.ctx.conflicts, w)
<1>1. PICK v : Good(v) /\ SameRest(x, v) /\ y \in Handler(v, e)
  BY HandledFrom
<1>2. Handler(v, e) = OnCtx(v, InconsistentWithGroup(v.ctx, e))
  BY VoteHandlers
<1>3. v.ctx \in Contexts /\ v.ctx.conflicts = x.ctx.conflicts
  BY <1>1 DEF Good, SameRest
<1>4. VotesOnly(v.ctx, InconsistentWithGroup(v.ctx, e))
  BY <1>3, VotesTyped DEF Sums
<1>5. Good(y) /\ y.ctx.ssts = x.ctx.ssts /\ y.ctx.conflicts = InconsistentWithGroup(v.ctx, e).conflicts
  BY <1>1, <1>2, <1>4, VotesHandled
<1> QED
  BY <1>3, <1>5, VoteAnswerGood

LEMMA RecomputeLineGood ==
  ASSUME NEW x, Good(x), NEW e, Accepted(e), e.re = "RegexInconsistencyVoteRecomputed",
         NEW s \in Seqnos, e.oldMD5 \in MD5s[s], e.md5 \in MD5s[s], NEW y \in Handle(x, e)
  PROVE  /\ Good(y) /\ y.ctx.ssts = x.ctx.ssts
         /\ VotesApart => \A w : VotesTrue(x.ctx.conflicts, w) => VotesTrue(y.ctx.conflicts, w)
<1>1. PICK v : Good(v) /\ SameRest(x, v) /\ y \in Handler(v, e)
  BY HandledFrom
<1>2. Handler(v, e) = OnCtx(v, VoteRecomputed(v.ctx, e))
  BY VoteHandlers
<1>3. v.ctx \in Contexts /\ v.ctx.conflicts = x.ctx.conflicts
  BY <1>1 DEF Good, SameRest
<1>4. VotesOnly(v.ctx, VoteRecomputed(v.ctx, e))
  BY <1>3, VotesTyped DEF Sums
<1>5. Good(y) /\ y.ctx.ssts = x.ctx.ssts /\ y.ctx.conflicts = VoteRecomputed(v.ctx, e).conflicts
  BY <1>1, <1>2, <1>4, VotesHandled
<1> QED
  BY <1>3, <1>5, RecomputedGood

LEMMA WinnerLineGood ==
  ASSUME NEW x, Good(x), NEW e, Accepted(e), e.re = "RegexInconsistencyWinner",
         NEW s \in Seqnos, e.md5 \in MD5s[s], NEW y \in Handle(x, e)
  PROVE  /\ Good(y) /\ y.ctx.ssts = x.ctx.ssts
         /\ VotesApart => \A w : DOMAIN w = Seqnos /\ w[s] = "" /\ VotesTrue(x.ctx.conflicts, w)
              => VotesTrue(y.ctx.conflicts, [w EXCEPT ![s] = e.md5])
<1>1. PICK v : Good(v) /\ SameRest(x, v) /\ y \in Handler(v, e)
  BY HandledFrom
<1>2. Handler(v, e) = OnCtx(v, VoteWinner(v.ctx, e))
  BY VoteHandlers
<1>3. v.ctx \in Contexts /\ v.ctx.conflicts = x.ctx.conflicts
  BY <1>1 DEF Good, SameRest
<1>4. VotesOnly(v.ctx, VoteWinner(v.ctx, e))
  BY <1>3, VotesTyped DEF Sums
<1>5. Good(y) /\ y.ctx.ssts = x.ctx.ssts /\ y.ctx.conflicts = VoteWinner(v.ctx, e).conflicts
  BY <1>1, <1>2, <1>4, VotesHandled
<1> QED
  BY <1>3, <1>5, WinnerGood
-----------------------------------------------------------------------------
(* The invariant.                                                           *)

LogInv ==
  /\ now \in Times /\ Good(m)
  /\ TransfersTrue(m.ctx, selected) /\ Apart(selected, now)
  /\ voting \in {""} \cup Seqnos

\* What the program keeps of the votes, against what became of them.
VoteInv ==
  /\ DOMAIN won = Seqnos /\ (voting # "" => won[voting] = "")
  /\ VotesTrue(m.ctx.conflicts, won)

\* Before the first line no index is known.
LinesInv == lines \in Nat /\ (lines = 0 => m.ctx.myIdx = "")

LEMMA InitGood == Init => LogInv /\ VoteInv /\ UuidsTrue /\ LinesInv
<1> SUFFICES ASSUME Init PROVE LogInv /\ VoteInv /\ UuidsTrue /\ LinesInv
  OBVIOUS
<1>1. m = [ctx |-> NewLogCtx("log"), db |-> EmptyDB] /\ m.ctx = NewLogCtx("log") /\ m.db = EmptyDB
  BY DEF Init
<1>2. NewLogCtx("log") \in Contexts
  <2>1. EmptyMap \in TransferMaps
    <3>1. EmptyMap \in [{} -> Transfers]
      BY DEF EmptyMap
    <3> QED
      BY <3>1 DEF TransferMaps, MapsTo
  <2>2. [f \in FileTypes |-> ""] \in StateMaps
    BY DEF StateMaps
  <2>3. <<>> \in OwnIPs /\ <<>> \in OwnHashes /\ <<>> \in OwnNames /\ <<>> \in Conflicts
    BY DEF OwnIPs, OwnHashes, OwnNames, Conflicts
  <2>4. "" \in Indexes
    BY DEF Indexes
  <2> QED
    BY <2>1, <2>2, <2>3, <2>4 DEF NewLogCtx, Contexts, Debug
<1>3. NewLogCtx("log").names = <<>> /\ NewLogCtx("log").ssts = EmptyMap /\ NewLogCtx("log").conflicts = <<>>
  BY DEF NewLogCtx
<1>4. TrueMaps(EmptyDB) /\ EmptyDB.IPToNodeNames[IPOf[Self]] = <<>>
  <2>1. IPOf[Self] \in IPs
    BY SelfNamed
  <2>2. [p \in IPs |-> <<>>] \in [IPs -> Seq(Units(Methods))]
    OBVIOUS
  <2>3. \A h \in Hashes : <<>> \in Seq(Units(NamesOf(h)))
    OBVIOUS
  <2> QED
    BY <2>1, <2>2, <2>3 DEF EmptyDB, TrueMaps
<1>5. Good(m)
  BY <1>1, <1>2, <1>3, <1>4 DEF Good
<1>6. TransfersTrue(m.ctx, selected)
  BY <1>1, <1>3 DEF TransfersTrue, EmptyMap
<1>7. Apart(selected, now) /\ now \in Times /\ voting = ""
  <2>1. selected = {} /\ now = 1 /\ voting = ""
    BY DEF Init
  <2>2. Apart({}, 1) /\ 1 \in Times
    BY TimesAssumption DEF Apart, Times
  <2> QED
    BY <2>1, <2>2
<1>8. VotesTrue(m.ctx.conflicts, won)
  <2>1. m.ctx.conflicts = <<>>
    BY <1>1, <1>3
  <2>2. DOMAIN <<>> = {}
    OBVIOUS
  <2>3. VotesTrue(<<>>, won)
    BY <2>2 DEF VotesTrue
  <2> QED
    BY <2>1, <2>3
<1>9. DOMAIN won = Seqnos
  BY DEF Init
<1>10. UuidsTrue
  BY DEF Init, UuidsTrue
<1>11. m.ctx.myIdx = "" /\ lines = 0
  <2>1. NewLogCtx("log").myIdx = ""
    BY DEF NewLogCtx
  <2>2. lines = 0
    BY DEF Init
  <2> QED
    BY <1>1, <2>1, <2>2
<1> QED
  BY <1>5, <1>6, <1>7, <1>8, <1>9, <1>10, <1>11 DEF LogInv, VoteInv, LinesInv

\* A line that is about neither transfers nor votes.
LEMMA QuietStep ==
  ASSUME LogInv, Good(m'), SameRest(m, m'), UNCHANGED truth
  PROVE  LogInv' /\ (VoteInv => VoteInv')
<1>1. TransfersTrue(m'.ctx, selected)
  BY DEF LogInv, SameRest, TransfersTrue
<1>2. VoteInv => VotesTrue(m'.ctx.conflicts, won)
  BY DEF VoteInv, SameRest
<1> QED
  BY <1>1, <1>2 DEF LogInv, VoteInv, truth

\* A line about a vote under way.
LEMMA VotingStep ==
  ASSUME LogInv, Good(m'), m'.ctx.ssts = m.ctx.ssts, UNCHANGED <<topic, now, selected, won>>,
         voting' \in {""} \cup Seqnos, voting' # "" => won[voting'] = "",
         VotesApart /\ VotesTrue(m.ctx.conflicts, won) => VotesTrue(m'.ctx.conflicts, won)
  PROVE  LogInv' /\ (VotesApart /\ VoteInv => VoteInv')
<1>1. TransfersTrue(m'.ctx, selected)
  BY DEF LogInv, TransfersTrue
<1> QED
  BY <1>1 DEF LogInv, VoteInv

LEMMA BothOrders ==
  ASSUME NEW e, NEW f, NEW y \in HandleBoth(e, f)
  PROVE  \/ \E x \in Handle(m, e) : y \in Handle(x, f)
         \/ \E x \in Handle(m, f) : y \in Handle(x, e)
<1>1. PICK S \in {Handle(x, f) : x \in Handle(m, e)} \cup {Handle(x, e) : x \in Handle(m, f)} : y \in S
  BY DEF HandleBoth
<1> QED
  BY <1>1

LEMMA ComponentLines ==
  ASSUME Good(m), UuidsTrue, now \in Times, NEW p \in BOOLEAN, NEW v \in Views,
         NEW y \in HandleBoth(Component(p, v), OwnIndex("RegexMyIDXFromComponent", v))
  PROVE  Good(y) /\ SameRest(m, y)
<1>1. PICK e : e = Component(p, v)
  OBVIOUS
<1>2. PICK f : f = OwnIndex("RegexMyIDXFromComponent", v)
  OBVIOUS
<1>3. \/ \E x \in Handle(m, e) : y \in Handle(x, f)
      \/ \E x \in Handle(m, f) : y \in Handle(x, e)
  BY <1>1, <1>2, BothOrders
<1>4. ASSUME NEW x \in Handle(m, e), y \in Handle(x, f) PROVE Good(y) /\ SameRest(m, y)
  <2>1. Good(x) /\ SameRest(m, x)
    BY <1>1, ComponentLineGood
  <2>2. Good(y) /\ SameRest(x, y)
    BY <1>2, <1>4, <2>1, OwnIndexLineGood
  <2> QED
    BY <2>1, <2>2 DEF SameRest
<1>5. ASSUME NEW x \in Handle(m, f), y \in Handle(x, e) PROVE Good(y) /\ SameRest(m, y)
  <2>1. Good(x) /\ SameRest(m, x)
    BY <1>2, OwnIndexLineGood
  <2>2. Good(y) /\ SameRest(x, y)
    BY <1>1, <1>5, <2>1, ComponentLineGood
  <2> QED
    BY <2>1, <2>2 DEF SameRest
<1> QED
  BY <1>3, <1>4, <1>5

LEMMA EstablishedLines ==
  ASSUME Good(m), UuidsTrue, now \in Times, NEW n \in Printed,
         NEW y \in HandleBoth(Established(n), OwnUUID("RegexOwnUUIDFromEstablished"))
  PROVE  Good(y) /\ SameRest(m, y)
<1>1. PICK e : e = Established(n)
  OBVIOUS
<1>2. PICK f : f = OwnUUID("RegexOwnUUIDFromEstablished")
  OBVIOUS
<1>3. \/ \E x \in Handle(m, e) : y \in Handle(x, f)
      \/ \E x \in Handle(m, f) : y \in Handle(x, e)
  BY <1>1, <1>2, BothOrders
<1>4. ASSUME NEW x \in Handle(m, e), y \in Handle(x, f) PROVE Good(y) /\ SameRest(m, y)
  <2>1. Good(x) /\ SameRest(m, x)
    BY <1>1, EstablishedLineGood
  <2>2. Good(y) /\ SameRest(x, y)
    BY <1>2, <1>4, <2>1, OwnUUIDLineGood
  <2> QED
    BY <2>1, <2>2 DEF SameRest
<1>5. ASSUME NEW x \in Handle(m, f), y \in Handle(x, e) PROVE Good(y) /\ SameRest(m, y)
  <2>1. Good(x) /\ SameRest(m, x)
    BY <1>2, OwnUUIDLineGood
  <2>2. Good(y) /\ SameRest(x, y)
    BY <1>1, <1>5, <2>1, EstablishedLineGood
  <2> QED
    BY <2>1, <2>2 DEF SameRest
<1> QED
  BY <1>3, <1>4, <1>5

LEMMA IdentityStep == ASSUME LogInv, UuidsTrue, Identity PROVE Good(m') /\ SameRest(m, m')
<1>1. Good(m) /\ now \in Times
  BY DEF LogInv
<1>2. PICK y : y = m'
  OBVIOUS
<1>3. \/ \E n \in Printed : y \in Handle(m, Peer("RegexNodeJoined", n))
      \/ \E n \in Printed : y \in Handle(m, NewIdentity(n))
      \/ y \in Handle(m, [Line("RegexBaseHost") EXCEPT !.ip = IPOf[Self]])
      \/ y \in Handle(m, OwnUUID("RegexOwnUUID"))
      \/ \E p \in BOOLEAN, v \in Views :
           y \in HandleBoth(Component(p, v), OwnIndex("RegexMyIDXFromComponent", v))
      \/ \E n \in Printed : y \in HandleBoth(Established(n), OwnUUID("RegexOwnUUIDFromEstablished"))
  BY <1>2, Zenon DEF Identity, Read, ReadBoth, Leads
<1>4. Good(y) /\ SameRest(m, y)
  <2>1. ASSUME NEW n \in Printed, y \in Handle(m, Peer("RegexNodeJoined", n)) PROVE Good(y) /\ SameRest(m, y)
    BY <1>1, <2>1, JoinedLineGood
  <2>2. ASSUME NEW n \in Printed, y \in Handle(m, NewIdentity(n)) PROVE Good(y) /\ SameRest(m, y)
    BY <1>1, <2>2, NewIdentityLineGood
  <2>3. CASE y \in Handle(m, [Line("RegexBaseHost") EXCEPT !.ip = IPOf[Self]])
    BY <1>1, <2>3, BaseHostLineGood
  <2>4. CASE y \in Handle(m, OwnUUID("RegexOwnUUID"))
    BY <1>1, <2>4, OwnUUIDLineGood
  <2> QED
    BY <1>1, <1>3, <2>1, <2>2, <2>3, <2>4, ComponentLines, EstablishedLines
<1> QED
  BY <1>2, <1>4

\* Lines read one after the other.
AllOf(S, e) == UNION {Handle(x, e) : x \in S}
After(g, es, k) == [i \in 0..k |-> IF i = 0 THEN {m} ELSE AllOf(g[i - 1], es[i])]

LEMMA AfterExists == ASSUME NEW es, NEW N \in Nat PROVE \E g : g = After(g, es, N)
<1> DEFINE F(g, k) == After(g, es, k)
           T == {k \in Nat : ~\E g : g = F(g, k)}
<1> SUFFICES ASSUME T # {} PROVE FALSE
  OBVIOUS
<1> HIDE DEF F
<1>1. PICK k \in T : \A j \in T : k <= j
  BY LeastNumber
<1>2. k # 0
  <2>1. [i \in 0..0 |-> {m}] = F([i \in 0..0 |-> {m}], 0)
    BY DEF F, After
  <2> QED
    BY <1>1, <2>1
<1>3. k \in Nat /\ k - 1 \in Nat
  BY <1>1, <1>2
<1>4. PICK f : f = F(f, k - 1)
  BY <1>1, <1>3
<1> DEFINE g == [i \in 0..k |-> IF i = k THEN AllOf(f[k - 1], es[k]) ELSE f[i]]
<1>5. g = F(g, k)
  <2>1. ASSUME NEW i \in 0..k
        PROVE  g[i] = IF i = 0 THEN {m} ELSE AllOf(g[i - 1], es[i])
    <3>1. CASE i = k
      BY <1>2, <1>3, <3>1
    <3>2. CASE i # k
      <4>1. i \in 0..(k - 1) /\ g[i] = f[i]
        BY <1>3, <3>2
      <4>2. f[i] = IF i = 0 THEN {m} ELSE AllOf(f[i - 1], es[i])
        BY <1>4, <4>1 DEF F, After
      <4>3. i # 0 => g[i - 1] = f[i - 1]
        BY <1>3, <3>2
      <4> QED
        BY <4>1, <4>2, <4>3
    <3> QED
      BY <3>1, <3>2
  <2> QED
    BY <2>1 DEF F, After
<1> QED
  BY <1>1, <1>5

\* What is left after each of the lines.
InTurn(after, es, N, y) ==
  /\ after[0] = {m} /\ y \in after[N]
  /\ \A i \in 1..N : after[i] = AllOf(after[i - 1], es[i])

LEMMA HandledInTurn ==
  ASSUME NEW es, NEW N \in Nat, N = Len(es), NEW y, y \in HandleAll(es)
  PROVE  \E after : InTurn(after, es, N, y)
<1> DEFINE g == CHOOSE f : f = After(f, es, Len(es))
<1>1. y \in g[N]
  BY Zenon DEF HandleAll, After, AllOf
<1>2. g = After(g, es, N)
  BY AfterExists
<1> HIDE DEF g
<1>3. PICK after : after = g
  OBVIOUS
<1>4. after = [i \in 0..N |-> IF i = 0 THEN {m} ELSE AllOf(after[i - 1], es[i])]
  BY <1>2, <1>3 DEF After
<1>5. after[0] = {m}
  <2>1. 0 \in 0..N
    OBVIOUS
  <2> QED
    BY <1>4, <2>1
<1>6. ASSUME NEW i \in 1..N PROVE after[i] = AllOf(after[i - 1], es[i])
  <2>1. i \in 0..N /\ i # 0
    OBVIOUS
  <2> QED
    BY <1>4, <2>1
<1>7. InTurn(after, es, N, y)
  BY <1>1, <1>3, <1>5, <1>6 DEF InTurn
<1> QED
  BY <1>7

\* The lines of a view, one after the other.
LEMMA ViewLinesAre ==
  ASSUME NEW v \in Views, NEW cut, NEW L, L = ViewLines(v, cut)
  PROVE  /\ Len(v) \in Nat /\ Len(L) = Len(v) + 2
         /\ \E S : L \in Seq(S)
         /\ L[1] = OwnIndex("RegexOwnIndexFromView", v) /\ L[2] = Count(v)
         /\ \A i \in 3..Len(L) : /\ i - 2 \in DOMAIN v
                                 /\ L[i] = [Member(v, i - 2) EXCEPT !.truncated = v[i - 2] \in cut]
<1> DEFINE told(i) == [Member(v, i) EXCEPT !.truncated = v[i] \in cut]
           S == {OwnIndex("RegexOwnIndexFromView", v), Count(v)} \cup {told(i) : i \in DOMAIN v}
<1>1. Len(v) \in Nat /\ DOMAIN v = 1..Len(v)
  <2>1. v \in Seq(Printed)
    BY ViewsAssumption
  <2> QED
    BY <2>1
<1>2. PICK a : a = <<OwnIndex("RegexOwnIndexFromView", v), Count(v)>>
  OBVIOUS
<1>3. PICK b : b = [i \in DOMAIN v |-> told(i)]
  OBVIOUS
<1>4. L = a \o b
  BY <1>2, <1>3, Zenon DEF ViewLines
<1>5. PICK U : U = S
  OBVIOUS
<1> HIDE DEF told
<1>6. a \in Seq(U) /\ Len(a) = 2 /\ a[1] = OwnIndex("RegexOwnIndexFromView", v) /\ a[2] = Count(v)
  BY <1>2, <1>5
<1>7. b \in Seq(U) /\ Len(b) = Len(v) /\ \A i \in 1..Len(v) : b[i] = told(i)
  BY <1>1, <1>3, <1>5
<1>20. /\ L \in Seq(U) /\ Len(L) = Len(a) + Len(b)
       /\ \A i \in 1..Len(a) + Len(b) : L[i] = IF i <= Len(a) THEN a[i] ELSE b[i - Len(a)]
  <2>1. a \in Seq(U) /\ b \in Seq(U)
    BY <1>6, <1>7
  <2> QED
    BY <1>4, <2>1, ConcatProperties, Zenon
<1>8. L \in Seq(U) /\ Len(L) = 2 + Len(v)
  BY <1>6, <1>7, <1>20
<1>9. ASSUME NEW i \in 1..2 + Len(v) PROVE L[i] = IF i <= 2 THEN a[i] ELSE b[i - 2]
  BY <1>6, <1>7, <1>20
<1>10. L[1] = a[1] /\ L[2] = a[2]
  <2>1. 1 \in 1..2 + Len(v) /\ 2 \in 1..2 + Len(v)
    BY <1>1
  <2> QED
    BY <1>9, <2>1
<1>11. ASSUME NEW i \in 3..Len(L) PROVE i - 2 \in 1..Len(v) /\ L[i] = told(i - 2)
  <2>1. i \in 1..2 + Len(v) /\ ~(i <= 2) /\ i - 2 \in 1..Len(v)
    BY <1>1, <1>8
  <2> QED
    BY <1>7, <1>9, <2>1
<1> USE DEF told
<1> QED
  BY <1>1, <1>6, <1>8, <1>10, <1>11

\* A line that leaves what was learnt of the view as it is, read after others.
NoIndex(x) == x.ctx.myIdx = ""
TakenIn(x, own) == Knows(x, own) /\ SameRest(m, x)
Keeps(e, own) == \A x : Knows(x, own) => \A z \in Handle(x, e) : Knows(z, own) /\ SameRest(x, z)

LEMMA KeptOn ==
  ASSUME NEW S, NEW e, NEW own, \A x \in S : TakenIn(x, own), Keeps(e, own)
  PROVE  \A z \in AllOf(S, e) : TakenIn(z, own)
<1> TAKE z \in AllOf(S, e)
<1>1. PICK x \in S : z \in Handle(x, e)
  BY DEF AllOf
<1>2. TakenIn(x, own)
  BY <1>1
<1>3. Knows(z, own) /\ SameRest(x, z)
  BY <1>1, <1>2, Zenon DEF Keeps, TakenIn
<1> QED
  BY <1>2, <1>3 DEF TakenIn, SameRest

LEMMA ReadOn ==
  ASSUME NEW N \in Nat, NEW es, NEW after, NEW own, \A z \in after[1] : TakenIn(z, own),
         \A i \in 2..N : after[i] = AllOf(after[i - 1], es[i]) /\ Keeps(es[i], own)
  PROVE  \A k \in 1..N : \A x \in after[k] : TakenIn(x, own)
<1> DEFINE Done(k) == \A x \in after[k] : TakenIn(x, own)
<1>1. Done(1)
  OBVIOUS
<1>2. ASSUME NEW i \in 2..N, Done(i - 1) PROVE Done(i)
  BY <1>2, KeptOn
<1> DEFINE T == {k \in 1..N : ~Done(k)}
<1> HIDE DEF Done
<1> SUFFICES ASSUME T # {} PROVE FALSE
  BY DEF Done
<1>3. T \in SUBSET Nat
  OBVIOUS
<1>4. PICK k \in T : \A j \in T : k <= j
  BY <1>3, LeastNumber
<1>5. k \in 2..N
  BY <1>1, <1>4
<1>6. k - 1 \in 1..N /\ ~(k <= k - 1)
  BY <1>5
<1>7. Done(k - 1)
  BY <1>4, <1>6
<1> QED
  BY <1>2, <1>4, <1>5, <1>7

LEMMA ViewLineKeeps ==
  ASSUME UuidsTrue, now \in Times, NEW v \in Views, NEW cut, NEW L, L = ViewLines(v, cut),
         NEW i \in 2..Len(L)
  PROVE  Keeps(L[i], OwnIdx(v))
<1> SUFFICES ASSUME NEW x, Knows(x, OwnIdx(v)), NEW z \in Handle(x, L[i])
             PROVE  Knows(z, OwnIdx(v)) /\ SameRest(x, z)
  BY DEF Keeps
<1>1. PICK e : e = L[i]
  OBVIOUS
<1>2. CASE i = 2
  <2>1. e = Count(v) /\ z \in Handle(x, e)
    BY <1>1, <1>2, ViewLinesAre
  <2> QED
    BY <2>1, CountLineGood
<1>3. CASE i # 2
  <2>1. i \in 3..Len(L)
    BY <1>3
  <2>2. PICK j \in DOMAIN v : e = [Member(v, j) EXCEPT !.truncated = v[j] \in cut]
    BY <1>1, <2>1, ViewLinesAre
  <2>3. PICK c \in BOOLEAN : e = [Member(v, j) EXCEPT !.truncated = c]
    <3>1. (v[j] \in cut) \in BOOLEAN
      OBVIOUS
    <3> QED
      BY <2>2, <3>1, Zenon
  <2>4. z \in Handle(x, e)
    BY <1>1
  <2> QED
    BY <2>3, <2>4, MemberLineGood
<1> QED
  BY <1>2, <1>3

LEMMA ViewRead ==
  ASSUME Good(m), UuidsTrue, now \in Times, NEW v \in Views, NEW cut, NEW L, L = ViewLines(v, cut),
         NEW from \in 1..Len(L), from = 1 \/ NoIndex(m),
         NEW es, es = SubSeq(L, from, Len(L)), NEW y, y \in HandleAll(es)
  PROVE  Good(y) /\ SameRest(m, y)
<1>1. PICK M \in Nat : M = Len(L)
  BY ViewLinesAre
<1>2. PICK N \in Nat : N = M - from + 1 /\ 1 \in 1..N /\ N \in 1..N
  <2>1. M - from + 1 \in Nat /\ M - from + 1 >= 1
    BY <1>1
  <2> QED
    BY <2>1
<1>3. Len(es) = N /\ \A i \in 1..N : es[i] = L[from + i - 1]
  <2>1. PICK S : L \in Seq(S)
    BY ViewLinesAre
  <2>2. from \in Int /\ M \in Int /\ from <= M
    BY <1>1
  <2>3. ASSUME NEW i \in from..M PROVE L[i] \in S
    <3>1. i \in 1..Len(L)
      BY <1>1
    <3> QED
      BY <2>1, <3>1, ElementOfSeq
  <2>4. es = SubSeq(L, from, M)
    BY <1>1, Zenon
  <2>5. /\ Len(es) = IF from <= M THEN M - from + 1 ELSE 0
        /\ \A i \in 1..M - from + 1 : es[i] = L[from + i - 1]
    BY <2>2, <2>3, <2>4, SubSeqProperties
  <2> QED
    BY <1>2, <2>2, <2>5
<1>4. PICK after : /\ after[0] = {m} /\ y \in after[N]
                   /\ \A i \in 1..N : after[i] = AllOf(after[i - 1], es[i])
  <2>1. N = Len(es)
    BY <1>3
  <2>2. PICK g : InTurn(g, es, N, y)
    BY <2>1, HandledInTurn
  <2> QED
    BY <2>2 DEF InTurn
<1>5. \A z \in after[1] : TakenIn(z, OwnIdx(v))
  <2> TAKE z \in after[1]
  <2>1. z \in Handle(m, es[1]) /\ es[1] = L[from]
    <3>1. from + 1 - 1 = from
      OBVIOUS
    <3>2. es[1] = L[from]
      BY <1>2, <1>3, <3>1, Zenon
    <3>3. z \in AllOf({m}, es[1])
      <4>1. 1 - 1 = 0
        OBVIOUS
      <4>2. after[1] = AllOf(after[1 - 1], es[1])
        BY <1>2, <1>4, Zenon
      <4> QED
        BY <1>4, <4>1, <4>2
    <3> QED
      BY <3>2, <3>3, Zenon DEF AllOf
  <2>2. CASE from = 1
    <3>1. es[1] = OwnIndex("RegexOwnIndexFromView", v)
      BY <2>1, <2>2, ViewLinesAre
    <3>2. Good(z) /\ SameRest(m, z) /\ z.ctx.myIdx = OwnIdx(v)
      BY <2>1, <3>1, OwnIndexLineGood
    <3> QED
      BY <3>2 DEF TakenIn, Knows
  <2>3. CASE from # 1
    <3>1. Knows(m, OwnIdx(v))
      BY <2>3 DEF Knows, NoIndex
    <3>2. from \in 2..Len(L)
      BY <1>1, <2>3
    <3>3. Keeps(L[from], OwnIdx(v))
      BY <3>2, ViewLineKeeps
    <3> QED
      BY <2>1, <3>1, <3>3 DEF Keeps, TakenIn
  <2> QED
    BY <2>2, <2>3
<1>6. ASSUME NEW i \in 2..N PROVE after[i] = AllOf(after[i - 1], es[i]) /\ Keeps(es[i], OwnIdx(v))
  <2>1. i \in 1..N
    OBVIOUS
  <2>2. PICK j \in 2..M : j = from + i - 1
    <3>1. from + i - 1 \in 2..M
      BY <1>1, <1>2
    <3> QED
      BY <3>1
  <2>3. es[i] = L[j] /\ j \in 2..Len(L)
    BY <1>1, <1>3, <2>1, <2>2
  <2> QED
    BY <1>4, <2>1, <2>3, ViewLineKeeps
<1>7. \A x \in after[N] : TakenIn(x, OwnIdx(v))
  <2>1. \A k \in 1..N : \A x \in after[k] : TakenIn(x, OwnIdx(v))
    BY <1>5, <1>6, ReadOn, Zenon
  <2> QED
    BY <1>2, <2>1, Zenon
<1> QED
  BY <1>4, <1>7 DEF TakenIn, Knows

LEMMA ViewStep == ASSUME LogInv, UuidsTrue, LinesInv, View PROVE Good(m') /\ SameRest(m, m')
<1>1. Good(m) /\ now \in Times
  BY DEF LogInv
<1>2. PICK y : y = m'
  OBVIOUS
<1>3. PICK v \in Views : \E cut, L, from :
        /\ L = ViewLines(v, cut) /\ from \in 1..Len(L) /\ (from = 1 \/ lines = 0)
        /\ y \in HandleAll(SubSeq(L, from, Len(L)))
  BY <1>2, Zenon DEF View, Leads
<1>4. PICK cut, L, from :
        /\ L = ViewLines(v, cut) /\ from \in 1..Len(L) /\ (from = 1 \/ lines = 0)
        /\ y \in HandleAll(SubSeq(L, from, Len(L)))
  BY <1>3
<1>5. PICK es : es = SubSeq(L, from, Len(L))
  OBVIOUS
<1>6. from = 1 \/ NoIndex(m)
  BY <1>4 DEF LinesInv, NoIndex
<1>7. y \in HandleAll(es)
  BY <1>4, <1>5, Zenon
<1>8. Good(y) /\ SameRest(m, y)
  BY <1>1, <1>4, <1>5, <1>6, <1>7, ViewRead
<1> QED
  BY <1>2, <1>8

LEMMA QuietLines ==
  ASSUME LogInv, UuidsTrue, OwnName \/ OwnAddress \/ States \/ Events \/ Transfer PROVE Good(m') /\ SameRest(m, m')
<1>1. Good(m) /\ now \in Times /\ TransfersTrue(m.ctx, selected) /\ Apart(selected, now)
  BY DEF LogInv
<1>2. CASE OwnName
  <2>1. PICK e : e = [Line("RegexNodeNameFromEnv") EXCEPT !.name = Short[Self]] /\ m' \in Handle(m, e)
    BY <1>2 DEF OwnName, Read, Leads
  <2>2. Accepted(e) /\ e.re = "RegexNodeNameFromEnv" /\ e.name = Short[Self] /\ e.ts = now
    BY <1>1, <2>1, LineOfSelf
  <2> QED
    BY <1>1, <2>1, <2>2, OwnNameLineGood
<1>3. CASE OwnAddress
  <2>1. PICK e : e = [Line("RegexNodeIPFromEnv") EXCEPT !.ip = IPOf[Self]] /\ m' \in Handle(m, e)
    BY <1>3 DEF OwnAddress, Read, Leads
  <2>2. Accepted(e) /\ e.re = "RegexNodeIPFromEnv" /\ e.ip = IPOf[Self] /\ e.ts = now
    BY <1>1, <2>1, LineOfSelf
  <2> QED
    BY <1>1, <2>1, <2>2, OwnAddressLineGood
<1>4. CASE States
  <2>1. PICK s \in {"SYNCED", "CLOSED"} : m' \in Handle(m, [Line("RegexShift") EXCEPT !.state2 = s])
    BY <1>4 DEF States, Read, Leads
  <2> QED
    BY <1>1, <2>1, StateLineGood
<1>5. CASE Events
  <2>1. PICK re \in DOMAIN EventState : m' \in Handle(m, [Line(re) EXCEPT !.version = "8.0"])
    BY <1>5 DEF Events, Read, Leads
  <2> QED
    BY <1>1, <2>1, EventLineGood
<1>6. CASE Transfer
  <2>1. PICK s \in selected :
          /\ now - s.at <= 1
          /\ \/ s.joiner = Short[Self] /\ m' \in Handle(m, [Line("RegexShift") EXCEPT !.state2 = "JOINER"])
             \/ s.donor = Short[Self] /\ m' \in Handle(m, [Line("RegexShift") EXCEPT !.state2 = "DONOR"])
    BY <1>6 DEF Transfer, Read, Leads
  <2>2. PICK st : /\ (st = "JOINER" /\ s.joiner = Short[Self]) \/ (st = "DONOR" /\ s.donor = Short[Self])
                  /\ m' \in Handle(m, [Line("RegexShift") EXCEPT !.state2 = st])
    BY <2>1
  <2> QED
    BY <1>1, <2>1, <2>2, TransferLineGood
<1> QED
  BY <1>2, <1>3, <1>4, <1>5, <1>6

LEMMA NowIsTime == now \in Times => now \in Nat /\ now \in 1..now
<1> SUFFICES ASSUME now \in Times PROVE now \in Nat /\ now \in 1..now
  OBVIOUS
<1>1. MaxTime \in Nat
  BY TimesAssumption
<1>2. now \in Nat /\ 1 <= now
  BY <1>1 DEF Times
<1> QED
  BY <1>2

LEMMA TransferSteps ==
  ASSUME LogInv, SelectDonor \/ Progress \/ TransferEnds
  PROVE  LogInv' /\ (VoteInv => VoteInv')
<1>1. Good(m) /\ now \in Times /\ TransfersTrue(m.ctx, selected) /\ Apart(selected, now)
      /\ voting \in {""} \cup Seqnos
  BY DEF LogInv
<1>2. SUFFICES /\ Good(m') /\ m'.ctx.conflicts = m.ctx.conflicts
               /\ TransfersTrue(m'.ctx, selected') /\ Apart(selected', now)
               /\ UNCHANGED <<topic, now, won, voting>>
  BY <1>1 DEF LogInv, VoteInv
<1>3. CASE SelectDonor
  <2>1. PICK donor \in Printed, joiner \in Printed :
          /\ \A s \in selected : s.at < now - 1
          /\ m' \in Handle(m, [Line("RegexSSTRequestSuccess") EXCEPT !.name = joiner, !.donor = donor, !.selected = now])
          /\ selected' = selected \cup {[donor |-> Short[donor], joiner |-> Short[joiner], at |-> now]}
          /\ UNCHANGED <<topic, now, won, voting>>
    BY <1>3 DEF SelectDonor, Read, Leads
  <2>2. Good(m') /\ m'.ctx.conflicts = m.ctx.conflicts /\ TransfersTrue(m'.ctx, selected')
    <3>1. PICK e : e = [Line("RegexSSTRequestSuccess") EXCEPT !.name = joiner, !.donor = donor, !.selected = now]
      OBVIOUS
    <3>2. m' \in Handle(m, e)
      BY <2>1, <3>1
    <3> DEFINE sel == selected \cup {[donor |-> Short[donor], joiner |-> Short[joiner], at |-> now]}
    <3>3. Good(m') /\ m'.ctx.conflicts = m.ctx.conflicts /\ TransfersTrue(m'.ctx, sel)
      BY <1>1, <3>1, <3>2, SelectedLineGood
    <3> QED
      BY <2>1, <3>3
  <2>3. Apart(selected', now)
    <3> DEFINE r == [donor |-> Short[donor], joiner |-> Short[joiner], at |-> now]
    <3>1. now \in 1..now /\ now \in Nat
      BY <1>1, NowIsTime
    <3>2. r \in [donor : Members, joiner : Members, at : 1..now] /\ r.at = now
      BY <3>1 DEF Members
    <3> HIDE DEF r
    <3>3. selected \subseteq [donor : Members, joiner : Members, at : 1..now]
          /\ \A p, s \in selected : p = s \/ p.at + 1 < s.at \/ s.at + 1 < p.at
      BY <1>1 DEF Apart
    <3>4. \A s \in selected : s.at + 1 < r.at
      <4>1. \A s \in selected : s.at \in 1..now
        BY <3>3
      <4> QED
        BY <2>1, <3>1, <3>2, <4>1
    <3>5. selected' = selected \cup {r}
      BY <2>1 DEF r
    <3> QED
      BY <3>2, <3>3, <3>4, <3>5 DEF Apart
  <2> QED
    BY <2>1, <2>2, <2>3
<1>4. CASE Progress
  <2>1. PICK re \in DOMAIN SSTStage : m' \in Handle(m, [Line(re) EXCEPT !.seqno = "0"])
    BY <1>4 DEF Progress, Read, Leads
  <2>2. UNCHANGED truth
    BY <1>4 DEF Progress
  <2>3. Good(m') /\ m'.ctx.conflicts = m.ctx.conflicts /\ TransfersTrue(m'.ctx, selected)
    BY <1>1, <2>1, ProgressLineGood
  <2> QED
    BY <1>1, <2>2, <2>3 DEF truth
<1>5. CASE TransferEnds
  <2>1. PICK y : y = m'
    OBVIOUS
  <2>2. PICK k : \/ \E re \in SSTEnds : y \in Handle(m, Over(re, k))
                 \/ \E re, other \in SSTEnds : y \in HandleBoth(Over(re, k), NamelessOver(other, k))
    BY <1>5, <2>1 DEF TransferEnds, Read, ReadBoth, Leads, SSTEnds
  <2>3. UNCHANGED truth
    BY <1>5 DEF TransferEnds
  <2>4. Good(y) /\ y.ctx.conflicts = m.ctx.conflicts /\ TransfersTrue(y.ctx, selected)
    <3>1. ASSUME NEW re \in SSTEnds, y \in Handle(m, Over(re, k))
          PROVE  Good(y) /\ y.ctx.conflicts = m.ctx.conflicts /\ TransfersTrue(y.ctx, selected)
      BY <1>1, <3>1, OverLineGood
    <3>2. ASSUME NEW re \in SSTEnds, NEW other \in SSTEnds,
                 y \in HandleBoth(Over(re, k), NamelessOver(other, k))
          PROVE  Good(y) /\ y.ctx.conflicts = m.ctx.conflicts /\ TransfersTrue(y.ctx, selected)
      <4>1. PICK e : e = Over(re, k)
        OBVIOUS
      <4>2. PICK f : f = NamelessOver(other, k)
        OBVIOUS
      <4>3. \/ \E x \in Handle(m, e) : y \in Handle(x, f)
            \/ \E x \in Handle(m, f) : y \in Handle(x, e)
        BY <3>2, <4>1, <4>2, BothOrders
      <4>4. ASSUME NEW x \in Handle(m, e), y \in Handle(x, f)
            PROVE  Good(y) /\ y.ctx.conflicts = m.ctx.conflicts /\ TransfersTrue(y.ctx, selected)
        <5>1. Good(x) /\ x.ctx.conflicts = m.ctx.conflicts /\ TransfersTrue(x.ctx, selected)
          BY <1>1, <4>1, OverLineGood
        <5> QED
          BY <4>2, <4>4, <5>1, NamelessLineGood
      <4>5. ASSUME NEW x \in Handle(m, f), y \in Handle(x, e)
            PROVE  Good(y) /\ y.ctx.conflicts = m.ctx.conflicts /\ TransfersTrue(y.ctx, selected)
        <5>1. Good(x) /\ x.ctx.conflicts = m.ctx.conflicts /\ TransfersTrue(x.ctx, selected)
          BY <1>1, <4>2, NamelessLineGood
        <5>2. now \in Times
          BY <1>1
        <5>3. Good(y) /\ y.ctx.conflicts = x.ctx.conflicts /\ TransfersTrue(y.ctx, selected)
          BY <4>1, <4>5, <5>1, <5>2, OverLineGood
        <5> QED
          BY <5>1, <5>3
      <4> QED
        BY <4>3, <4>4, <4>5
    <3> QED
      BY <2>2, <3>1, <3>2
  <2> QED
    BY <1>1, <2>1, <2>3, <2>4 DEF truth
<1> QED
  BY <1>3, <1>4, <1>5

\* While a vote is held, it has no winner yet.
LEMMA VoteSteps ==
  ASSUME LogInv, InitVote \/ Respond \/ Recompute
  PROVE  LogInv' /\ (VotesApart /\ VoteInv => VoteInv')
<1>1. Good(m) /\ now \in Times /\ voting \in {""} \cup Seqnos
  BY DEF LogInv
<1>2. CASE InitVote
  <2>1. PICK s \in Seqnos, n \in Voters, q \in Sums :
          /\ won[s] = "" /\ q \in MD5s[s]
          /\ m' \in Handle(m, [Line("RegexInconsistencyVoteInit") EXCEPT !.name = n, !.seqno = s, !.md5 = q])
          /\ voting' = s /\ UNCHANGED <<topic, now, selected, won>>
    BY <1>2 DEF InitVote, Read, Leads, Sums
  <2>2. PICK e : e = [Line("RegexInconsistencyVoteInit") EXCEPT !.name = n, !.seqno = s, !.md5 = q]
    OBVIOUS
  <2>3. Accepted(e) /\ e.re = "RegexInconsistencyVoteInit" /\ e.name = n /\ e.seqno = s /\ e.md5 = q
    BY <1>1, <2>2 DEF Line, Accepted
  <2>4. /\ Good(m') /\ m'.ctx.ssts = m.ctx.ssts
        /\ VotesTrue(m.ctx.conflicts, won) => VotesTrue(m'.ctx.conflicts, won)
    <3>1. m' \in Handle(m, e)
      BY <2>1, <2>2
    <3> QED
      BY <1>1, <2>1, <2>3, <3>1, InitLineGood
  <2> QED
    BY <2>1, <2>4, VotingStep
<1>3. CASE Respond \/ Recompute
  <2>1. voting \in Seqnos /\ UNCHANGED truth
    BY <1>1, <1>3 DEF Respond, Recompute
  <2>2. /\ Good(m') /\ m'.ctx.ssts = m.ctx.ssts
        /\ VotesApart /\ VotesTrue(m.ctx.conflicts, won) => VotesTrue(m'.ctx.conflicts, won)
    <3>1. CASE Recompute
      <4>1. PICK a \in MD5s[voting], b \in MD5s[voting] :
              m' \in Handle(m, [Line("RegexInconsistencyVoteRecomputed") EXCEPT !.oldMD5 = a, !.md5 = b])
        BY <3>1 DEF Recompute, Read, Leads
      <4>2. PICK e : e = [Line("RegexInconsistencyVoteRecomputed") EXCEPT !.oldMD5 = a, !.md5 = b]
        OBVIOUS
      <4>3. Accepted(e) /\ e.re = "RegexInconsistencyVoteRecomputed" /\ e.oldMD5 = a /\ e.md5 = b
        BY <1>1, <4>2 DEF Line, Accepted
      <4>4. m' \in Handle(m, e)
        BY <4>1, <4>2
      <4> QED
        BY <1>1, <2>1, <4>3, <4>4, RecomputeLineGood
    <3>2. ASSUME NEW n \in Voters, NEW q \in MD5s[voting],
                 NEW re \in {"RegexInconsistencyVoteRespond", "RegexInconsistencyRecovery"},
                 m' \in Handle(m, [Line(re) EXCEPT !.name = n, !.seqno = voting, !.md5 = q])
          PROVE  /\ Good(m') /\ m'.ctx.ssts = m.ctx.ssts
                 /\ VotesTrue(m.ctx.conflicts, won) => VotesTrue(m'.ctx.conflicts, won)
      <4>1. PICK e : e = [Line(re) EXCEPT !.name = n, !.seqno = voting, !.md5 = q]
        OBVIOUS
      <4>2. Accepted(e) /\ e.re = re /\ e.name = n /\ e.seqno = voting /\ e.md5 = q
        BY <1>1, <4>1 DEF Line, Accepted
      <4>3. m' \in Handle(m, e)
        BY <3>2, <4>1
      <4> QED
        BY <1>1, <2>1, <4>2, <4>3, AnswerLineGood
    <3>3. ASSUME Success \in MD5s[voting],
                 m' \in Handle(m, [Line("RegexInconsistencyVoteInconsistentWithGroup") EXCEPT !.seqno = voting])
          PROVE  /\ Good(m') /\ m'.ctx.ssts = m.ctx.ssts
                 /\ VotesTrue(m.ctx.conflicts, won) => VotesTrue(m'.ctx.conflicts, won)
      <4>1. PICK e : e = [Line("RegexInconsistencyVoteInconsistentWithGroup") EXCEPT !.seqno = voting]
        OBVIOUS
      <4>2. Accepted(e) /\ e.re = "RegexInconsistencyVoteInconsistentWithGroup" /\ e.seqno = voting
        BY <1>1, <4>1 DEF Line, Accepted
      <4>3. m' \in Handle(m, e)
        BY <3>3, <4>1
      <4> QED
        BY <1>1, <2>1, <3>3, <4>2, <4>3, GroupLineGood
    <3>4. CASE Respond
      BY <3>2, <3>3, <3>4 DEF Respond, Read, Leads
    <3> QED
      BY <1>3, <3>1, <3>4
  <2>3. VoteInv => (voting' # "" => won[voting'] = "")
    BY <2>1 DEF VoteInv, truth
  <2>4. TransfersTrue(m'.ctx, selected)
    BY <2>2 DEF LogInv, TransfersTrue
  <2>5. LogInv'
    BY <1>1, <2>1, <2>2, <2>4 DEF LogInv, truth
  <2>6. VotesApart /\ VoteInv => VoteInv'
    BY <2>1, <2>2, <2>3 DEF VoteInv, truth
  <2> QED
    BY <2>5, <2>6
<1> QED
  BY <1>2, <1>3

LEMMA WinnerStep ==
  ASSUME LogInv, Winner PROVE LogInv' /\ (VotesApart /\ VoteInv => VoteInv')
<1>1. Good(m) /\ now \in Times /\ voting \in Seqnos
  BY DEF LogInv, Winner
<1>2. PICK q \in MD5s[voting] :
        /\ m' \in Handle(m, [Line("RegexInconsistencyWinner") EXCEPT !.md5 = q])
        /\ won' = [won EXCEPT ![voting] = q]
  BY DEF Winner, Read, Leads
<1>3. voting' = "" /\ UNCHANGED <<topic, now, selected>>
  BY DEF Winner
<1>4. PICK e : e = [Line("RegexInconsistencyWinner") EXCEPT !.md5 = q]
  OBVIOUS
<1>5. Accepted(e) /\ e.re = "RegexInconsistencyWinner" /\ e.md5 = q
  BY <1>1, <1>4 DEF Line, Accepted
<1>6. /\ Good(m') /\ m'.ctx.ssts = m.ctx.ssts
      /\ VotesApart => \A w : DOMAIN w = Seqnos /\ w[voting] = "" /\ VotesTrue(m.ctx.conflicts, w)
           => VotesTrue(m'.ctx.conflicts, [w EXCEPT ![voting] = q])
  <2>1. m' \in Handle(m, e)
    BY <1>2, <1>4
  <2> QED
    BY <1>1, <1>5, <2>1, WinnerLineGood
<1>7. TransfersTrue(m'.ctx, selected)
  BY <1>6 DEF LogInv, TransfersTrue
<1>8. LogInv'
  BY <1>3, <1>6, <1>7 DEF LogInv
<1>9. ASSUME VotesApart, VoteInv PROVE VoteInv'
  <2>1. DOMAIN won = Seqnos /\ won[voting] = "" /\ VotesTrue(m.ctx.conflicts, won)
    BY <1>1, <1>9, SeqnosAssumption DEF VoteInv
  <2>2. VotesTrue(m'.ctx.conflicts, won')
    BY <1>2, <1>6, <1>9, <2>1
  <2>3. DOMAIN won' = Seqnos
    BY <1>2, <2>1
  <2> QED
    BY <1>3, <2>2, <2>3 DEF VoteInv
<1> QED
  BY <1>8, <1>9

LEMMA TickStep == ASSUME LogInv, Tick PROVE LogInv' /\ (VoteInv => VoteInv')
<1>1. now' = now + 1 /\ now' \in Times /\ UNCHANGED <<m, selected, won, voting>>
  <2>1. now \in 1..MaxTime /\ MaxTime \in Nat /\ now < MaxTime /\ now' = now + 1
    BY TimesAssumption DEF LogInv, Tick, Times
  <2>2. UNCHANGED <<m, selected, won, voting>>
    BY DEF Tick
  <2> QED
    BY <2>1, <2>2 DEF Times
<1>2. Apart(selected, now')
  <2>1. 1..now \subseteq 1..now'
    <3>1. now \in Nat /\ now' = now + 1
      BY <1>1, NowIsTime DEF LogInv
    <3> QED
      BY <3>1
  <2> QED
    BY <2>1 DEF LogInv, Apart
<1> QED
  BY <1>1, <1>2 DEF LogInv, VoteInv

LEMMA StepGood ==
  ASSUME LogInv, UuidsTrue, LinesInv, topic # "operator", [Next]_vars
  PROVE  LogInv' /\ (VotesApart /\ VoteInv => VoteInv')
<1>1. CASE Tick
  BY <1>1, TickStep
<1>2. CASE Identity \/ View
  <2>1. UNCHANGED truth
    BY <1>2 DEF Identity, View
  <2> QED
    BY <1>2, <2>1, IdentityStep, ViewStep, QuietStep
<1>3. CASE OwnName \/ OwnAddress \/ States \/ Events \/ Transfer
  <2>1. UNCHANGED truth
    BY <1>3 DEF OwnName, OwnAddress, States, Events, Transfer
  <2> QED
    BY <1>3, <2>1, QuietLines, QuietStep
<1>4. CASE SelectDonor \/ Progress \/ TransferEnds
  BY <1>4, TransferSteps
<1>5. CASE InitVote \/ Respond \/ Recompute
  BY <1>5, VoteSteps
<1>6. CASE Winner
  BY <1>6, WinnerStep
<1>7. CASE Restart
  BY <1>7 DEF Restart, LogInv, VoteInv
<1>8. CASE UNCHANGED vars
  BY <1>8 DEF vars, LogInv, VoteInv
<1>9. ~OperatorView
  BY DEF OperatorView
<1> QED
  BY <1>1, <1>2, <1>3, <1>4, <1>5, <1>6, <1>7, <1>8, <1>9 DEF Next

\* Whatever the log is about, and it is about one thing.
LEMMA LinesStep ==
  ASSUME UuidsTrue, LinesInv, [Next]_vars PROVE UuidsTrue' /\ LinesInv' /\ topic' = topic
<1>1. topic' = topic
  <2>1. CASE Tick \/ Identity \/ View \/ OperatorView \/ Restart \/ OwnName \/ OwnAddress \/ States \/ Events
    BY <2>1 DEF Tick, Identity, View, OperatorView, Restart, OwnName, OwnAddress, States, Events, truth
  <2>2. CASE SelectDonor \/ Transfer \/ Progress \/ TransferEnds \/ InitVote \/ Respond \/ Recompute \/ Winner
    BY <2>2 DEF SelectDonor, Transfer, Progress, TransferEnds, InitVote, Respond, Recompute, Winner, truth
  <2> QED
    BY <2>1, <2>2 DEF Next, vars
<1>2. UuidsTrue'
  <2>1. CASE Restart
    <3>1. PICK n \in Printed : uuid' = [x \in Names |-> IF Short[x] = Short[n] THEN Reborn[x] ELSE uuid[x]]
      BY <2>1 DEF Restart
    <3> QED
      BY <3>1 DEF UuidsTrue
  <2>2. CASE UNCHANGED uuid
    BY <2>2 DEF UuidsTrue
  <2>3. Restart \/ UNCHANGED uuid
    <3>1. CASE Tick \/ Identity \/ View \/ OperatorView \/ OwnName \/ OwnAddress \/ States \/ Events
      BY <3>1 DEF Tick, Identity, View, OperatorView, OwnName, OwnAddress, States, Events, truth
    <3>2. CASE SelectDonor \/ Transfer \/ Progress \/ TransferEnds \/ InitVote \/ Respond \/ Recompute \/ Winner
      BY <3>2 DEF SelectDonor, Transfer, Progress, TransferEnds, InitVote, Respond, Recompute, Winner, truth
    <3> QED
      BY <3>1, <3>2 DEF Next, vars
  <2> QED
    BY <2>1, <2>2, <2>3
<1>3. LinesInv'
  <2>1. lines' = lines + 1 \/ UNCHANGED <<m, lines>>
    <3>1. CASE Identity \/ View \/ OperatorView \/ OwnName \/ OwnAddress \/ States \/ Events
      BY <3>1 DEF Identity, View, OperatorView, OwnName, OwnAddress, States, Events, Read, ReadBoth, Leads
    <3>2. CASE SelectDonor \/ Transfer \/ Progress \/ TransferEnds \/ InitVote \/ Respond \/ Recompute \/ Winner
      BY <3>2 DEF SelectDonor, Transfer, Progress, TransferEnds, InitVote, Respond, Recompute, Winner,
                  Read, ReadBoth, Leads
    <3>3. CASE Tick \/ Restart \/ UNCHANGED vars
      BY <3>3 DEF Tick, Restart, vars
    <3> QED
      BY <3>1, <3>2, <3>3 DEF Next
  <2>2. CASE lines' = lines + 1
    <3>0. lines \in Nat
      BY DEF LinesInv
    <3>1. lines' \in Nat /\ lines' # 0
      BY <2>2, <3>0
    <3> QED
      BY <3>1 DEF LinesInv
  <2>3. CASE UNCHANGED <<m, lines>>
    BY <2>3 DEF LinesInv
  <2> QED
    BY <2>1, <2>2, <2>3
<1> QED
  BY <1>1, <1>2, <1>3

\* All but the operator's logs.
LogKept == UuidsTrue /\ LinesInv /\ (topic # "operator" => LogInv)

LEMMA Invariant == Spec => []LogKept
<1>1. Init => LogKept
  BY InitGood DEF LogKept
<1>2. LogKept /\ [Next]_vars => LogKept'
  BY StepGood, LinesStep DEF LogKept
<1> QED
  BY <1>1, <1>2, PTL DEF Spec
-----------------------------------------------------------------------------
(* The theorems.                                                            *)

\* What the program knows of its own node is said of members by their names,
\* and a transfer is kept by its donor, whatever lines came in whatever order.
THEOREM TypeCorrect == Spec => [](topic # "operator" => TypeOK)
<1>1. LogKept => (topic # "operator" => TypeOK)
  <2> SUFFICES ASSUME LogInv PROVE TypeOK
    BY DEF LogKept
  <2>1. m.ctx \in Contexts /\ TransfersTrue(m.ctx, selected)
    BY DEF LogInv, Good
  <2>2. m.ctx.names \in OwnNames /\ m.ctx.hashes \in OwnHashes /\ m.ctx.ips \in OwnIPs
        /\ m.ctx.states \in StateMaps
    BY <2>1, ContextFields
  <2>3. /\ ToSet(m.ctx.names) \subseteq {Short[Self]} /\ ToSet(m.ctx.hashes) \subseteq OwnLives
        /\ ToSet(m.ctx.ips) \subseteq {IPOf[Self]}
    BY <2>2 DEF OwnNames, OwnHashes, OwnIPs, ToSet
  <2>4. Short[Self] \in Members /\ OwnLives \subseteq Hashes /\ IPOf[Self] \in IPs
    BY SelfNamed DEF Members
  <2>5. \A f \in FileTypes : m.ctx.states[f] \in WsrepStates \cup {""}
    BY <2>2 DEF StateMaps
  <2> QED
    BY <2>1, <2>3, <2>4, <2>5 DEF TypeOK, TransfersTrue
<1> QED
  BY <1>1, Invariant, PTL

\* The log is taken for its own node's and no other's, whatever index the node
\* has in each view and whatever uuid after a restart, outside the operator.
THEOREM OwnIdentityTheorem == Spec => []OwnIdentity
<1>1. LogKept => OwnIdentity
  <2> SUFFICES ASSUME LogInv PROVE OwnIdentity
    BY DEF LogKept, OwnIdentity
  <2>1. m.ctx.names \in OwnNames /\ m.ctx.hashes \in OwnHashes /\ m.ctx.ips \in OwnIPs
    BY ContextFields DEF LogInv, Good
  <2> QED
    BY <2>1 DEF OwnIdentity, OwnNames, OwnHashes, OwnLives, OwnIPs, ToSet
<1> QED
  BY <1>1, Invariant, PTL

\* Each vote is kept once, with the winner that was announced for it, if no
\* checksum is voted for in two votes.
THEOREM WinnerIsOwnTheorem == ASSUME VotesApart PROVE Spec => [](topic # "operator" => WinnerIsOwn)
<1> DEFINE Kept == LogKept /\ (topic # "operator" => VoteInv)
<1>1. Init => Kept
  BY InitGood DEF LogKept
<1>2. Kept /\ [Next]_vars => Kept'
  BY StepGood, LinesStep DEF LogKept
<1>3. Kept => (topic # "operator" => WinnerIsOwn)
  BY DEF VoteInv, VotesTrue, WinnerIsOwn
<1> QED
  BY <1>1, <1>2, <1>3, PTL DEF Spec

LEMMA ValueOfOne == ASSUME NEW u, NEW t PROVE ValueAt(<<u>>, t) = u
<1> DEFINE us == <<u>>
           F(g) == [i \in 1..1 |-> IF i = 1 THEN us[1]
                                   ELSE LET before == g[i - 1] IN
                                        IF us[i].ts > before.ts /\ us[i].ts <= t THEN us[i] ELSE before]
           cur == CHOOSE g : g = F(g)
<1>1. ValueAt(us, t) = cur[1]
  BY DEF ValueAt
<1>2. \E g : g = F(g)
  <2> DEFINE g == [i \in 1..1 |-> u]
  <2>1. g = F(g)
    OBVIOUS
  <2> QED
    BY <2>1
<1>3. cur = F(cur)
  BY <1>2
<1> HIDE DEF cur
<1>4. cur[1] = u
  BY <1>3
<1> QED
  BY <1>1, <1>4

\* What was propagated from the context into the maps is true of some life of a
\* member, outside the operator's logs, and the node's address has the node's name once both are known.
THEOREM PropagatedTheorem == Spec => []Propagated
<1>1. ASSUME LogInv PROVE MapsTrue
  <2>1. TrueMaps(m.db) /\ (m.db.IPToNodeNames[IPOf[Self]] = <<>> \/ OwnAddressNamed(m.db))
    BY <1>1 DEF LogInv, Good
  <2>2. ASSUME NEW h \in Hashes, m.db.HashToIP[h] # NoUnit
        PROVE  \E n \in Names : h \in {HashOf[n], Reborn[n]} /\ IPOf[n] = m.db.HashToIP[h].value
    <3>1. m.db.HashToIP[h] \in Units(AddressesOf(h))
      BY <2>1, <2>2 DEF TrueMaps
    <3>2. m.db.HashToIP[h].value \in AddressesOf(h)
      BY <3>1 DEF Units
    <3> QED
      BY <3>2 DEF AddressesOf, Bearers
  <2>3. ASSUME NEW h \in Hashes, NEW i \in DOMAIN m.db.HashToNodeNames[h]
        PROVE  \E n \in Names : h \in {HashOf[n], Reborn[n]} /\ Short[n] = m.db.HashToNodeNames[h][i].value
    <3>1. m.db.HashToNodeNames[h] \in Seq(Units(NamesOf(h)))
      BY <2>1 DEF TrueMaps
    <3>2. m.db.HashToNodeNames[h][i] \in Units(NamesOf(h))
      BY <3>1
    <3>3. m.db.HashToNodeNames[h][i].value \in NamesOf(h)
      BY <3>2 DEF Units
    <3> QED
      BY <3>3 DEF NamesOf, Bearers
  <2>4. ASSUME NEW p \in IPs, NEW i \in DOMAIN m.db.IPToNodeNames[p]
        PROVE  \E n \in Names : IPOf[n] = p /\ Short[n] = m.db.IPToNodeNames[p][i].value
    <3>1. m.db.IPToNodeNames[p] # <<>>
      <4>1. DOMAIN <<>> = {}
        OBVIOUS
      <4> QED
        BY <2>4, <4>1
    <3>2. p = IPOf[Self] /\ OwnAddressNamed(m.db)
      BY <2>1, <3>1 DEF TrueMaps
    <3>3. PICK t \in Times : m.db.IPToNodeNames[p] = <<Unit(Short[Self], t)>>
      BY <3>2 DEF OwnAddressNamed
    <3>4. i = 1
      BY <2>4, <3>3
    <3>5. m.db.IPToNodeNames[p][i].value = Short[Self]
      BY <3>3, <3>4 DEF Unit
    <3> QED
      BY <3>2, <3>5, SelfNamed
  <2> QED
    BY <2>2, <2>3, <2>4 DEF MapsTrue
<1>2. ASSUME LogInv PROVE AddressNamed
  <2> SUFFICES ASSUME m.ctx.names # <<>>, m.ctx.ips # <<>>
               PROVE  GetNodeNameFromIP(m.db, Last(m.ctx.ips), now) = Last(m.ctx.names)
    BY DEF AddressNamed
  <2>1. m.ctx.names \in OwnNames /\ m.ctx.ips \in OwnIPs /\ OwnAddressNamed(m.db)
    BY <1>2, ContextFields DEF LogInv, Good
  <2>2. Last(m.ctx.names) = Short[Self] /\ Last(m.ctx.ips) = IPOf[Self]
    BY <2>1, LastOne DEF OwnNames, OwnIPs
  <2>3. PICK t \in Times : m.db.IPToNodeNames[IPOf[Self]] = <<Unit(Short[Self], t)>>
    BY <2>1 DEF OwnAddressNamed
  <2>4. ValueAt(m.db.IPToNodeNames[IPOf[Self]], now) = Unit(Short[Self], t)
    BY <2>3, ValueOfOne
  <2> QED
    BY <2>2, <2>4 DEF GetNodeNameFromIP, Unit
<1>3. LogKept => Propagated
  BY <1>1, <1>2 DEF LogKept, Propagated
<1> QED
  BY <1>3, Invariant, PTL
-----------------------------------------------------------------------------
(* The regexes a line matches may be tried in any order.                    *)

\* Two handlers that each leave one result, the same in both orders.
LEMMA OrdersAgree ==
  ASSUME NEW e, NEW f, NEW x, NEW y, NEW z, Handle(m, e) = {x}, Handle(m, f) = {y},
         Handle(x, f) = {z}, Handle(y, e) = {z}
  PROVE  Cardinality(HandleBoth(e, f)) = 1
<1>1. {Handle(w, f) : w \in {x}} = {{z}} /\ {Handle(w, e) : w \in {y}} = {{z}}
  OBVIOUS
<1>2. HandleBoth(e, f) = UNION ({Handle(w, f) : w \in {x}} \cup {Handle(w, e) : w \in {y}})
  BY Zenon DEF HandleBoth
<1>3. HandleBoth(e, f) = UNION ({{z}} \cup {{z}})
  BY <1>1, <1>2, Zenon
<1>4. UNION ({{z}} \cup {{z}}) = {z}
  OBVIOUS
<1> QED
  BY <1>3, <1>4, FS_Singleton

\* Two facts about the addresses of hashes are kept whichever came first.
Told(f, h, ip, t) == [f EXCEPT ![h] = IF f[h] = NoUnit THEN Unit(ip, t) ELSE Sooner(f[h], t)]
Named(g, h, n, t) == [g EXCEPT ![h] = Upsert(g[h], Unit(Short[n], t))]
Maps(a, b, d) == [HashToIP |-> a, HashToNodeNames |-> b, IPToNodeNames |-> d.IPToNodeNames,
                  IPToMethods |-> d.IPToMethods]

LEMMA Recorded ==
  ASSUME NEW a, NEW b, NEW d, NEW h, NEW ip, NEW n, NEW t
  PROVE  /\ AddHashToIP(Maps(a, b, d), h, ip, t) = Maps(Told(a, h, ip, t), b, d)
         /\ AddHashToNodeName(Maps(a, b, d), h, n, t) = Maps(a, Named(b, h, n, t), d)
<1>1. AddHashToIP(Maps(a, b, d), h, ip, t) = [Maps(a, b, d) EXCEPT !.HashToIP = Told(a, h, ip, t)]
  BY DEF AddHashToIP, Maps, Told
<1>2. AddHashToNodeName(Maps(a, b, d), h, n, t) = [Maps(a, b, d) EXCEPT !.HashToNodeNames = Named(b, h, n, t)]
  BY DEF AddHashToNodeName, Maps, Named
<1> QED
  BY <1>1, <1>2 DEF Maps

LEMMA ToldCommutes ==
  ASSUME NEW f, DOMAIN f = Hashes, NEW h \in Hashes, NEW k \in Hashes,
         NEW p, NEW q, h = k => p = q, NEW t
  PROVE  Told(Told(f, h, p, t), k, q, t) = Told(Told(f, k, q, t), h, p, t)
<1>1. CASE h = k
  BY <1>1
<1>2. CASE h # k
  BY <1>2 DEF Told
<1> QED
  BY <1>1, <1>2

\* A context whose line was seen.
Noted(c, v) ==
  [c EXCEPT !.ftype = "error.log", !.minVerbosity = IF c.minVerbosity > v THEN v ELSE c.minVerbosity]

LEMMA NotedTyped ==
  ASSUME NEW c \in Contexts, NEW v \in Nat
  PROVE  /\ Noted(c, v) \in Contexts /\ Alike(c, Noted(c, v)) /\ Noted(c, v).hashes = c.hashes
         /\ Noted(c, v).ftype = "error.log" /\ Noted(c, v).minVerbosity <= v
<1> DEFINE least == IF c.minVerbosity > v THEN v ELSE c.minVerbosity
<1>0. c.minVerbosity \in Nat
  BY ContextFields
<1>1. least \in Nat /\ least <= v
  BY <1>0
<1> HIDE DEF least
<1>2. Noted(c, v) = [c EXCEPT !.ftype = "error.log", !.minVerbosity = least]
  BY DEF Noted, least
<1> QED
  BY <1>1, <1>2 DEF Contexts, Alike

LEMMA NotedAgain ==
  ASSUME NEW c \in Contexts, NEW v \in Nat, c.ftype = "error.log", c.minVerbosity <= v
  PROVE  Noted(c, v) = c
<1>1. Noted(c, v) = [c EXCEPT !.ftype = c.ftype, !.minVerbosity = c.minVerbosity]
  <2>0. c.minVerbosity \in Nat
    BY ContextFields
  <2>1. ~(c.minVerbosity > v)
    BY <2>0
  <2> QED
    BY <2>1 DEF Noted
<1> QED
  BY <1>1 DEF Contexts

LEMMA NotedFirst ==
  ASSUME NEW x, Good(x), NEW e, Accepted(e)
  PROVE  Handle(x, e) = Handler([ctx |-> Noted(x.ctx, Verbosity(e.re)), db |-> x.db], e)
BY HandleSeen DEF Seen, Noted

Promoted(s, p) ==
  IF p /\ s["error.log"] \in {"SYNCED", "DONOR", "DESYNCED", "JOINER", "PRIMARY"} THEN s
  ELSE [s EXCEPT !["error.log"] = IF p THEN "PRIMARY" ELSE "NON-PRIMARY"]

LEMMA ComponentIs ==
  ASSUME NEW c \in Contexts, c.ftype = "error.log", NEW e, e.members \in Nat, e.primary \in BOOLEAN
  PROVE  NewComponent(c, e) = [c EXCEPT !.members = e.members, !.states = Promoted(c.states, e.primary)]
<1> DEFINE counted == [c EXCEPT !.members = e.members]
<1>1. /\ counted \in Contexts /\ counted.ftype = "error.log" /\ counted.states = c.states
      /\ Slot(counted) = "error.log"
  BY DEF Contexts, Slot, FileTypes
<1>2. State(counted) = c.states["error.log"]
  BY <1>1 DEF State
<1>3. \A s \in WsrepStates : SetState(counted, s) = [counted EXCEPT !.states = [c.states EXCEPT !["error.log"] = s]]
  BY <1>1 DEF SetState
<1>4. NewComponent(c, e) =
        IF ~e.primary THEN SetState(counted, "NON-PRIMARY")
        ELSE IF IsPrimary(counted) THEN counted ELSE SetState(counted, "PRIMARY")
  BY DEF NewComponent
<1>5. IsPrimary(counted) <=> c.states["error.log"] \in {"SYNCED", "DONOR", "DESYNCED", "JOINER", "PRIMARY"}
  BY <1>2 DEF IsPrimary
<1>6. counted = [counted EXCEPT !.states = c.states]
  BY <1>1 DEF Contexts
<1>7. "NON-PRIMARY" \in WsrepStates /\ "PRIMARY" \in WsrepStates
  BY DEF WsrepStates
<1> HIDE DEF counted
<1>8. NewComponent(c, e) = [counted EXCEPT !.states = Promoted(c.states, e.primary)]
  <2>1. CASE ~e.primary
    BY <1>3, <1>4, <1>7, <2>1 DEF Promoted
  <2>2. CASE e.primary /\ IsPrimary(counted)
    BY <1>4, <1>5, <1>6, <2>2 DEF Promoted
  <2>3. CASE e.primary /\ ~IsPrimary(counted)
    BY <1>3, <1>4, <1>5, <1>7, <2>3 DEF Promoted
  <2> QED
    BY <2>1, <2>2, <2>3
<1> QED
  BY <1>8 DEF counted

\* The index is found whatever the view says of the component.
LEMMA ComponentAndIdx ==
  ASSUME NEW i \in Indexes, NEW c \in Contexts, c.ftype = "error.log", NEW e, e.members \in Nat, e.primary \in BOOLEAN
  PROVE  NewComponent([c EXCEPT !.myIdx = i], e) = [NewComponent(c, e) EXCEPT !.myIdx = i]
<1> DEFINE d == [c EXCEPT !.myIdx = i]
<1>1. d \in Contexts /\ d.ftype = "error.log" /\ d.states = c.states
  BY DEF Contexts
<1> DEFINE S == Promoted(c.states, e.primary)
<1>2. NewComponent(d, e) = [d EXCEPT !.members = e.members, !.states = S]
  <2> HIDE DEF d
  <2> QED
    BY <1>1, ComponentIs
<1>3. NewComponent(c, e) = [c EXCEPT !.members = e.members, !.states = S]
  BY ComponentIs
<1> HIDE DEF S
<1>4. [d EXCEPT !.members = e.members, !.states = S] =
      [[c EXCEPT !.members = e.members, !.states = S] EXCEPT !.myIdx = i]
  BY DEF Contexts
<1> QED
  BY <1>2, <1>3, <1>4

LEMMA Verbosities ==
  /\ Verbosity("RegexNewComponent") = 0 /\ Verbosity("RegexMyIDXFromComponent") = 1
  /\ Verbosity("RegexNodeEstablished") = 1 /\ Verbosity("RegexOwnUUIDFromEstablished") = 1
BY DEF Verbosity, DebugLines, OwnIPLines, OwnHashLines, IdxLines, Info, DebugMySQL

LEMMA NotedTwice ==
  ASSUME NEW c \in Contexts, NEW i \in Indexes
  PROVE  Noted([Noted(c, 1) EXCEPT !.myIdx = i], 0) = [Noted(c, 0) EXCEPT !.myIdx = i]
<1> DEFINE v == IF c.minVerbosity > 1 THEN 1 ELSE c.minVerbosity
           u == IF v > 0 THEN 0 ELSE v
           w == IF c.minVerbosity > 0 THEN 0 ELSE c.minVerbosity
<1>1. u = w
  <2>1. c.minVerbosity \in Nat
    BY ContextFields
  <2> QED
    BY <2>1
<1>2. Noted(c, 1) = [c EXCEPT !.ftype = "error.log", !.minVerbosity = v]
  BY DEF Noted
<1>3. Noted(c, 0) = [c EXCEPT !.ftype = "error.log", !.minVerbosity = w]
  BY DEF Noted
<1> DEFINE d == [Noted(c, 1) EXCEPT !.myIdx = i]
<1>4. d = [c EXCEPT !.ftype = "error.log", !.minVerbosity = v, !.myIdx = i] /\ d.minVerbosity = v
  <2> HIDE DEF v
  <2> QED
    BY <1>2 DEF Contexts
<1> HIDE DEF d
<1>5. Noted(d, 0) = [d EXCEPT !.ftype = "error.log", !.minVerbosity = u]
  BY <1>4 DEF Noted
<1> HIDE DEF u, v, w
<1>6. Noted(d, 0) = [Noted(c, 0) EXCEPT !.myIdx = i]
  BY <1>1, <1>3, <1>4, <1>5 DEF Contexts
<1> QED
  BY <1>6 DEF d

LEMMA ComponentHandled ==
  ASSUME NEW x, Good(x), now \in Times, NEW p, NEW v \in Views, NEW e, e = Component(p, v)
  PROVE  Handle(x, e) = {[ctx |-> NewComponent(Noted(x.ctx, 0), e), db |-> x.db]}
<1>1. Accepted(e) /\ e.re = "RegexNewComponent"
  BY LineOfView
<1> DEFINE s == [ctx |-> Noted(x.ctx, 0), db |-> x.db]
<1>2. Handle(x, e) = Handler(s, e)
  BY <1>1, NotedFirst, Verbosities
<1>3. s.ctx = Noted(x.ctx, 0) /\ s = [ctx |-> s.ctx, db |-> x.db]
  OBVIOUS
<1> HIDE DEF s
<1>4. Handler(s, e) = OnCtx(s, NewComponent(s.ctx, e))
  BY <1>1, ViewHandlers
<1>5. OnCtx(s, NewComponent(s.ctx, e)) = {[ctx |-> NewComponent(s.ctx, e), db |-> x.db]}
  BY <1>3 DEF OnCtx
<1> QED
  BY <1>2, <1>3, <1>4, <1>5

LEMMA IdxHandled ==
  ASSUME NEW x, Good(x), UuidsTrue, now \in Times, NEW v \in Views,
         NEW e, e = OwnIndex("RegexMyIDXFromComponent", v)
  PROVE  Handle(x, e) = {[ctx |-> [Noted(x.ctx, 1) EXCEPT !.myIdx = OwnIdx(v)], db |-> x.db]}
<1>1. Accepted(e) /\ e.re = "RegexMyIDXFromComponent" /\ e.idx = OwnIdx(v)
  BY LineOfIndex
<1> DEFINE s == [ctx |-> Noted(x.ctx, 1), db |-> x.db]
<1>2. Handle(x, e) = Handler(s, e)
  BY <1>1, NotedFirst, Verbosities
<1>3. s.ctx = Noted(x.ctx, 1) /\ s = [ctx |-> s.ctx, db |-> x.db]
  OBVIOUS
<1> HIDE DEF s
<1>4. Handler(s, e) = OnCtx(s, [s.ctx EXCEPT !.myIdx = e.idx])
  BY <1>1, IdentityHandlers
<1>5. OnCtx(s, [s.ctx EXCEPT !.myIdx = e.idx]) = {[ctx |-> [s.ctx EXCEPT !.myIdx = e.idx], db |-> x.db]}
  BY <1>3 DEF OnCtx
<1> QED
  BY <1>1, <1>2, <1>3, <1>4, <1>5

LEMMA ComponentOrder ==
  ASSUME LogInv, UuidsTrue, NEW p \in BOOLEAN, NEW v \in Views
  PROVE  Cardinality(HandleBoth(Component(p, v), OwnIndex("RegexMyIDXFromComponent", v))) = 1
<1>1. PICK e : e = Component(p, v)
  OBVIOUS
<1>2. PICK f : f = OwnIndex("RegexMyIDXFromComponent", v)
  OBVIOUS
<1>0. PICK o \in Indexes : o = OwnIdx(v)
  BY OwnIdxIs
<1>3. Good(m) /\ now \in Times
  BY DEF LogInv
<1>4. m.ctx \in Contexts
  BY <1>3 DEF Good
<1>5. e.members \in Nat /\ e.primary \in BOOLEAN
  BY <1>1, <1>3, LineOfView
<1> DEFINE b == NewComponent(Noted(m.ctx, 0), e)
           i == [Noted(m.ctx, 1) EXCEPT !.myIdx = o]
           z == [ctx |-> [b EXCEPT !.myIdx = o], db |-> m.db]
<1>6. PICK x : x = [ctx |-> b, db |-> m.db]
  OBVIOUS
<1>7. PICK y : y = [ctx |-> i, db |-> m.db]
  OBVIOUS
<1>8. Handle(m, e) = {x} /\ Handle(m, f) = {y}
  BY <1>1, <1>2, <1>3, <1>6, <1>7, <1>0, ComponentHandled, IdxHandled
<1>9. Good(x) /\ Good(y)
  BY <1>1, <1>2, <1>3, <1>8, ComponentLineGood, OwnIndexLineGood
<1>10. Noted(b, 1) = b
  <2>1. b \in Contexts
    BY <1>6, <1>9 DEF Good
  <2>2. b = [Noted(m.ctx, 0) EXCEPT !.members = e.members, !.states = Promoted(Noted(m.ctx, 0).states, e.primary)]
    BY <1>4, <1>5, NotedTyped, ComponentIs
  <2>3. Noted(m.ctx, 0) \in Contexts /\ Noted(m.ctx, 0).ftype = "error.log" /\ Noted(m.ctx, 0).minVerbosity <= 0
    BY <1>4, NotedTyped
  <2>4. b.ftype = "error.log" /\ b.minVerbosity = Noted(m.ctx, 0).minVerbosity
    BY <2>2, <2>3 DEF Contexts
  <2> HIDE DEF b
  <2>5. Noted(m.ctx, 0).minVerbosity \in Nat
    BY <2>3, ContextFields
  <2>6. b.minVerbosity <= 1
    BY <2>3, <2>4, <2>5
  <2> QED
    BY <2>1, <2>4, <2>6, NotedAgain
<1>11. Handle(x, f) = {z}
  <2>1. x.ctx = b /\ x.db = m.db
    BY <1>6
  <2> HIDE DEF b
  <2>2. Handle(x, f) = {[ctx |-> [Noted(x.ctx, 1) EXCEPT !.myIdx = o], db |-> x.db]}
    BY <1>0, <1>2, <1>3, <1>9, IdxHandled
  <2> QED
    BY <1>10, <2>1, <2>2
<1>12. Handle(y, e) = {z}
  <2>1. y.ctx = i /\ y.db = m.db
    BY <1>7
  <2>2. Handle(y, e) = {[ctx |-> NewComponent(Noted(y.ctx, 0), e), db |-> y.db]}
    BY <1>1, <1>3, <1>9, ComponentHandled
  <2>3. Noted(i, 0) = [Noted(m.ctx, 0) EXCEPT !.myIdx = o]
    BY <1>4, NotedTwice
  <2>4. NewComponent([Noted(m.ctx, 0) EXCEPT !.myIdx = o], e) = [b EXCEPT !.myIdx = o]
    BY <1>4, <1>5, NotedTyped, ComponentAndIdx
  <2> HIDE DEF b, i
  <2> QED
    BY <2>1, <2>2, <2>3, <2>4
<1> HIDE DEF z
<1> QED
  BY <1>1, <1>2, <1>8, <1>11, <1>12, OrdersAgree

LEMMA EstablishedHandled ==
  ASSUME NEW x, Good(x), UuidsTrue, now \in Times, NEW n \in Printed, NEW e, e = Established(n)
  PROVE  Handle(x, e) = {[ctx |-> Noted(x.ctx, 1), db |-> AddHashToIP(x.db, uuid[n], IPOf[n], now)]}
<1>1. Accepted(e) /\ e.re = "RegexNodeEstablished" /\ e.hash = uuid[n] /\ e.ip = IPOf[n] /\ e.ts = now
  BY LineOfPeer DEF Established
<1> DEFINE s == [ctx |-> Noted(x.ctx, 1), db |-> x.db]
<1>2. Handle(x, e) = Handler(s, e)
  BY <1>1, NotedFirst, Verbosities
<1>3. s.ctx = Noted(x.ctx, 1) /\ s.db = x.db /\ s = [ctx |-> s.ctx, db |-> s.db]
  OBVIOUS
<1> HIDE DEF s
<1>4. Handler(s, e) = {NodeEstablished(s, e)}
  BY <1>1, ViewHandlers
<1>5. NodeEstablished(s, e) = [s EXCEPT !.db = AddHashToIP(s.db, e.hash, e.ip, e.ts)]
  BY DEF NodeEstablished
<1>6. [s EXCEPT !.db = AddHashToIP(s.db, e.hash, e.ip, e.ts)] =
        [ctx |-> s.ctx, db |-> AddHashToIP(s.db, e.hash, e.ip, e.ts)]
  BY <1>3
<1> QED
  BY <1>1, <1>2, <1>3, <1>4, <1>5, <1>6

LEMMA OwnUUIDHandled ==
  ASSUME NEW x, Good(x), UuidsTrue, now \in Times, NEW e, e = OwnUUID("RegexOwnUUIDFromEstablished")
  PROVE  Handle(x, e) = {AddOwnHash([ctx |-> Noted(x.ctx, 1), db |-> x.db], uuid[Self], now)}
<1>1. Accepted(e) /\ e.re = "RegexOwnUUIDFromEstablished" /\ e.hash = uuid[Self] /\ e.ts = now
  BY LineOfSelf
<1> DEFINE s == [ctx |-> Noted(x.ctx, 1), db |-> x.db]
<1>2. Handle(x, e) = Handler(s, e)
  BY <1>1, NotedFirst, Verbosities
<1> HIDE DEF s
<1>3. Handler(s, e) = {AddOwnHash(s, e.hash, e.ts)}
  BY <1>1, IdentityHandlers
<1> QED
  BY <1>1, <1>2, <1>3 DEF s

\* A new hash of the node's own, in the maps.
LEMMA OwnHashTold ==
  ASSUME NEW c, NEW a, NEW b, NEW d, NEW h, h \notin ToSet(c.hashes), NEW t
  PROVE  AddOwnHash([ctx |-> c, db |-> Maps(a, b, d)], h, t) =
           [ctx |-> [c EXCEPT !.hashes = Append(c.hashes, h)],
            db  |-> Maps(IF c.ips = <<>> THEN a ELSE Told(a, h, Last(c.ips), t),
                         IF c.names = <<>> THEN b ELSE Named(b, h, Last(c.names), t), d)]
<1> DEFINE f == IF c.ips = <<>> THEN a ELSE Told(a, h, Last(c.ips), t)
           r == IF c.ips = <<>> THEN Maps(a, b, d) ELSE AddHashToIP(Maps(a, b, d), h, Last(c.ips), t)
           g == IF c.names = <<>> THEN b ELSE Named(b, h, Last(c.names), t)
           u == IF c.names = <<>> THEN r ELSE AddHashToNodeName(r, h, Last(c.names), t)
<1>1. AddOwnHash([ctx |-> c, db |-> Maps(a, b, d)], h, t) =
        [ctx |-> [c EXCEPT !.hashes = Append(c.hashes, h)], db |-> u]
  BY DEF AddOwnHash
<1>2. r = Maps(f, b, d)
  BY Recorded
<1> HIDE DEF f, r
<1>3. AddHashToNodeName(Maps(f, b, d), h, Last(c.names), t) = Maps(f, Named(b, h, Last(c.names), t), d)
  BY Recorded
<1>4. u = Maps(f, g, d)
  BY <1>2, <1>3
<1> HIDE DEF g, u
<1> QED
  BY <1>1, <1>4 DEF f, g

\* What is told of another hash commutes with an own one.
EitherOrder(c, d, n, h, k, t) ==
  \E y : /\ y = AddOwnHash([ctx |-> c, db |-> d], h, t)
         /\ AddOwnHash([ctx |-> c, db |-> AddHashToIP(d, k, IPOf[n], t)], h, t) =
              [ctx |-> y.ctx, db |-> AddHashToIP(y.db, k, IPOf[n], t)]

LEMMA OwnHashCommutes ==
  ASSUME NEW c \in Contexts, NEW d, TrueMaps(d), NEW n \in Printed, NEW t,
         NEW h \in OwnLives, NEW k \in {HashOf[n], Reborn[n]}
  PROVE  EitherOrder(c, d, n, h, k, t)
<1> DEFINE q == IPOf[n]
           y == AddOwnHash([ctx |-> c, db |-> d], h, t)
<1> SUFFICES AddOwnHash([ctx |-> c, db |-> AddHashToIP(d, k, q, t)], h, t) =
               [ctx |-> y.ctx, db |-> AddHashToIP(y.db, k, q, t)]
  BY Zenon DEF EitherOrder
<1>1. CASE h \in ToSet(c.hashes)
  BY <1>1 DEF AddOwnHash
<1>2. CASE h \notin ToSet(c.hashes)
  <2> DEFINE a == d.HashToIP  b == d.HashToNodeNames
             f == IF c.ips = <<>> THEN a ELSE Told(a, h, Last(c.ips), t)
             g == IF c.names = <<>> THEN b ELSE Named(b, h, Last(c.names), t)
             cc == [c EXCEPT !.hashes = Append(c.hashes, h)]
  <2>1. d = Maps(a, b, d)
    BY DEF TrueMaps, Maps
  <2>2. DOMAIN a = Hashes /\ \A x \in Hashes : a[x] \in Units(AddressesOf(x)) \cup {NoUnit}
    BY DEF TrueMaps
  <2>3. h \in Hashes /\ k \in Hashes /\ (h = k => q = IPOf[Self])
    <3>1. n \in Names /\ Self \in Names
      BY SelfAssumption
    <3>2. h = k => {HashOf[n], Reborn[n]} \cap {HashOf[Self], Reborn[Self]} # {}
      BY DEF OwnLives
    <3> QED
      BY <3>1, <3>2, SelfAssumption, ClusterAssumption DEF OwnLives
  <2>4. y = [ctx |-> cc, db |-> Maps(f, g, d)]
    <3> HIDE DEF a, b
    <3>1. AddOwnHash([ctx |-> c, db |-> Maps(a, b, d)], h, t) = [ctx |-> cc, db |-> Maps(f, g, d)]
      BY <1>2, OwnHashTold
    <3> QED
      BY <2>1, <3>1
  <2>5. AddHashToIP(d, k, q, t) = Maps(Told(a, k, q, t), b, d)
    <3> HIDE DEF a, b
    <3>1. AddHashToIP(Maps(a, b, d), k, q, t) = Maps(Told(a, k, q, t), b, d)
      BY Recorded
    <3> QED
      BY <2>1, <3>1
  <2>6. AddOwnHash([ctx |-> c, db |-> Maps(Told(a, k, q, t), b, d)], h, t) =
          [ctx |-> cc,
           db |-> Maps(IF c.ips = <<>> THEN Told(a, k, q, t) ELSE Told(Told(a, k, q, t), h, Last(c.ips), t), g, d)]
    <3> HIDE DEF a, b
    <3> QED
      BY <1>2, OwnHashTold
  <2>7. AddHashToIP(Maps(f, g, d), k, q, t) = Maps(Told(f, k, q, t), g, d)
    BY Recorded
  <2>8. (IF c.ips = <<>> THEN Told(a, k, q, t) ELSE Told(Told(a, k, q, t), h, Last(c.ips), t)) = Told(f, k, q, t)
    <3>1. CASE c.ips = <<>>
      BY <3>1
    <3>2. CASE c.ips # <<>>
      <4>1. Last(c.ips) = IPOf[Self]
        BY <3>2, ContextFields, LastOne DEF OwnIPs
      <4> HIDE DEF a, q
      <4>2. Told(Told(a, h, Last(c.ips), t), k, q, t) = Told(Told(a, k, q, t), h, Last(c.ips), t)
        BY <2>2, <2>3, <4>1, ToldCommutes
      <4> QED
        BY <3>2, <4>2
    <3> QED
      BY <3>1, <3>2
  <2> HIDE DEF a, b, f, g, cc
  <2>9. y.ctx = cc /\ y.db = Maps(f, g, d)
    BY <2>4
  <2>10. AddOwnHash([ctx |-> c, db |-> AddHashToIP(d, k, q, t)], h, t) =
           [ctx |-> cc, db |-> Maps(Told(f, k, q, t), g, d)]
    BY <2>5, <2>6, <2>8
  <2> HIDE DEF y
  <2>11. [ctx |-> y.ctx, db |-> AddHashToIP(y.db, k, q, t)] = [ctx |-> cc, db |-> Maps(Told(f, k, q, t), g, d)]
    BY <2>7, <2>9
  <2> QED
    BY <2>10, <2>11 DEF y
<1> QED
  BY <1>1, <1>2

LEMMA EstablishedOrder ==
  ASSUME LogInv, UuidsTrue, NEW n \in Printed
  PROVE  Cardinality(HandleBoth(Established(n), OwnUUID("RegexOwnUUIDFromEstablished"))) = 1
<1>1. PICK e : e = Established(n)
  OBVIOUS
<1>2. PICK f : f = OwnUUID("RegexOwnUUIDFromEstablished")
  OBVIOUS
<1>3. Good(m) /\ now \in Times
  BY DEF LogInv
<1>4. m.ctx \in Contexts /\ TrueMaps(m.db)
  BY <1>3 DEF Good
<1>5. PICK c : c = Noted(m.ctx, 1)
  OBVIOUS
<1>6. c \in Contexts /\ c.ftype = "error.log" /\ c.minVerbosity <= 1 /\ c.minVerbosity \in Nat
  <2>1. c \in Contexts /\ c.ftype = "error.log" /\ c.minVerbosity <= 1
    BY <1>4, <1>5, NotedTyped
  <2> QED
    BY <2>1, ContextFields
<1> DEFINE told(d) == AddHashToIP(d, uuid[n], IPOf[n], now)
<1>7. PICK x : x = [ctx |-> c, db |-> told(m.db)]
  OBVIOUS
<1>8. PICK y : y = AddOwnHash([ctx |-> c, db |-> m.db], uuid[Self], now)
  OBVIOUS
<1>9. Handle(m, e) = {x} /\ Handle(m, f) = {y}
  BY <1>1, <1>2, <1>3, <1>5, <1>7, <1>8, EstablishedHandled, OwnUUIDHandled
<1>10. Good(x) /\ Good(y)
  BY <1>1, <1>2, <1>3, <1>9, EstablishedLineGood, OwnUUIDLineGood
<1>11. Handle(x, f) = {AddOwnHash(x, uuid[Self], now)}
  <2>1. Handle(x, f) = {AddOwnHash([ctx |-> Noted(x.ctx, 1), db |-> x.db], uuid[Self], now)}
    BY <1>2, <1>3, <1>10, OwnUUIDHandled
  <2>2. x.ctx = c /\ x.db = told(m.db) /\ Noted(c, 1) = c
    BY <1>6, <1>7, NotedAgain
  <2> QED
    BY <1>7, <2>1, <2>2
<1>12. Handle(y, e) = {[ctx |-> y.ctx, db |-> told(y.db)]}
  <2>1. Handle(y, e) = {[ctx |-> Noted(y.ctx, 1), db |-> told(y.db)]}
    BY <1>1, <1>3, <1>10, EstablishedHandled
  <2>2. y.ctx = c \/ y.ctx = [c EXCEPT !.hashes = Append(c.hashes, uuid[Self])]
    BY <1>8 DEF AddOwnHash
  <2>3. y.ctx \in Contexts
    BY <1>10 DEF Good
  <2>4. y.ctx.ftype = "error.log" /\ y.ctx.minVerbosity = c.minVerbosity
    BY <1>6, <2>2 DEF Contexts
  <2>5. Noted(y.ctx, 1) = y.ctx
    BY <1>6, <2>3, <2>4, NotedAgain
  <2> QED
    BY <2>1, <2>5
<1>13. AddOwnHash(x, uuid[Self], now) = [ctx |-> y.ctx, db |-> told(y.db)]
  <2>1. uuid[Self] \in OwnLives /\ uuid[n] \in {HashOf[n], Reborn[n]}
    BY SelfAssumption DEF UuidsTrue, OwnLives
  <2>2. PICK h \in OwnLives : h = uuid[Self]
    BY <2>1
  <2>3. PICK k \in {HashOf[n], Reborn[n]} : k = uuid[n]
    BY <2>1
  <2>4. PICK d : d = m.db
    OBVIOUS
  <2>5. c \in Contexts /\ TrueMaps(d)
    BY <1>4, <1>6, <2>4
  <2>6. PICK w : /\ w = AddOwnHash([ctx |-> c, db |-> d], h, now)
                 /\ AddOwnHash([ctx |-> c, db |-> AddHashToIP(d, k, IPOf[n], now)], h, now) =
                      [ctx |-> w.ctx, db |-> AddHashToIP(w.db, k, IPOf[n], now)]
    <3>1. EitherOrder(c, d, n, h, k, now)
      BY <2>5, OwnHashCommutes
    <3> QED
      BY <3>1 DEF EitherOrder
  <2>7. w = y
    BY <1>8, <2>2, <2>4, <2>6
  <2> QED
    BY <1>7, <2>2, <2>3, <2>4, <2>6, <2>7
<1>14. PICK z : z = AddOwnHash(x, uuid[Self], now)
  OBVIOUS
<1>15. Handle(x, f) = {z} /\ Handle(y, e) = {z}
  BY <1>11, <1>12, <1>13, <1>14
<1> QED
  BY <1>1, <1>2, <1>9, <1>15, OrdersAgree

LEMMA OverHandled ==
  ASSUME NEW x, Good(x), now \in Times, NEW re \in SSTEnds, NEW k,
         NEW e, e = Over(re, k), NEW f, f = NamelessOver(re, k)
  PROVE  /\ Handle(x, e) = {[ctx |-> SSTOver(Noted(x.ctx, 0), e), db |-> x.db]}
         /\ Handle(x, f) = {[ctx |-> Noted(x.ctx, 0), db |-> x.db]}
<1>1. Accepted(e) /\ e.re = re /\ f.parsed = FALSE /\ f.ftype = "error.log" /\ f.re = re
  BY DEF Over, NamelessOver, Line, Accepted
<1>2. Verbosity(re) = 0
  BY DEF Verbosity, DebugLines, OwnIPLines, OwnHashLines, IdxLines, SSTEnds, Info, DebugMySQL
<1> DEFINE s == [ctx |-> Noted(x.ctx, 0), db |-> x.db]
<1>3. Handle(x, e) = Handler(s, e)
  BY <1>1, <1>2, NotedFirst
<1>4. Handle(x, f) = {s}
  BY <1>1, <1>2, SeenGood DEF Seen, Noted
<1>5. s.ctx = Noted(x.ctx, 0) /\ s = [ctx |-> s.ctx, db |-> x.db]
  OBVIOUS
<1> HIDE DEF s
<1>6. Handler(s, e) = OnCtx(s, SSTOver(s.ctx, e))
  BY <1>1, TransferHandlers
<1>7. OnCtx(s, SSTOver(s.ctx, e)) = {[ctx |-> SSTOver(s.ctx, e), db |-> x.db]}
  BY <1>5 DEF OnCtx
<1> QED
  BY <1>3, <1>4, <1>5, <1>6, <1>7

\* A line about a joiner that left, taken for one about a joiner with a name.
LEMMA OverOrder ==
  ASSUME LogInv, NEW re \in SSTEnds, NEW other \in SSTEnds, NEW k
  PROVE  Cardinality(HandleBoth(Over(re, k), NamelessOver(other, k))) = 1
<1>1. PICK e : e = Over(re, k)
  OBVIOUS
<1>2. PICK f : f = NamelessOver(other, k)
  OBVIOUS
<1>3. Good(m) /\ now \in Times /\ m.ctx \in Contexts /\ TransfersTrue(m.ctx, selected)
  BY DEF LogInv, Good
<1>4. PICK c : c = Noted(m.ctx, 0)
  OBVIOUS
<1>5. c \in Contexts /\ Noted(c, 0) = c /\ c.ftype = "error.log" /\ c.minVerbosity <= 0
  BY <1>3, <1>4, NotedTyped, NotedAgain
<1>6. PICK x : x = [ctx |-> SSTOver(c, e), db |-> m.db]
  OBVIOUS
<1>7. PICK y : y = [ctx |-> c, db |-> m.db]
  OBVIOUS
<1>8. Handle(m, e) = {x} /\ Handle(m, f) = {y}
  BY <1>1, <1>2, <1>3, <1>4, <1>6, <1>7, OverHandled
<1>9. Good(x) /\ Good(y)
  BY <1>1, <1>2, <1>3, <1>8, OverLineGood, NamelessLineGood
<1>10. Handle(x, f) = {x}
  <2>1. x.ctx \in Contexts /\ x.ctx.ftype = "error.log" /\ x.ctx.minVerbosity <= 0
    <3>1. SSTOver(c, e).ftype = c.ftype /\ SSTOver(c, e).minVerbosity = c.minVerbosity
      BY <1>5 DEF SSTOver, Contexts
    <3> QED
      BY <1>5, <1>6, <1>9, <3>1 DEF Good
  <2>2. Noted(x.ctx, 0) = x.ctx
    BY <2>1, NotedAgain
  <2> QED
    BY <1>2, <1>3, <1>6, <1>9, <2>2, OverHandled
<1>11. Handle(y, e) = {x}
  BY <1>1, <1>3, <1>5, <1>6, <1>7, <1>9, OverHandled
<1> QED
  BY <1>1, <1>2, <1>8, <1>10, <1>11, OrdersAgree

\* Outside the operator, a line that two regexes match has one outcome, whichever
\* of the two the Go map gives first, in every state of every log (internal.go,
\* iterateOnGrepResults).
THEOREM OrderFreeTheorem == Spec => []OrderFree
<1>1. LogInv /\ UuidsTrue => OrderFree
  <2> SUFFICES ASSUME LogInv, UuidsTrue PROVE OrderFree
    OBVIOUS
  <2>1. ASSUME NEW n \in Printed
        PROVE  /\ Cardinality(HandleBoth(Over("RegexSSTCompleteUnknown", n),
                                         NamelessOver("RegexSSTComplete", n))) = 1
               /\ Cardinality(HandleBoth(Over("RegexSSTFailedUnknown", n),
                                         NamelessOver("RegexSSTStateTransferFailed", n))) = 1
    BY OverOrder DEF SSTEnds
  <2> QED
    BY <2>1, ComponentOrder, EstablishedOrder, Zenon DEF OrderFree
<1>2. LogKept => OrderFree
  BY <1>1 DEF LogKept, OrderFree
<1> QED
  BY <1>2, Invariant, PTL
=============================================================================
