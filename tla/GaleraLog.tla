----------------------------- MODULE GaleraLog -----------------------------
(***************************************************************************)
(* The log of one node, line by line, with what the program makes of it    *)
(* (internal.go, iterateOnGrepResults).  Every line tells the truth about  *)
(* a cluster whose members come and go, have another index in every view,  *)
(* and may restart under another uuid but not another address; the program *)
(* must work out from them which member wrote the log and what became of   *)
(* each inconsistency vote.                                                *)
(*                                                                         *)
(* A line may match several regexes; the program tries them in the order   *)
(* of a Go map, which is any order.  A server prints a view on a line per  *)
(* member, the operator on one line, which four regexes match.             *)
(***************************************************************************)
EXTENDS GaleraLogCtx

CONSTANTS Self,                \* the member whose log is read
          Printed,             \* members, under the name the log prints
          HashOf, IPOf,        \* member -> its uuid and address
          Reborn,              \* member -> its uuid after a restart, or the same
          Views, Idxs,         \* sequences of members; the number printed before the first, ...
          Seqnos, MD5s,        \* the votes of the log; seqno -> checksums voted for it
          Voters,              \* the members that vote
          MaxLines             \* bound: what the log is about -> how many lines

ASSUME SelfAssumption == Self \in Printed /\ Printed \subseteq Names
                          /\ HashOf \in [Names -> Hashes]
                          /\ Reborn \in [Names -> Hashes] /\ IPOf \in [Names -> IPs]

\* A shortened name is short.  A member has one uuid and address under all its
\* names, and is once in a view; members that share a uuid share the address.
ASSUME ClusterAssumption ==
  /\ IsFiniteSet(Printed) /\ "tcp" \in Methods
  /\ \A n \in Names : Short[Short[n]] = Short[n]
  /\ \A a, b \in Names : Short[a] = Short[b] => HashOf[a] = HashOf[b] /\ Reborn[a] = Reborn[b]
  /\ \A a, b \in Names : {HashOf[a], Reborn[a]} \cap {HashOf[b], Reborn[b]} # {} => IPOf[a] = IPOf[b]
ASSUME ViewsAssumption ==
  /\ Idxs \in Seq(STRING \ {"", "-1"}) /\ \A i, j \in DOMAIN Idxs : Idxs[i] = Idxs[j] => i = j
  /\ \A v \in Views : v \in Seq(Printed) /\ Len(v) <= Len(Idxs)
       /\ \A i, j \in DOMAIN v : Short[v[i]] = Short[v[j]] => i = j
ASSUME SeqnosAssumption == "" \notin Seqnos

Topics == {"views", "operator", "transfers", "votes"}

VARIABLES topic,    \* what the lines of this log are about
          m,        \* the program: context and translation maps
          now, lines, \* time and number of lines so far, the lines of a view counted once
          uuid,     \* member -> its uuid now
          selected, \* state transfers: donor, joiner, when the donor was selected
          won,      \* seqno -> the checksum that won its vote, "" before
          voting    \* the seqno being voted on, or ""
vars == <<topic, m, now, lines, uuid, selected, won, voting>>
truth == <<topic, now, uuid, selected, won, voting>>

\* Inside the program members go by their shortened names.
Members == {Short[n] : n \in Printed}
-----------------------------------------------------------------------------
\* A line a regex matches: a submatch that is not in it is empty.
Line(re) ==
  [re |-> re, ftype |-> "error.log", ts |-> now, parsed |-> TRUE,
   ip |-> "", hash |-> "", hash2 |-> "", idx |-> "", name |-> "", donor |-> "", method |-> "",
   truncated |-> FALSE, members |-> 0, primary |-> FALSE, assocs |-> <<>>, state2 |-> "",
   version |-> "", seqno |-> "", selected |-> 0, md5 |-> "", oldMD5 |-> ""]

\* Lines read one after the other.
HandleAll(es) ==
  LET after[i \in 0..Len(es)] ==
        IF i = 0 THEN {m} ELSE UNION {Handle(x, es[i]) : x \in after[i - 1]}
  IN after[Len(es)]

\* The regexes a line matches, in any order: two, or any number.
HandleBoth(e, f) ==
  UNION ({Handle(x, f) : x \in Handle(m, e)} \cup {Handle(x, e) : x \in Handle(m, f)})
HandleEach(S) == UNION {HandleAll(order) : order \in SetToSeqs(S)}

Leads(after) == lines < MaxLines[topic] /\ lines' = lines + 1 /\ m' \in after
Read(e) == Leads(Handle(m, e))
ReadBoth(e, f) == Leads(HandleBoth(e, f))

\* The node's index in a view it may be out of.
OwnIdx(v) ==
  LET own == {i \in DOMAIN v : Short[v[i]] = Short[Self]}
  IN IF own = {} THEN "-1" ELSE Idxs[CHOOSE i \in own : TRUE]
OwnIndex(re, v) == [Line(re) EXCEPT !.idx = OwnIdx(v)]
Count(v) == [Line("RegexMemberCount") EXCEPT !.members = Len(v)]
Member(v, i) ==
  [Line("RegexMemberAssociations") EXCEPT !.idx = Idxs[i], !.hash = uuid[v[i]], !.name = v[i]]

\* A view line by line; the names of some members are cut at 31 characters.
ViewLines(v, cut) ==
  <<OwnIndex("RegexOwnIndexFromView", v), Count(v)>>
  \o [i \in DOMAIN v |-> [Member(v, i) EXCEPT !.truncated = v[i] \in cut]]

\* What the operator's line about a view matches; one that tells of the view
\* recovered from a state transfer is not taken for a list of members.
Associations(v) ==
  [Line("RegexOperatorMemberAssociations") EXCEPT !.idx = OwnIdx(v), !.parsed = v # <<>>,
     !.assocs = [i \in DOMAIN v |-> Member(v, i)]]
OneLine(v, recovered) ==
  {OwnIndex("RegexOwnIndexFromView", v), Count(v)} \cup {Member(v, i) : i \in DOMAIN v \cap {1}}
  \cup (IF recovered THEN {} ELSE {Associations(v)})

Peer(re, n) == [Line(re) EXCEPT !.hash = uuid[n], !.ip = IPOf[n], !.method = "tcp"]
Established(n) == Peer("RegexNodeEstablished", n)
OwnUUID(re) == [Line(re) EXCEPT !.hash = uuid[Self]]
Component(p, v) == [Line("RegexNewComponent") EXCEPT !.primary = p, !.members = Len(v)]
NewIdentity(n) == [Line("RegexNodeChangedIdentity") EXCEPT !.hash = HashOf[n], !.hash2 = uuid[n]]

\* The group's thread tells of the next components before the views of the
\* earlier ones are printed: a component may be of any view.
Identity ==
  /\ topic \in {"views", "operator"}
  /\ \/ \E n \in Printed : Read(Peer("RegexNodeJoined", n))
     \/ \E n \in Printed : uuid[n] # HashOf[n] /\ Read(NewIdentity(n))
     \/ \E e \in {[Line("RegexBaseHost") EXCEPT !.ip = IPOf[Self]], OwnUUID("RegexOwnUUID")} : Read(e)
     \/ \E p \in BOOLEAN, v \in Views :
          ReadBoth(Component(p, v), OwnIndex("RegexMyIDXFromComponent", v))
     \/ \E n \in Printed : ReadBoth(Established(n), OwnUUID("RegexOwnUUIDFromEstablished"))
  /\ UNCHANGED truth

\* A server prints a view at once; a log may begin in the middle of one.
View ==
  /\ topic = "views"
  /\ \E v \in Views : \E cut \in SUBSET ToSet(v) : LET all == ViewLines(v, cut) IN
       \E from \in 1..Len(all) :
         /\ from = 1 \/ lines = 0
         /\ Leads(HandleAll(SubSeq(all, from, Len(all))))
  /\ UNCHANGED truth

OperatorView ==
  /\ topic = "operator"
  /\ \E v \in Views, recovered \in BOOLEAN : Leads(HandleEach(OneLine(v, recovered)))
  /\ UNCHANGED truth

\* A member comes back under another uuid.
Restart ==
  /\ topic \in {"views", "operator"}
  /\ \E n \in Printed :
       /\ uuid[n] # Reborn[n]
       /\ uuid' = [x \in Names |-> IF Short[x] = Short[n] THEN Reborn[x] ELSE uuid[x]]
  /\ UNCHANGED <<topic, m, now, lines, selected, won, voting>>

\* The operator's entry point prints the name and the address.
OwnName == Read([Line("RegexNodeNameFromEnv") EXCEPT !.name = Short[Self]]) /\ UNCHANGED truth
OwnAddress == /\ topic \in {"operator", "transfers"} /\ Read([Line("RegexNodeIPFromEnv") EXCEPT !.ip = IPOf[Self]])
              /\ UNCHANGED truth

States == /\ topic # "votes"
          /\ \E s \in {"SYNCED", "CLOSED"} : Read([Line("RegexShift") EXCEPT !.state2 = s])
          /\ UNCHANGED truth

Events == /\ topic = "views"
          /\ \E re \in DOMAIN EventState : Read([Line(re) EXCEPT !.version = "8.0"])
          /\ UNCHANGED truth

Tick == /\ topic = "transfers" /\ now < MaxTime /\ now' = now + 1
        /\ UNCHANGED <<topic, m, lines, uuid, selected, won, voting>>

\* State transfers begin more than a hundredth of a second apart.
SelectDonor == \E donor, joiner \in Printed :
  /\ topic = "transfers" /\ Short[donor] # Short[joiner] /\ \A s \in selected : s.at < now - 1
  /\ Read([Line("RegexSSTRequestSuccess") EXCEPT !.name = joiner, !.donor = donor, !.selected = now])
  /\ selected' = selected \cup {[donor |-> Short[donor], joiner |-> Short[joiner], at |-> now]}
  /\ UNCHANGED <<topic, now, uuid, won, voting>>

\* The donor and the joiner shift within a hundredth of a second.
Transfer ==
  /\ \E s \in selected :
       /\ now - s.at <= 1
       /\ \/ s.joiner = Short[Self] /\ Read([Line("RegexShift") EXCEPT !.state2 = "JOINER"])
          \/ s.donor = Short[Self] /\ Read([Line("RegexShift") EXCEPT !.state2 = "DONOR"])
  /\ UNCHANGED truth

Progress ==
  /\ \E re \in DOMAIN SSTStage : Read([Line(re) EXCEPT !.seqno = "0"])
  /\ \E s \in selected : Short[Self] \in {s.donor, s.joiner}
  /\ UNCHANGED truth

\* A line about a joiner that left is taken for one about a joiner with a name,
\* which it then does not have.
Over(re, donor) == [Line(re) EXCEPT !.donor = donor]
NamelessOver(re, donor) == [Over(re, donor) EXCEPT !.parsed = FALSE]
TransferEnds ==
  /\ \E s \in selected :
       \/ Read(Over("RegexSSTComplete", s.donor)) \/ Read(Over("RegexSSTStateTransferFailed", s.donor))
       \/ ReadBoth(Over("RegexSSTCompleteUnknown", s.donor), NamelessOver("RegexSSTComplete", s.donor))
       \/ ReadBoth(Over("RegexSSTFailedUnknown", s.donor), NamelessOver("RegexSSTStateTransferFailed", s.donor))
  /\ UNCHANGED truth

\* Votes are held one at a time, on sequence numbers that only grow; several
\* members may begin one.
InitVote == topic = "votes" /\ \E s \in Seqnos, n \in Voters, md5 \in UNION {MD5s[x] : x \in Seqnos} :
  /\ voting \in {"", s} /\ won[s] = "" /\ md5 \in MD5s[s] \ {Success}
  /\ Read([Line("RegexInconsistencyVoteInit") EXCEPT !.name = n, !.seqno = s, !.md5 = md5])
  /\ voting' = s /\ UNCHANGED <<topic, now, uuid, selected, won>>

Respond == \E n \in Voters :
  /\ voting # ""
  /\ \/ \E md5 \in MD5s[voting] : \E re \in {"RegexInconsistencyVoteRespond", "RegexInconsistencyRecovery"} :
          Read([Line(re) EXCEPT !.name = n, !.seqno = voting, !.md5 = md5])
     \/ Success \in MD5s[voting]
        /\ Read([Line("RegexInconsistencyVoteInconsistentWithGroup") EXCEPT !.seqno = voting])
  /\ UNCHANGED truth

Recompute ==
  /\ voting # ""
  /\ \E a, b \in MD5s[voting] : Read([Line("RegexInconsistencyVoteRecomputed") EXCEPT !.oldMD5 = a, !.md5 = b])
  /\ UNCHANGED truth

\* The winner's line does not say which vote it ends.
Winner ==
  /\ voting # ""
  /\ \E md5 \in MD5s[voting] :
       /\ Read([Line("RegexInconsistencyWinner") EXCEPT !.md5 = md5])
       /\ won' = [won EXCEPT ![voting] = md5]
  /\ voting' = "" /\ UNCHANGED <<topic, now, uuid, selected>>

Init ==
  /\ topic \in Topics
  /\ m = [ctx |-> NewLogCtx("log"), db |-> EmptyDB]
  /\ now = 1 /\ lines = 0 /\ uuid = HashOf /\ selected = {} /\ voting = ""
  /\ won = [s \in Seqnos |-> ""]

Next == \/ Tick \/ Identity \/ View \/ OperatorView \/ Restart \/ OwnName \/ OwnAddress
        \/ States \/ Events \/ SelectDonor \/ Transfer \/ Progress \/ TransferEnds \/ InitVote \/ Respond \/ Recompute \/ Winner

Spec == Init /\ [][Next]_vars
-----------------------------------------------------------------------------
(* Properties.                                                              *)

TypeOK ==
  /\ ToSet(m.ctx.names) \subseteq Members /\ ToSet(m.ctx.hashes) \subseteq Hashes
  /\ ToSet(m.ctx.ips) \subseteq IPs
  /\ \A f \in FileTypes : m.ctx.states[f] \in WsrepStates \cup {""}
  /\ \A k \in DOMAIN m.ctx.ssts : m.ctx.ssts[k].donor = k

\* Outside the operator, whatever views, components, restarts and transfers of
\* other nodes are told, the log is taken for its own node's and no other: names
\* and uuids are only taken over from a view, at the index it gives the node, or
\* from the transfer the node shifts for.  A uuid may be the one it had before.
\* Of an operator's log this is false: see ViewOrderFree.
OwnIdentity ==
  topic # "operator" =>
    /\ ToSet(m.ctx.names) \subseteq {Short[Self]}
    /\ ToSet(m.ctx.hashes) \subseteq {HashOf[Self], Reborn[Self]}
    /\ ToSet(m.ctx.ips) \subseteq {IPOf[Self]}

\* What was propagated from the context into the maps is true of some life of a
\* member.
MapsTrue ==
  /\ \A h \in Hashes : m.db.HashToIP[h] # NoUnit =>
       \E n \in Names : h \in {HashOf[n], Reborn[n]} /\ IPOf[n] = m.db.HashToIP[h].value
  /\ \A h \in Hashes : \A i \in DOMAIN m.db.HashToNodeNames[h] :
       \E n \in Names : h \in {HashOf[n], Reborn[n]} /\ Short[n] = m.db.HashToNodeNames[h][i].value
  /\ \A p \in IPs : \A i \in DOMAIN m.db.IPToNodeNames[p] :
       \E n \in Names : IPOf[n] = p /\ Short[n] = m.db.IPToNodeNames[p][i].value

\* Once the node's name and address are both known, in whatever order they
\* came, its address is shown under its name.
AddressNamed ==
  m.ctx.names # <<>> /\ m.ctx.ips # <<>> =>
    GetNodeNameFromIP(m.db, Last(m.ctx.ips), now) = Last(m.ctx.names)

Propagated == topic # "operator" => MapsTrue /\ AddressNamed

\* Each vote is kept once, and its winner is the one that was announced for it.
WinnerIsOwn ==
  \A i \in DOMAIN m.ctx.conflicts : LET x == m.ctx.conflicts[i] IN
    /\ x.winner \in {"", won[x.seqno]}
    /\ \A j \in DOMAIN m.ctx.conflicts : m.ctx.conflicts[j].seqno = x.seqno => i = j

\* The regexes a line matches are tried in the order of a Go map.  For each of
\* the lines that match two, in every log, the outcome does not depend on it.
OrderFree ==
  topic # "operator" =>
    /\ \A p \in BOOLEAN, v \in Views :
         Cardinality(HandleBoth(Component(p, v), OwnIndex("RegexMyIDXFromComponent", v))) = 1
    /\ \A n \in Printed :
         Cardinality(HandleBoth(Established(n), OwnUUID("RegexOwnUUIDFromEstablished"))) = 1
    /\ \A n \in Printed :
         /\ Cardinality(HandleBoth(Over("RegexSSTCompleteUnknown", n),
                                   NamelessOver("RegexSSTComplete", n))) = 1
         /\ Cardinality(HandleBoth(Over("RegexSSTFailedUnknown", n),
                                   NamelessOver("RegexSSTStateTransferFailed", n))) = 1

\* The operator's line about a view matches four regexes.  Their order does not
\* matter when the index and the count it tells are those already known, as after
\* the component it follows from.  Otherwise it does, and the first member may be
\* compared with the index of another view and taken for the node.
ViewOrderFree ==
  topic = "operator" => \A v \in Views, recovered \in BOOLEAN :
    m.ctx.myIdx = OwnIdx(v) /\ m.ctx.members = Len(v) =>
      Cardinality(HandleEach(OneLine(v, recovered))) = 1
=============================================================================
