------------------------- MODULE MongoSummaryProofs -------------------------
(***************************************************************************)
(* Theorems about MongoSummary, for every deployment, command line and     *)
(* answer of the servers.                                                  *)
(***************************************************************************)
EXTENDS MongoSummary, FiniteSetTheorems, TLAPS

USE DEF main, members, sampling, cluster, locals, NoRows, NoOps

GetsMembers == {"members", "member", "status", "rows"}

\* The sections whose loss the log level keeps quiet.
Unheard ==
  (IF Heard(Error) THEN {} ELSE {"security"})
  \cup (IF Heard(Warn) THEN {} ELSE {"mongos", "members"})
  \cup (IF Heard(Info) THEN {} ELSE {"ops", "oplog", "cluster", "balancer"})

Seen == sections \cup logged \cup Unheard

(* MissingIsSaid: where main has got to, what was asked is accounted for.   *)

Applicable ==
  {"mongos", "host", "members", "security", "oplog"}
  \cup (IF opts.samples = 0 THEN {} ELSE {"ops"})
  \cup (IF nodeType = "mongos" THEN {"cluster", "balancer"} ELSE {})

AskedSoFar ==
  /\ opts \in CliOptions
  /\ pc \in {"flags", "client", "connect", "hostnames", "mongos", "hostinfo"}
       => "host" \notin sections
  /\ "host" \in sections => nodeType \in {NodeType(Target), ""}
  /\ pc = "hostinfo" => "mongos" \in Seen
  /\ pc \in GetsMembers => {"mongos", "host"} \subseteq Seen
  /\ pc = "ops" => {"mongos", "host", "members"} \subseteq Seen
  /\ pc \in {"security", "oplog", "cluster", "collections", "balancer", "format"}
       => /\ {"mongos", "host", "members"} \subseteq Seen
          /\ opts.samples = 0 \/ "ops" \in Seen
  /\ pc \in {"oplog", "cluster", "collections", "balancer", "format"} => "security" \in Seen
  /\ pc \in {"cluster", "collections", "balancer", "format"} => "oplog" \in Seen
  /\ pc \in {"balancer", "format"} /\ nodeType = "mongos" => "cluster" \in Seen
  /\ pc = "format" /\ nodeType = "mongos" => "balancer" \in Seen
  /\ pc = "done" /\ "host" \in sections => Applicable \subseteq Seen

LEMMA AskedInit == Init => AskedSoFar
BY CommandLinesAssumption DEF Init, AskedSoFar, GetsMembers

LEMMA AskedStep == AskedSoFar /\ [Next]_vars => AskedSoFar'
<1> SUFFICES ASSUME AskedSoFar, [Next]_vars PROVE AskedSoFar'
  OBVIOUS
<1>0. /\ opts' \in CliOptions /\ UNCHANGED <<opts.log, opts.samples>>
      /\ UNCHANGED Unheard /\ UNCHANGED NodeType(Target)
  <2>1. opts' \in CliOptions /\ UNCHANGED <<opts.log, opts.samples, opts.host>>
    <3>1. CASE GetClientOptions
      BY <3>1 DEF GetClientOptions, AskedSoFar, CliOptions
    <3>2. UNCHANGED opts \/ GetClientOptions
      BY DEF Next, vars, ParseFlags, Connect, Hostnames, MongosInfo, HostInfo,
         GetReplicasetMembers, AskMembers, AskMember, BareMember, MemberView, AddMember,
         NextMember, GotMembers, GetOpCountersStats, NoSamples, Sample, SampleFails, Sampled,
         SecuritySettings, GetOplogInfo, OplogOfHost, OplogFails, GotOplogs,
         GetClusterwideInfo, NotAMongos, ListCollections, CountCollection, ClusterFails,
         GotCluster, Balancer, FormatResults
    <3>3. ASSUME UNCHANGED opts
          PROVE  opts' \in CliOptions /\ UNCHANGED <<opts.log, opts.samples, opts.host>>
      BY <3>3 DEF AskedSoFar
    <3> QED
      BY <3>1, <3>2, <3>3
  <2>2. UNCHANGED <<Heard(Error), Heard(Warn), Heard(Info)>>
    BY <2>1 DEF Heard
  <2> QED
    BY <2>1, <2>2 DEF Unheard, Target
<1> DEFINE U == Unheard
           N == NodeType(Target)
<1>a. /\ U' = U /\ N' = N
      /\ Heard(Error) \/ "security" \in U
      /\ Heard(Warn) \/ {"mongos", "members"} \subseteq U
      /\ Heard(Info) \/ {"ops", "oplog", "cluster", "balancer"} \subseteq U
  BY <1>0 DEF Unheard
<1> HIDE DEF U, N
<1>b. Unheard = U /\ Unheard' = U' /\ NodeType(Target) = N /\ NodeType(Target)' = N'
  BY DEF U, N
<1> USE <1>0, <1>a, <1>b DEF AskedSoFar, GetsMembers, Seen, Goto, Exit, Found, Complain
<1>1. CASE ParseFlags
  BY <1>1 DEF ParseFlags
<1>2. CASE GetClientOptions
  BY <1>2 DEF GetClientOptions
<1>3. CASE Connect
  BY <1>3 DEF Connect
<1>4. CASE Hostnames
  BY <1>4 DEF Hostnames
<1>5. CASE MongosInfo
  BY <1>5 DEF MongosInfo
<1>6. CASE HostInfo
  BY <1>6 DEF HostInfo
<1>7. CASE GetReplicasetMembers
  <2>1. CASE AskMembers
    <3>1. PICK a \in GetHostnames(Target) :
            \/ MembersFail("members")
            \/ Goto("members", "member") /\ UNCHANGED <<sections, logged>>
      BY <2>1 DEF AskMembers
    <3>2. UNCHANGED <<opts, nodeType>>
      BY <2>1 DEF AskMembers
    <3>3. CASE MembersFail("members")
      BY <3>2, <3>3 DEF MembersFail
    <3>4. CASE Goto("members", "member") /\ UNCHANGED <<sections, logged>>
      BY <3>2, <3>4
    <3> QED
      BY <3>1, <3>3, <3>4
  <2>2. CASE AskMember
    BY <2>2 DEF AskMember, MembersFail
  <2>3. CASE BareMember
    BY <2>3 DEF BareMember
  <2>4. CASE MemberView
    BY <2>4 DEF MemberView, MembersFail
  <2>5. CASE AddMember
    BY <2>5 DEF AddMember
  <2>6. CASE NextMember
    BY <2>6 DEF NextMember
  <2>7. CASE GotMembers
    BY <2>7 DEF GotMembers
  <2> QED
    BY <1>7, <2>1, <2>2, <2>3, <2>4, <2>5, <2>6, <2>7 DEF GetReplicasetMembers
<1>8. CASE GetOpCountersStats
  <2>1. CASE NoSamples
    <3>1. pc = "ops" /\ pc' = "security" /\ opts.samples = 0
          /\ UNCHANGED <<opts, nodeType, sections, logged>>
      BY <2>1 DEF NoSamples
    <3> QED
      BY <3>1
  <2>2. CASE Sample
    BY <2>2 DEF Sample
  <2>3. CASE SampleFails
    BY <2>3 DEF SampleFails
  <2>4. CASE Sampled
    BY <2>4 DEF Sampled
  <2> QED
    BY <1>8, <2>1, <2>2, <2>3, <2>4 DEF GetOpCountersStats
<1>9. CASE SecuritySettings
  BY <1>9 DEF SecuritySettings
<1>10. CASE GetOplogInfo
  <2>1. CASE OplogOfHost
    BY <2>1 DEF OplogOfHost
  <2>2. CASE OplogFails
    BY <2>2 DEF OplogFails
  <2>3. CASE GotOplogs
    <3>1. Complain("oplog", Info) \/ Found("oplog")
      BY <2>3 DEF GotOplogs
    <3>2. pc = "oplog" /\ pc' = "cluster" /\ UNCHANGED <<opts, nodeType>>
      BY <2>3 DEF GotOplogs
    <3>3. CASE Found("oplog")
      BY <3>2, <3>3
    <3>4. CASE Complain("oplog", Info)
      BY <3>2, <3>4
    <3> QED
      BY <3>1, <3>3, <3>4
  <2> QED
    BY <1>10, <2>1, <2>2, <2>3 DEF GetOplogInfo
<1>11. CASE GetClusterwideInfo
  <2>1. CASE NotAMongos
    BY <2>1 DEF NotAMongos
  <2>2. CASE ListCollections
    BY <2>2 DEF ListCollections
  <2>3. CASE CountCollection
    BY <2>3 DEF CountCollection
  <2>4. CASE ClusterFails
    BY <2>4 DEF ClusterFails
  <2>5. CASE GotCluster
    BY <2>5 DEF GotCluster
  <2> QED
    BY <1>11, <2>1, <2>2, <2>3, <2>4, <2>5 DEF GetClusterwideInfo
<1>12. CASE Balancer
  BY <1>12 DEF Balancer
<1>13. CASE FormatResults
  BY <1>13 DEF FormatResults, Applicable
<1>14. CASE UNCHANGED vars
  <2>1. UNCHANGED <<pc, opts, nodeType, sections, logged>>
    BY <1>14 DEF vars
  <2>2. UNCHANGED <<Applicable, Seen>>
    BY <2>1 DEF Applicable
  <2> HIDE DEF Seen
  <2> QED
    BY <2>1, <2>2
<1> QED
  BY <1>1, <1>2, <1>3, <1>4, <1>5, <1>6, <1>7, <1>8, <1>9, <1>10, <1>11, <1>12, <1>13,
     <1>14 DEF Next

\* Of a section that the report of pt-mongodb-summary lacks, the user was told, as
\* far as --log-level shows what main logs: all of them from Info on (but a cluster's
\* after an isMaster without answer), all but four at the default level.
THEOREM MissingIsSaidTheorem == Spec => []MissingIsSaid
<1>1. AskedSoFar => MissingIsSaid
  <2> SUFFICES ASSUME AskedSoFar, pc \in {"format", "done"}, "host" \in sections
               PROVE  /\ Heard(Info) => Silent \subseteq
                           IF nodeType = "" THEN {"cluster", "balancer"} ELSE {}
                      /\ Heard(Warn) => Silent \subseteq {"ops", "oplog", "cluster", "balancer"}
    BY DEF MissingIsSaid
  <2>1. Applicable \subseteq Seen
    BY DEF AskedSoFar, Applicable
  <2>2. (Heard(Info) => Heard(Warn)) /\ (Heard(Warn) => Heard(Error))
    <3>1. opts.log \in 0..6
      BY DEF AskedSoFar, CliOptions
    <3> QED
      BY <3>1 DEF Heard, Info, Warn, Error
  <2>10. opts.samples > 0 <=> opts.samples # 0
    <3>1. opts.samples \in Nat
      BY DEF AskedSoFar, CliOptions
    <3> QED
      BY <3>1
  <2>3. Wanted \subseteq Applicable \cup {"cluster", "balancer"}
    BY <2>10 DEF Wanted, Applicable
  <2>4. nodeType # "" => Wanted \subseteq Applicable
    BY HostsAssumption, <2>10 DEF AskedSoFar, NodeType, Wanted, Applicable, Target, CliOptions
  <2>5. Silent \subseteq Wanted /\ Silent \cap (sections \cup logged) = {}
    BY DEF Silent
  <2>6. Heard(Info) => Seen = sections \cup logged
    BY <2>2 DEF Seen, Unheard
  <2>7. Heard(Warn) =>
          Seen \subseteq sections \cup logged \cup {"ops", "oplog", "cluster", "balancer"}
    BY <2>2 DEF Seen, Unheard
  <2>8. nodeType # "" => Silent \subseteq Seen \ (sections \cup logged)
    BY <2>1, <2>4, <2>5
  <2>9. Silent \subseteq (Seen \ (sections \cup logged)) \cup {"cluster", "balancer"}
    BY <2>1, <2>3, <2>5
  <2> QED
    BY <2>6, <2>7, <2>8, <2>9
<1> QED
  BY <1>1, AskedInit, AskedStep, PTL DEF Spec
-----------------------------------------------------------------------------
(* OnePrimary.  A set whose primary is known has all its members listed, so *)
(* a later view of it adds nothing; the view that is being gone through has *)
(* one primary, and no primary of its set is known unless it is that one.   *)

Asking == {"member", "status", "rows"}

ViewInv ==
  /\ DOMAIN rows \subseteq Hosts
  /\ pc \notin Asking => rows = NoRows
  /\ \A h \in DOMAIN rows : rows[h].state = "PRIMARY" =>
       /\ rows[h].set = SetOf[h]
       /\ \/ Members(SetOf[h]) \subseteq DOMAIN rows
          \/ pc = "rows" /\ SetOf[h] = SetOf[host]
  /\ pc = "rows" =>
       /\ DOMAIN view \subseteq Members(SetOf[host])
       /\ Members(SetOf[host]) \subseteq DOMAIN view \cup DOMAIN rows
       /\ \A a, b \in DOMAIN view : view[a] = "PRIMARY" /\ view[b] = "PRIMARY" => a = b
       /\ \A a \in DOMAIN view \ DOMAIN rows, b \in DOMAIN rows :
            view[a] = "PRIMARY" /\ rows[b].state = "PRIMARY" => SetOf[b] # SetOf[host]
  /\ pc = "status" => host \in Hosts
  /\ pc \in GetsMembers => todo \subseteq Hosts
  /\ OnePrimary

LEMMA OneMoreRow ==
  ASSUME NEW m, NEW row, PutRow(m, row)
  PROVE  /\ DOMAIN rows' = DOMAIN rows \cup {m} /\ rows'[m] = row
         /\ \A h \in DOMAIN rows : h # m => rows'[h] = rows[h]
BY DEF PutRow

LEMMA MembersDoneView ==
  ASSUME ViewInv, MembersDone, pc' = "ops" PROVE ViewInv'
<1>1. rows' = NoRows /\ DOMAIN rows' = {}
  BY DEF MembersDone
<1> QED
  BY <1>1 DEF ViewInv, Asking, GetsMembers, OnePrimary

LEMMA AskMemberView == ViewInv /\ AskMember => ViewInv'
<1> SUFFICES ASSUME ViewInv, AskMember PROVE ViewInv'
  OBVIOUS
<1>1. CASE MembersFail("member")
  BY <1>1, MembersDoneView DEF MembersFail, Goto
<1>2. CASE Goto("member", "status") /\ (\E h \in todo : host' = h)
  BY <1>2 DEF AskMember, MembersFail, Goto, ViewInv, Asking, GetsMembers, OnePrimary
<1> QED
  BY <1>1, <1>2 DEF AskMember

LEMMA BareMemberView == ViewInv /\ BareMember => ViewInv'
<1> SUFFICES ASSUME ViewInv, BareMember PROVE ViewInv'
  OBVIOUS
<1>1. PICK pid : PutRow(host, MemberRow("", "", role, pid))
  BY DEF BareMember
<1> DEFINE row == MemberRow("", "", role, pid)
<1>4. row.state = ""
  BY DEF MemberRow
<1> HIDE DEF row
<1>2. /\ DOMAIN rows' = DOMAIN rows \cup {host}
      /\ rows'[host].state = "" 
      /\ \A h \in DOMAIN rows : h # host => rows'[h] = rows[h]
  BY <1>1, <1>4, OneMoreRow DEF row
<1>3. pc = "status" /\ pc' = "member" /\ todo' \subseteq todo
  BY DEF BareMember, Goto, NextHost
<1> QED
  BY <1>2, <1>3 DEF ViewInv, Asking, GetsMembers, OnePrimary

LEMMA MemberViewView == ViewInv /\ MemberView => ViewInv'
<1> SUFFICES ASSUME ViewInv, MemberView PROVE ViewInv'
  OBVIOUS
<1>1. CASE MembersFail("status")
  BY <1>1, MembersDoneView DEF MembersFail, Goto
<1>2. CASE Goto("status", "rows") /\ view' \in Views(SetOf[host]) /\ UNCHANGED <<todo, host, rows>>
  <2>1. /\ DOMAIN view' = Members(SetOf[host])
        /\ \A a, b \in DOMAIN view' : view'[a] = "PRIMARY" /\ view'[b] = "PRIMARY" => a = b
    BY <1>2 DEF Views
  <2> QED
    BY <1>2, <2>1 DEF Goto, ViewInv, Asking, GetsMembers, OnePrimary
<1> QED
  BY <1>1, <1>2 DEF MemberView

LEMMA AddMemberView == ViewInv /\ AddMember => ViewInv'
<1> SUFFICES ASSUME ViewInv, AddMember PROVE ViewInv'
  OBVIOUS
<1>1. pc = "rows" /\ pc' = "rows" /\ UNCHANGED <<todo, host>>
  BY DEF AddMember, Goto
<1>2. PICK m \in DOMAIN view :
        /\ view' = [h \in DOMAIN view \ {m} |-> view[h]]
        /\ IF Known(m) THEN UNCHANGED rows
           ELSE \E row \in {MemberRow(SetOf[m], view[m], role, host),
                            MemberRow(SetOf[m], view[m], "", "")} :
                  PutRow(m, row)
  BY DEF AddMember
<1>3. CASE m \in DOMAIN rows
  BY <1>1, <1>2, <1>3 DEF Known, ViewInv, Asking, GetsMembers, OnePrimary
<1>4. CASE m \notin DOMAIN rows
  <2>1. /\ DOMAIN rows' = DOMAIN rows \cup {m}
        /\ rows'[m].state = view[m] /\ rows'[m].set = SetOf[m]
        /\ \A h \in DOMAIN rows : rows'[h] = rows[h]
    <3>1. PICK row \in {MemberRow(SetOf[m], view[m], role, host),
                        MemberRow(SetOf[m], view[m], "", "")} : PutRow(m, row)
      BY <1>2, <1>4 DEF Known
    <3>2. row.state = view[m] /\ row.set = SetOf[m]
      <4>1. \/ row = MemberRow(SetOf[m], view[m], role, host)
            \/ row = MemberRow(SetOf[m], view[m], "", "")
        BY <3>1
      <4>2. CASE row = MemberRow(SetOf[m], view[m], role, host)
        BY <4>2 DEF MemberRow
      <4>3. CASE row = MemberRow(SetOf[m], view[m], "", "")
        BY <4>3 DEF MemberRow
      <4> QED
        BY <4>1, <4>2, <4>3
    <3>3. /\ DOMAIN rows' = DOMAIN rows \cup {m} /\ rows'[m] = row
          /\ \A h \in DOMAIN rows : h # m => rows'[h] = rows[h]
      BY <3>1, OneMoreRow
    <3> QED
      BY <1>4, <3>2, <3>3
  <2>2. m \in Hosts /\ SetOf[m] = SetOf[host]
    BY <1>1 DEF ViewInv, Members
  <2>3. OnePrimary'
    BY <1>1, <1>4, <2>1, <2>2 DEF ViewInv, OnePrimary
  <2>4. /\ DOMAIN view' = DOMAIN view \ {m}
        /\ \A h \in DOMAIN view' : view'[h] = view[h]
    BY <1>2
  <2>5. /\ DOMAIN view' \subseteq Members(SetOf[host'])
        /\ Members(SetOf[host']) \subseteq DOMAIN view' \cup DOMAIN rows'
    BY <1>1, <2>1, <2>4 DEF ViewInv
  <2>6. \A a, b \in DOMAIN view' : view'[a] = "PRIMARY" /\ view'[b] = "PRIMARY" => a = b
    BY <1>1, <2>4 DEF ViewInv
  <2>7. \A a \in DOMAIN view' \ DOMAIN rows', b \in DOMAIN rows' :
          view'[a] = "PRIMARY" /\ rows'[b].state = "PRIMARY" => SetOf[b] # SetOf[host']
    <3> SUFFICES ASSUME NEW a \in DOMAIN view' \ DOMAIN rows', NEW b \in DOMAIN rows',
                        view'[a] = "PRIMARY", rows'[b].state = "PRIMARY"
                 PROVE  SetOf[b] # SetOf[host]
      BY <1>1
    <3>1. a \in DOMAIN view \ DOMAIN rows /\ view[a] = "PRIMARY" /\ a # m
      BY <2>1, <2>4
    <3>2. b # m
      BY <1>1, <2>1, <3>1 DEF ViewInv
    <3> QED
      BY <1>1, <2>1, <3>1, <3>2 DEF ViewInv
  <2>8. \A h \in DOMAIN rows' : rows'[h].state = "PRIMARY" =>
          /\ rows'[h].set = SetOf[h]
          /\ \/ Members(SetOf[h]) \subseteq DOMAIN rows'
             \/ SetOf[h] = SetOf[host']
    BY <1>1, <2>1, <2>2 DEF ViewInv
  <2>9. DOMAIN rows' \subseteq Hosts /\ todo' \subseteq Hosts
    BY <1>1, <2>1, <2>2 DEF ViewInv, GetsMembers
  <2> QED
    BY <1>1, <2>3, <2>5, <2>6, <2>7, <2>8, <2>9 DEF ViewInv, Asking, GetsMembers
<1> QED
  BY <1>3, <1>4

LEMMA ViewInit == Init => ViewInv
<1>1. Init => pc = "flags" /\ rows = NoRows
  BY DEF Init
<1> QED
  BY <1>1 DEF ViewInv, Asking, GetsMembers, OnePrimary

\* What the other questions leave alone.
ElsewhereView == UNCHANGED rows /\ pc \notin GetsMembers /\ pc' \notin Asking

LEMMA ElsewhereViewInv ==
  ASSUME ViewInv, ElsewhereView, pc' = "members" => todo' = {} PROVE ViewInv'
BY DEF ElsewhereView, ViewInv, Asking, GetsMembers, OnePrimary

LEMMA ElsewhereSteps ==
  ASSUME [Next]_vars, ~GetReplicasetMembers
  PROVE  UNCHANGED vars \/ ElsewhereView
<1> USE DEF Goto, Exit, ElsewhereView, GetsMembers, Asking
<1>1. CASE ParseFlags \/ GetClientOptions \/ Connect \/ Hostnames \/ MongosInfo \/ HostInfo
  BY <1>1 DEF ParseFlags, GetClientOptions, Connect, Hostnames, MongosInfo, HostInfo
<1>2. CASE GetOpCountersStats
  BY <1>2 DEF GetOpCountersStats, NoSamples, Sample, SampleFails, Sampled
<1>3. CASE SecuritySettings \/ GetOplogInfo \/ Balancer \/ FormatResults
  BY <1>3 DEF SecuritySettings, GetOplogInfo, OplogOfHost, OplogFails, GotOplogs, Balancer,
              FormatResults
<1>4. CASE GetClusterwideInfo
  BY <1>4 DEF GetClusterwideInfo, NotAMongos, ListCollections, CountCollection, ClusterFails,
              GotCluster
<1> QED
  BY <1>1, <1>2, <1>3, <1>4 DEF Next
-----------------------------------------------------------------------------
(* AskedIsListed: a host that is no longer to be asked has its row.         *)

ListedInv ==
  /\ pc \in {"flags", "client", "connect", "hostnames", "mongos", "hostinfo", "members"}
       => todo = {}
  /\ pc \in Asking => asked \subseteq todo \cup DOMAIN rows
  /\ pc \in {"status", "rows"} => host \in todo

LEMMA HostnamesInHosts ==
  ASSUME NEW h, NEW a \in GetHostnames(h)
  PROVE  a.hosts \subseteq Hosts
<1> DEFINE Answer(hosts, err) == [hosts |-> hosts, err |-> err]
<1> DEFINE map == FromShardMap
<1> DEFINE status == FromReplStatus(SetOf[h])
<1>1. map \subseteq Hosts /\ status \subseteq Hosts
  BY DEF FromShardMap, FromReplStatus, Members
<1>2. \/ a = Answer({}, "other") \/ a = Answer(map, "none") \/ a = Answer(status, "none")
      \/ a = Answer({}, "unsharded") \/ a = Answer({}, "none")
  BY DEF GetHostnames
<1> HIDE DEF map, status
<1> QED
  BY <1>1, <1>2

LEMMA AskMembersView == ViewInv /\ AskMembers => ViewInv'
<1> SUFFICES ASSUME ViewInv, AskMembers PROVE ViewInv'
  OBVIOUS
<1>1. CASE MembersFail("members")
  BY <1>1, MembersDoneView DEF MembersFail, Goto
<1>2. CASE ~MembersFail("members")
  <2>1. PICK a \in GetHostnames(Target) :
          /\ Goto("members", "member") /\ asked' = a.hosts /\ todo' = a.hosts
          /\ UNCHANGED <<host, role, view, rows>>
    BY <1>2 DEF AskMembers
  <2>2. todo' \subseteq Hosts
    BY <2>1, HostnamesInHosts
  <2> QED
    BY <2>1, <2>2 DEF Goto, ViewInv, Asking, GetsMembers, OnePrimary
<1> QED
  BY <1>1, <1>2

LEMMA ListedInit == Init => ListedInv
BY DEF Init, ListedInv, Asking

LEMMA MembersDoneListed ==
  ASSUME ListedInv, pc' = "ops", UNCHANGED <<opts, hostnames>> PROVE ListedInv'
BY DEF ListedInv, Asking, Target

LEMMA GetMembersListed ==
  ASSUME ListedInv, ViewInv, GetReplicasetMembers
  PROVE  ListedInv' /\ ViewInv'
<1> USE DEF Goto
<1>1. CASE AskMembers
  <2>1. ViewInv'
    BY <1>1, AskMembersView
  <2>2. CASE MembersFail("members")
    <3>1. pc' = "ops" /\ UNCHANGED <<opts, hostnames>>
      BY <1>1, <2>2 DEF AskMembers, MembersFail
    <3> QED
      BY <2>1, <3>1, MembersDoneListed
  <2>3. CASE ~MembersFail("members")
    <3>1. PICK a \in GetHostnames(Target) :
            /\ Goto("members", "member") /\ asked' = a.hosts /\ todo' = a.hosts
            /\ UNCHANGED <<host, role, view, rows>>
      BY <1>1, <2>3 DEF AskMembers
    <3> QED
      BY <2>1, <3>1 DEF ListedInv, Asking
  <2> QED
    BY <2>1, <2>2, <2>3
<1>2. CASE AskMember
  <2>1. ViewInv'
    BY <1>2, AskMemberView
  <2>2. CASE MembersFail("member")
    <3>1. pc' = "ops" /\ UNCHANGED <<opts, hostnames>>
      BY <1>2, <2>2 DEF AskMember, MembersFail
    <3> QED
      BY <2>1, <3>1, MembersDoneListed
  <2>3. CASE ~MembersFail("member")
    BY <1>2, <2>1, <2>3 DEF AskMember, First, ListedInv, Asking, Target
  <2> QED
    BY <2>1, <2>2, <2>3
<1>3. CASE BareMember
  <2>1. ViewInv'
    BY <1>3, BareMemberView
  <2>2. PICK pid : PutRow(host, MemberRow("", "", role, pid))
    BY <1>3 DEF BareMember
  <2>3. DOMAIN rows' = DOMAIN rows \cup {host}
    BY <2>2 DEF PutRow
  <2> QED
    BY <1>3, <2>1, <2>3 DEF BareMember, NextHost, ListedInv, Asking, Target
<1>4. CASE MemberView
  <2>1. ViewInv'
    BY <1>4, MemberViewView
  <2>2. CASE MembersFail("status")
    <3>1. pc' = "ops" /\ UNCHANGED <<opts, hostnames>>
      BY <1>4, <2>2 DEF MemberView, MembersFail
    <3> QED
      BY <2>1, <3>1, MembersDoneListed
  <2>3. CASE ~MembersFail("status")
    <3>1. /\ pc = "status" /\ pc' = "rows"
          /\ UNCHANGED <<asked, todo, host, rows>>
      BY <1>4, <2>3 DEF MemberView
    <3> QED
      BY <2>1, <3>1 DEF ListedInv, Asking
  <2> QED
    BY <2>1, <2>2, <2>3
<1>5. CASE AddMember
  <2>1. ViewInv'
    BY <1>5, AddMemberView
  <2>2. DOMAIN rows \subseteq DOMAIN rows'
    BY <1>5 DEF AddMember, PutRow
  <2> QED
    BY <1>5, <2>1, <2>2 DEF AddMember, ListedInv, Asking, Target
<1>6. CASE NextMember
  <2>1. ViewInv'
    BY <1>6 DEF NextMember, NextHost, ViewInv, Asking, GetsMembers, OnePrimary
  <2>2. host \in Members(SetOf[host]) /\ DOMAIN view = {}
    BY <1>6 DEF NextMember, ListedInv, ViewInv, Members, GetsMembers
  <2>3. host \in DOMAIN rows
    BY <1>6, <2>2 DEF NextMember, ViewInv
  <2> QED
    BY <1>6, <2>1, <2>3 DEF NextMember, NextHost, ListedInv, Asking, Target
<1>7. CASE GotMembers
  BY <1>7, MembersDoneView, MembersDoneListed DEF GotMembers
<1> QED
  BY <1>1, <1>2, <1>3, <1>4, <1>5, <1>6, <1>7 DEF GetReplicasetMembers

LEMMA ListedStep == ListedInv /\ ViewInv /\ [Next]_vars => ListedInv' /\ ViewInv'
<1> SUFFICES ASSUME ListedInv, ViewInv, [Next]_vars PROVE ListedInv' /\ ViewInv'
  OBVIOUS
<1> USE DEF Goto, Exit
<1>1. CASE GetReplicasetMembers
  BY <1>1, GetMembersListed
<1>2. CASE UNCHANGED vars
  BY <1>2 DEF vars, ListedInv, ViewInv, Asking, GetsMembers, OnePrimary, Target
<1>3. CASE ~GetReplicasetMembers /\ ElsewhereView
  <2>1. ListedInv'
    <3> USE DEF ListedInv, Asking, Target
    <3>1. CASE ParseFlags
      BY <3>1 DEF ParseFlags
    <3>2. CASE GetClientOptions
      BY <3>2 DEF GetClientOptions
    <3>3. CASE Connect
      BY <3>3 DEF Connect
    <3>4. CASE Hostnames
      BY <3>4 DEF Hostnames
    <3>5. CASE MongosInfo
      BY <3>5 DEF MongosInfo
    <3>6. CASE HostInfo
      BY <3>6 DEF HostInfo
    <3>7. CASE GetOpCountersStats
      BY <3>7 DEF GetOpCountersStats, NoSamples, Sample, SampleFails, Sampled
    <3>8. CASE SecuritySettings
      BY <3>8 DEF SecuritySettings
    <3>9. CASE GetOplogInfo
      BY <3>9 DEF GetOplogInfo, OplogOfHost, OplogFails, GotOplogs
    <3>10. CASE GetClusterwideInfo
      BY <3>10 DEF GetClusterwideInfo, NotAMongos, ListCollections, CountCollection,
                   ClusterFails, GotCluster
    <3>11. CASE Balancer
      BY <3>11 DEF Balancer
    <3>12. CASE FormatResults
      BY <3>12 DEF FormatResults
    <3> QED
      BY <1>2, <1>3, <3>1, <3>2, <3>3, <3>4, <3>5, <3>6, <3>7, <3>8, <3>9, <3>10, <3>11,
         <3>12 DEF Next, vars, ElsewhereView
  <2>2. pc' = "members" => todo' = {}
    BY <1>3, <2>1 DEF ListedInv
  <2> QED
    BY <1>3, <2>1, <2>2, ElsewhereViewInv
<1> QED
  BY <1>1, <1>2, <1>3, ElsewhereSteps
-----------------------------------------------------------------------------
(* OpsAddUp.                                                                *)

Readings == [OpKinds -> Int]

OpsInv ==
  /\ sample \in Nat /\ first \in Readings /\ prev \in Readings
  /\ oc.min \in Readings /\ oc.max \in Readings /\ oc.total \in Readings
  /\ sample = 1 => first = prev
  /\ OpsAddUp

LEMMA OpsInit == Init => OpsInv
<1> SUFFICES ASSUME Init PROVE OpsInv
  OBVIOUS
<1>1. /\ sample = 0 /\ first = NoOps /\ prev = NoOps
      /\ oc.min = NoOps /\ oc.max = NoOps /\ oc.total = NoOps
  BY DEF Init
<1>2. NoOps \in Readings
  BY DEF Readings
<1> HIDE DEF NoOps
<1>3. OpsAddUp
  BY <1>1 DEF OpsAddUp
<1> QED
  BY <1>1, <1>2, <1>3 DEF OpsInv

\* One difference more: n of them lie within their least and greatest, and so
\* does the next.
LEMMA Between ==
  ASSUME NEW n \in Nat, NEW lo \in Int, NEW hi \in Int, NEW total \in Int, NEW d \in Int,
         NEW lo2 \in Int, NEW hi2 \in Int,
         n * lo <= total, total <= n * hi,
         lo2 <= lo, lo2 <= d, hi <= hi2, d <= hi2
  PROVE  (n + 1) * lo2 <= total + d /\ total + d <= (n + 1) * hi2
<1>1. n * lo2 <= n * lo /\ n * hi <= n * hi2
  OBVIOUS
<1>2. (n + 1) * lo2 = n * lo2 + lo2 /\ (n + 1) * hi2 = n * hi2 + hi2
  OBVIOUS
<1> DEFINE a == n * lo
           b == n * hi
           a2 == n * lo2
           b2 == n * hi2
<1>3. a \in Int /\ b \in Int /\ a2 \in Int /\ b2 \in Int
  OBVIOUS
<1> HIDE DEF a, b, a2, b2
<1>4. a2 + lo2 <= total + d /\ total + d <= b2 + hi2
  BY <1>1, <1>3 DEF a, b, a2, b2
<1> QED
  BY <1>2, <1>4 DEF a2, b2

LEMMA SampleOps == OpsInv /\ Sample => OpsInv'
<1> SUFFICES ASSUME OpsInv, Sample PROVE OpsInv'
  OBVIOUS
<1>1. PICK reading \in [OpKinds -> 0..MaxOps] :
        /\ first' = IF sample = 0 THEN reading ELSE first
        /\ prev' = reading
        /\ oc' = CASE sample = 0 -> oc
                   [] sample = 1 -> [min |-> Delta(reading), max |-> Delta(reading),
                                     total |-> Delta(reading)]
                   [] OTHER -> [min |-> Lower(oc.min, Delta(reading)),
                                max |-> Upper(oc.max, Delta(reading)),
                                total |-> [k \in OpKinds |-> oc.total[k] + Delta(reading)[k]]]
  BY DEF Sample
<1>2. sample \in Nat /\ sample' = sample + 1
  BY DEF Sample, OpsInv
<1>3. /\ reading \in Readings /\ Delta(reading) \in Readings
      /\ \A k \in OpKinds : Delta(reading)[k] = reading[k] - prev[k]
  BY BoundsAssumption DEF Readings, Delta, OpsInv
<1>4. CASE sample = 0
  BY <1>1, <1>2, <1>3, <1>4 DEF OpsInv, OpsAddUp
<1>5. CASE sample = 1
  <2>1. /\ oc'.min = Delta(reading) /\ oc'.max = Delta(reading) /\ oc'.total = Delta(reading)
        /\ sample' = 2 /\ first' = prev /\ prev' = reading
    BY <1>1, <1>2, <1>5 DEF OpsInv
  <2>2. OpsAddUp'
    BY <1>3, <2>1 DEF OpsAddUp, Readings
  <2> QED
    BY <1>3, <2>1, <2>2 DEF OpsInv
<1>6. CASE sample > 1
  <2>1. /\ oc'.min = Lower(oc.min, Delta(reading)) /\ oc'.max = Upper(oc.max, Delta(reading))
        /\ oc'.total = [k \in OpKinds |-> oc.total[k] + Delta(reading)[k]]
        /\ first' = first /\ prev' = reading
    BY <1>1, <1>2, <1>6
  <2>2. oc'.min \in Readings /\ oc'.max \in Readings /\ oc'.total \in Readings
    BY <1>3, <2>1 DEF OpsInv, Lower, Upper, Readings
  <2>3. ASSUME NEW k \in OpKinds
        PROVE  /\ oc'.total[k] = prev'[k] - first'[k]
               /\ (sample' - 1) * oc'.min[k] <= oc'.total[k]
               /\ oc'.total[k] <= (sample' - 1) * oc'.max[k]
    <3> DEFINE d == Delta(reading)[k]
    <3>1. /\ d \in Int /\ d = reading[k] - prev[k]
          /\ reading[k] \in Int /\ prev[k] \in Int /\ first[k] \in Int
      BY <1>3 DEF OpsInv, Readings
    <3>2. /\ oc.min[k] \in Int /\ oc.max[k] \in Int /\ oc.total[k] \in Int
          /\ oc'.min[k] \in Int /\ oc'.max[k] \in Int
      BY <2>2 DEF OpsInv, Readings
    <3>3. /\ oc.total[k] = prev[k] - first[k]
          /\ (sample - 1) * oc.min[k] <= oc.total[k]
          /\ oc.total[k] <= (sample - 1) * oc.max[k]
      BY <1>6 DEF OpsInv, OpsAddUp
    <3> HIDE DEF d
    <3>4. oc'.total[k] = oc.total[k] + d
      BY <2>1 DEF d
    <3>5. /\ oc'.min[k] <= oc.min[k] /\ oc'.min[k] <= d
          /\ oc.max[k] <= oc'.max[k] /\ d <= oc'.max[k]
      BY <2>1, <3>1, <3>2 DEF Lower, Upper, d
    <3>6. sample - 1 \in Nat /\ sample' - 1 = (sample - 1) + 1
      BY <1>2, <1>6
    <3>7. /\ ((sample - 1) + 1) * oc'.min[k] <= oc.total[k] + d
          /\ oc.total[k] + d <= ((sample - 1) + 1) * oc'.max[k]
      BY <3>1, <3>2, <3>3, <3>5, <3>6, Between
    <3>8. oc'.total[k] = prev'[k] - first'[k]
      BY <2>1, <3>1, <3>2, <3>3, <3>4
    <3> QED
      BY <3>4, <3>6, <3>7, <3>8
  <2> QED
    BY <1>2, <1>3, <1>6, <2>1, <2>2, <2>3 DEF OpsInv, OpsAddUp
<1> QED
  BY <1>2, <1>4, <1>5, <1>6

LEMMA OpsChange == [Next]_vars => UNCHANGED sampling \/ Sample \/ OpsReturn
<1>1. ASSUME [Next]_vars, ~GetOpCountersStats PROVE UNCHANGED sampling
  <2>1. CASE GetReplicasetMembers
    BY <2>1 DEF GetReplicasetMembers, AskMembers, AskMember, BareMember, MemberView, AddMember,
                NextMember, GotMembers
  <2>2. CASE GetOplogInfo \/ GetClusterwideInfo
    BY <2>2 DEF GetOplogInfo, OplogOfHost, OplogFails, GotOplogs, GetClusterwideInfo, NotAMongos,
                ListCollections, CountCollection, ClusterFails, GotCluster
  <2> QED
    BY <1>1, <2>1, <2>2 DEF Next, vars, ParseFlags, GetClientOptions, Connect, Hostnames,
       MongosInfo, HostInfo, SecuritySettings, Balancer, FormatResults
<1>2. GetOpCountersStats => UNCHANGED sampling \/ Sample \/ OpsReturn
  BY DEF GetOpCountersStats, NoSamples, SampleFails, Sampled
<1> QED
  BY <1>1, <1>2

LEMMA OpsStep == OpsInv /\ [Next]_vars => OpsInv'
<1> SUFFICES ASSUME OpsInv, [Next]_vars PROVE OpsInv'
  OBVIOUS
<1>1. CASE UNCHANGED sampling
  BY <1>1 DEF OpsInv, OpsAddUp
<1>2. CASE Sample
  BY <1>2, SampleOps
<1>3. CASE OpsReturn
  BY <1>3 DEF OpsReturn, OpsInv, OpsAddUp, Readings
<1> QED
  BY <1>1, <1>2, <1>3, OpsChange
-----------------------------------------------------------------------------
\* Whatever the servers answer and whenever they restart or change their roles,
\* the member list of pt-mongodb-summary has one primary of a replica set at most
\* and every host that was asked, and the counted operations add up.
THEOREM GatheredTrueTheorem == Spec => []GatheredTrue
<1>1. Init => ListedInv /\ ViewInv /\ OpsInv
  BY ListedInit, ViewInit, OpsInit
<1>2. ListedInv /\ ViewInv /\ OpsInv /\ [Next]_vars => (ListedInv /\ ViewInv /\ OpsInv)'
  BY ListedStep, OpsStep
<1>3. ListedInv /\ ViewInv /\ OpsInv => GatheredTrue
  BY DEF ListedInv, ViewInv, OpsInv, GatheredTrue, AskedIsListed, Asking
<1> QED
  BY <1>1, <1>2, <1>3, PTL DEF Spec
-----------------------------------------------------------------------------
(* TypeOK.  Every question is asked once: what pc has not come to yet is    *)
(* neither in the report nor complained about.                              *)

Told == sections \cup logged

SeenBy ==
  /\ pc \in {"flags", "client", "connect", "hostnames"} => Told = {}
  /\ pc = "mongos" => Told \subseteq {"hostnames"}
  /\ pc = "hostinfo" => Told \subseteq {"hostnames", "mongos"}
  /\ pc \in GetsMembers => Told \subseteq {"hostnames", "mongos", "host"}
  /\ pc = "ops" => Told \subseteq {"hostnames", "mongos", "host", "members"}
  /\ pc = "security" => Told \subseteq {"hostnames", "mongos", "host", "members", "ops"}
  /\ pc = "oplog" =>
       Told \subseteq {"hostnames", "mongos", "host", "members", "ops", "security"}
  /\ pc \in {"cluster", "collections"} =>
       Told \subseteq {"hostnames", "mongos", "host", "members", "ops", "security", "oplog"}
  /\ pc = "balancer" =>
       Told \subseteq {"hostnames", "mongos", "host", "members", "ops", "security", "oplog",
                       "cluster"}

FlowTyped ==
  /\ pc \in {"flags", "client", "connect", "hostnames", "mongos", "hostinfo", "members",
            "member", "status", "rows", "ops", "security", "oplog", "cluster",
            "collections", "balancer", "format", "done"}
  /\ exit \in -1..5 /\ (exit # -1) <=> (pc = "done")
  /\ sections \subseteq {"mongos", "host", "members", "ops", "security", "oplog", "cluster",
                        "balancer"}
  /\ logged \subseteq {"hostnames", "mongos", "members", "ops", "security", "oplog",
                      "cluster", "balancer"}
  /\ sections \cap logged = {}
  /\ SeenBy

LEMMA FlowInit == Init => FlowTyped
BY DEF Init, FlowTyped, SeenBy, Told

LEMMA FlowStep == FlowTyped /\ [Next]_vars => FlowTyped'
<1> SUFFICES ASSUME FlowTyped, [Next]_vars PROVE FlowTyped'
  OBVIOUS
<1> USE DEF FlowTyped, SeenBy, GetsMembers, Told, Goto, Exit, Found, Complain
<1>1. CASE ParseFlags
  BY <1>1 DEF ParseFlags
<1>2. CASE GetClientOptions
  BY <1>2 DEF GetClientOptions
<1>3. CASE Connect
  BY <1>3 DEF Connect
<1>4. CASE Hostnames
  BY <1>4 DEF Hostnames
<1>5. CASE MongosInfo
  BY <1>5 DEF MongosInfo
<1>6. CASE HostInfo
  <2>1. CASE exit' = 3 /\ pc' = "done" /\ UNCHANGED <<sections, logged>>
    BY <2>1
  <2>2. CASE Goto("hostinfo", "members") /\ Found("host")
    <3>1. "host" \notin logged /\ Told' = Told \cup {"host"}
      BY <2>2
    <3>2. Told' \subseteq {"hostnames", "mongos", "host"}
      BY <2>2, <3>1
    <3>3. SeenBy'
      BY <2>2, <3>2
    <3> QED
      BY <2>2, <3>1, <3>3
  <2> QED
    BY <1>6, <2>1, <2>2 DEF HostInfo
<1>7. CASE GetReplicasetMembers
  <2>1. CASE AskMembers
    BY <2>1 DEF AskMembers, MembersFail
  <2>2. CASE AskMember
    BY <2>2 DEF AskMember, MembersFail
  <2>3. CASE BareMember
    BY <2>3 DEF BareMember
  <2>4. CASE MemberView
    BY <2>4 DEF MemberView, MembersFail
  <2>5. CASE AddMember
    BY <2>5 DEF AddMember
  <2>6. CASE NextMember
    BY <2>6 DEF NextMember
  <2>7. CASE GotMembers
    BY <2>7 DEF GotMembers
  <2> QED
    BY <1>7, <2>1, <2>2, <2>3, <2>4, <2>5, <2>6, <2>7 DEF GetReplicasetMembers
<1>8. CASE GetOpCountersStats
  <2>1. CASE NoSamples
    BY <2>1 DEF NoSamples
  <2>2. CASE Sample
    BY <2>2 DEF Sample
  <2>3. CASE SampleFails
    BY <2>3 DEF SampleFails
  <2>4. CASE Sampled
    BY <2>4 DEF Sampled
  <2> QED
    BY <1>8, <2>1, <2>2, <2>3, <2>4 DEF GetOpCountersStats
<1>9. CASE SecuritySettings
  BY <1>9 DEF SecuritySettings
<1>10. CASE GetOplogInfo
  <2>1. CASE OplogOfHost
    BY <2>1 DEF OplogOfHost
  <2>2. CASE OplogFails
    BY <2>2 DEF OplogFails
  <2>3. CASE GotOplogs
    BY <2>3 DEF GotOplogs
  <2> QED
    BY <1>10, <2>1, <2>2, <2>3 DEF GetOplogInfo
<1>11. CASE GetClusterwideInfo
  <2>1. CASE NotAMongos
    BY <2>1 DEF NotAMongos
  <2>2. CASE ListCollections
    BY <2>2 DEF ListCollections
  <2>3. CASE CountCollection
    BY <2>3 DEF CountCollection
  <2>4. CASE ClusterFails
    BY <2>4 DEF ClusterFails
  <2>5. CASE GotCluster
    BY <2>5 DEF GotCluster
  <2> QED
    BY <1>11, <2>1, <2>2, <2>3, <2>4, <2>5 DEF GetClusterwideInfo
<1>12. CASE Balancer
  BY <1>12 DEF Balancer
<1>13. CASE FormatResults
  BY <1>13 DEF FormatResults
<1>14. CASE UNCHANGED vars
  BY <1>14 DEF vars
<1> QED
  BY <1>1, <1>2, <1>3, <1>4, <1>5, <1>6, <1>7, <1>8, <1>9, <1>10, <1>11, <1>12, <1>13,
     <1>14 DEF Next

MainTyped ==
  /\ opts \in CliOptions
  /\ nodeType \in {"", "replset", "mongos", "mongod"}
  /\ warnings \subseteq {"public", "insecure", "notlocalhost"}

LEMMA MainInit == Init => MainTyped
BY CommandLinesAssumption DEF Init, MainTyped

LEMMA MainStep == MainTyped /\ [Next]_vars => MainTyped'
<1> SUFFICES ASSUME MainTyped, [Next]_vars PROVE MainTyped'
  OBVIOUS
<1>1. CASE GetClientOptions
  BY <1>1 DEF GetClientOptions, MainTyped, CliOptions
<1>2. CASE HostInfo
  BY <1>2 DEF HostInfo, MainTyped, NodeType
<1>3. CASE SecuritySettings
  BY <1>3 DEF SecuritySettings, MainTyped, Warning
<1>4. CASE Hostnames
  BY <1>4 DEF Hostnames, MainTyped
<1>5. ASSUME ~(GetClientOptions \/ HostInfo \/ SecuritySettings \/ Hostnames)
      PROVE  UNCHANGED main
  <2>1. CASE GetReplicasetMembers
    BY <2>1 DEF GetReplicasetMembers, AskMembers, AskMember, BareMember, MemberView, AddMember,
                NextMember, GotMembers
  <2>2. CASE GetOplogInfo \/ GetClusterwideInfo
    BY <2>2 DEF GetOplogInfo, OplogOfHost, OplogFails, GotOplogs, GetClusterwideInfo, NotAMongos,
                ListCollections, CountCollection, ClusterFails, GotCluster
  <2>3. CASE GetOpCountersStats
    BY <2>3 DEF GetOpCountersStats, NoSamples, Sample, SampleFails, Sampled
  <2> QED
    BY <1>5, <2>1, <2>2, <2>3 DEF Next, vars, ParseFlags, Connect, MongosInfo, Balancer,
       FormatResults
<1> QED
  BY <1>1, <1>2, <1>3, <1>4, <1>5 DEF MainTyped

(* The differences of readings within 0..MaxOps, as many as were asked for. *)

OpsTyped ==
  /\ sample \in 0..(opts.samples + 1)
  /\ prev \in [OpKinds -> 0..MaxOps]
  /\ oc.min \in [OpKinds -> -MaxOps..MaxOps] /\ oc.max \in [OpKinds -> -MaxOps..MaxOps]

LEMMA OpsTypedInit == Init => OpsTyped
<1> SUFFICES ASSUME Init PROVE OpsTyped
  OBVIOUS
<1>1. opts.samples \in Nat /\ sample = 0
  BY CommandLinesAssumption DEF Init, CliOptions
<1>2. prev = NoOps /\ oc.min = NoOps /\ oc.max = NoOps
  BY DEF Init
<1>3. NoOps \in [OpKinds -> 0..MaxOps] /\ NoOps \in [OpKinds -> -MaxOps..MaxOps]
  BY BoundsAssumption
<1> QED
  BY <1>1, <1>2, <1>3 DEF OpsTyped

LEMMA SampleTyped == MainTyped /\ OpsTyped /\ Sample => OpsTyped'
<1> SUFFICES ASSUME MainTyped, OpsTyped, Sample PROVE OpsTyped'
  OBVIOUS
<1>1. PICK reading \in [OpKinds -> 0..MaxOps] :
        /\ prev' = reading
        /\ oc' = CASE sample = 0 -> oc
                   [] sample = 1 -> [min |-> Delta(reading), max |-> Delta(reading),
                                     total |-> Delta(reading)]
                   [] OTHER -> [min |-> Lower(oc.min, Delta(reading)),
                                max |-> Upper(oc.max, Delta(reading)),
                                total |-> [k \in OpKinds |-> oc.total[k] + Delta(reading)[k]]]
  BY DEF Sample
<1>2. opts' = opts /\ opts.samples \in Nat /\ sample' \in 0..(opts.samples + 1)
  <2>1. opts' = opts /\ opts.samples \in Nat
    BY DEF Sample, MainTyped, CliOptions
  <2>2. sample \in Int /\ 0 <= sample /\ sample <= opts.samples /\ sample' = sample + 1
    BY <2>1 DEF Sample, MoreSamples, OpsTyped
  <2> QED
    BY <2>1, <2>2
<1>3. Delta(reading) \in [OpKinds -> -MaxOps..MaxOps]
  BY BoundsAssumption DEF Delta, OpsTyped
<1>4. CASE sample = 0
  BY <1>1, <1>2, <1>4 DEF OpsTyped
<1>5. CASE sample = 1
  BY <1>1, <1>2, <1>3, <1>5 DEF OpsTyped
<1>6. CASE sample \notin {0, 1}
  <2>1. oc'.min = Lower(oc.min, Delta(reading)) /\ oc'.max = Upper(oc.max, Delta(reading))
    BY <1>1, <1>6
  <2> QED
    BY <1>1, <1>2, <1>3, <2>1 DEF OpsTyped, Lower, Upper
<1> QED
  BY <1>4, <1>5, <1>6

LEMMA OpsTypedStep == MainTyped /\ OpsTyped /\ [Next]_vars => OpsTyped'
<1> SUFFICES ASSUME MainTyped, OpsTyped, [Next]_vars PROVE OpsTyped'
  OBVIOUS
<1>1. opts.samples \in Nat /\ opts'.samples = opts.samples
  <2>1. CASE GetClientOptions
    BY <2>1 DEF GetClientOptions, MainTyped, CliOptions
  <2>2. CASE UNCHANGED opts
    BY <2>2 DEF MainTyped, CliOptions
  <2>3. CASE GetReplicasetMembers
    BY <2>2, <2>3 DEF GetReplicasetMembers, AskMembers, AskMember, BareMember, MemberView,
                      AddMember, NextMember, GotMembers
  <2>4. CASE GetOplogInfo \/ GetClusterwideInfo
    BY <2>2, <2>4 DEF GetOplogInfo, OplogOfHost, OplogFails, GotOplogs, GetClusterwideInfo,
                NotAMongos, ListCollections, CountCollection, ClusterFails, GotCluster
  <2>5. CASE GetOpCountersStats
    BY <2>2, <2>5 DEF GetOpCountersStats, NoSamples, Sample, SampleFails, Sampled
  <2> QED
    BY <2>1, <2>2, <2>3, <2>4, <2>5 DEF Next, vars, ParseFlags, Connect, Hostnames, MongosInfo,
       HostInfo, SecuritySettings, Balancer, FormatResults
<1>2. CASE UNCHANGED sampling
  BY <1>1, <1>2 DEF OpsTyped
<1>3. CASE Sample
  BY <1>3, SampleTyped
<1>4. CASE OpsReturn
  BY <1>1, <1>4, BoundsAssumption DEF OpsReturn, OpsTyped
<1> QED
  BY <1>2, <1>3, <1>4, OpsChange

(* The members: their rows come from the roles and views of the servers.    *)

States == {"", "PRIMARY", "SECONDARY", "DOWN"}

MembersTyped ==
  /\ hostnames \subseteq Hosts /\ asked \subseteq Hosts /\ todo \subseteq Hosts
  /\ host \in Hosts \cup {""}
  /\ pc \in {"status", "rows"} => host \in Hosts
  /\ role \in {Role[h] : h \in Hosts} \cup {""}
  /\ \A h \in DOMAIN rows : h \in Hosts /\ rows[h] \in Rows
  /\ DOMAIN view \subseteq Hosts /\ \A h \in DOMAIN view : view[h] \in States

LEMMA MembersTypedInit == Init => MembersTyped
BY DEF Init, MembersTyped

LEMMA MemberRowTyped ==
  ASSUME NEW h \in Hosts, NEW set \in {SetOf[g] : g \in Hosts} \cup {""},
         NEW state \in States, NEW prefix \in {Role[g] : g \in Hosts} \cup {""},
         NEW pid \in Hosts \cup {""}, PutRow(h, MemberRow(set, state, prefix, pid)),
         \A g \in DOMAIN rows : g \in Hosts /\ rows[g] \in Rows
  PROVE  \A g \in DOMAIN rows' : g \in Hosts /\ rows'[g] \in Rows
<1>1. MemberRow(set, state, prefix, pid) \in Rows
  BY DEF MemberRow, Rows, States
<1> DEFINE row == MemberRow(set, state, prefix, pid)
<1> HIDE DEF row
<1>2. row \in Rows /\ PutRow(h, row)
  BY <1>1 DEF row
<1>3. /\ DOMAIN rows' = DOMAIN rows \cup {h} /\ rows'[h] = row
      /\ \A g \in DOMAIN rows : g # h => rows'[g] = rows[g]
  BY <1>2, OneMoreRow
<1> QED
  BY <1>2, <1>3

LEMMA MembersTypedStep == MembersTyped /\ [Next]_vars => MembersTyped'
<1> SUFFICES ASSUME MembersTyped, [Next]_vars PROVE MembersTyped'
  OBVIOUS
<1> USE DEF Goto
<1>0. ASSUME MembersDone, UNCHANGED hostnames, pc' = "ops" PROVE MembersTyped'
  BY <1>0 DEF MembersDone, MembersTyped
<1>1. CASE AskMembers
  <2>1. CASE MembersFail("members")
    BY <1>0, <1>1, <2>1 DEF AskMembers, MembersFail
  <2>2. CASE ~MembersFail("members")
    <3>1. PICK a \in GetHostnames(Target) :
            /\ Goto("members", "member") /\ asked' = a.hosts /\ todo' = a.hosts
            /\ UNCHANGED <<host, role, view, rows, hostnames>>
      BY <1>1, <2>2 DEF AskMembers
    <3>2. todo' \subseteq Hosts
      BY <3>1, HostnamesInHosts
    <3> QED
      BY <3>1, <3>2 DEF MembersTyped
  <2> QED
    BY <2>1, <2>2
<1>2. CASE AskMember
  <2>1. CASE MembersFail("member")
    BY <1>0, <1>2, <2>1 DEF AskMember, MembersFail
  <2>2. CASE ~MembersFail("member")
    BY <1>2, <2>2 DEF AskMember, MembersTyped
  <2> QED
    BY <2>1, <2>2
<1>3. CASE BareMember
  <2>1. PICK pid \in {"", host} : PutRow(host, MemberRow("", "", role, pid))
    BY <1>3 DEF BareMember
  <2>2. \A g \in DOMAIN rows' : g \in Hosts /\ rows'[g] \in Rows
    BY <1>3, <2>1, MemberRowTyped DEF BareMember, MembersTyped, States
  <2> QED
    BY <1>3, <2>2 DEF BareMember, NextHost, MembersTyped
<1>4. CASE MemberView
  <2>1. CASE MembersFail("status")
    BY <1>0, <1>4, <2>1 DEF MemberView, MembersFail
  <2>2. CASE ~MembersFail("status")
    <3>1. /\ pc = "status" /\ pc' = "rows" /\ view' \in Views(SetOf[host])
          /\ UNCHANGED <<asked, todo, host, role, rows, hostnames>>
      BY <1>4, <2>2 DEF MemberView
    <3>2. DOMAIN view' \subseteq Hosts /\ \A h \in DOMAIN view' : view'[h] \in States
      BY <3>1 DEF Views, Members, States
    <3> QED
      BY <3>1, <3>2 DEF MembersTyped
  <2> QED
    BY <2>1, <2>2
<1>5. CASE AddMember
  <2>1. PICK m \in DOMAIN view :
          /\ view' = [h \in DOMAIN view \ {m} |-> view[h]]
          /\ \/ UNCHANGED rows
             \/ PutRow(m, MemberRow(SetOf[m], view[m], role, host))
             \/ PutRow(m, MemberRow(SetOf[m], view[m], "", ""))
    BY <1>5 DEF AddMember
  <2>2. m \in Hosts /\ SetOf[m] \in {SetOf[g] : g \in Hosts} /\ view[m] \in States
    BY <2>1 DEF MembersTyped
  <2>3. \A g \in DOMAIN rows' : g \in Hosts /\ rows'[g] \in Rows
    <3>1. CASE PutRow(m, MemberRow(SetOf[m], view[m], role, host))
      BY <2>2, <3>1, MemberRowTyped DEF MembersTyped
    <3>2. CASE PutRow(m, MemberRow(SetOf[m], view[m], "", ""))
      BY <2>2, <3>2, MemberRowTyped DEF MembersTyped
    <3> QED
      BY <2>1, <3>1, <3>2 DEF MembersTyped
  <2> QED
    BY <1>5, <2>1, <2>3 DEF AddMember, MembersTyped
<1>6. CASE NextMember
  BY <1>6 DEF NextMember, NextHost, MembersTyped
<1>7. CASE GotMembers
  BY <1>0, <1>7 DEF GotMembers
<1>8. CASE Hostnames
  <2>1. hostnames' \subseteq Hosts
    BY <1>8, HostnamesInHosts DEF Hostnames
  <2> QED
    BY <1>8, <2>1 DEF Hostnames, MembersTyped
<1>9. CASE ~GetReplicasetMembers /\ ~Hostnames
  <2> USE DEF Exit, MembersTyped
  <2>1. CASE ParseFlags \/ GetClientOptions \/ Connect \/ MongosInfo \/ HostInfo
    BY <2>1 DEF ParseFlags, GetClientOptions, Connect, MongosInfo, HostInfo
  <2>2. CASE GetOpCountersStats
    BY <2>2 DEF GetOpCountersStats, NoSamples, Sample, SampleFails, Sampled
  <2>3. CASE SecuritySettings \/ GetOplogInfo \/ Balancer \/ FormatResults
    BY <2>3 DEF SecuritySettings, GetOplogInfo, OplogOfHost, OplogFails, GotOplogs, Balancer,
                FormatResults
  <2>4. CASE GetClusterwideInfo
    BY <2>4 DEF GetClusterwideInfo, NotAMongos, ListCollections, CountCollection, ClusterFails,
                GotCluster
  <2>5. CASE UNCHANGED vars
    BY <2>5 DEF vars
  <2> QED
    BY <1>9, <2>1, <2>2, <2>3, <2>4, <2>5 DEF Next
<1> QED
  BY <1>1, <1>2, <1>3, <1>4, <1>5, <1>6, <1>7, <1>8, <1>9 DEF GetReplicasetMembers

(* The collections: each is counted once.                                   *)

CollsTyped ==
  /\ colls \subseteq Colls
  /\ pc # "collections" => colls = {} /\ cwi = NoCwi
  /\ cwi.total \in Nat /\ cwi.sharded \in 0..cwi.total
  /\ cwi.total + Cardinality(colls) <= Cardinality(Colls)

LEMMA CollsSize ==
  ASSUME NEW S \in SUBSET Colls
  PROVE  IsFiniteSet(S) /\ Cardinality(S) \in Nat /\ Cardinality(S) <= Cardinality(Colls)
BY CollsAssumption, FS_Subset, FS_CardinalityType

LEMMA NoCollsTyped == colls = {} /\ cwi = NoCwi => CollsTyped
<1>1. Cardinality({}) = 0 /\ Cardinality(Colls) \in Nat
  BY FS_EmptySet, CollsAssumption, FS_CardinalityType
<1> QED
  BY <1>1 DEF CollsTyped, NoCwi

LEMMA CollsTypedStep == CollsTyped /\ [Next]_vars => CollsTyped'
<1> SUFFICES ASSUME CollsTyped, [Next]_vars PROVE CollsTyped'
  OBVIOUS
<1>0. ASSUME (colls = {} /\ cwi = NoCwi)' PROVE CollsTyped'
  <2>1. Cardinality({}) = 0 /\ Cardinality(Colls) \in Nat
    BY FS_EmptySet, CollsAssumption, FS_CardinalityType
  <2> QED
    BY <1>0, <2>1 DEF CollsTyped, NoCwi
<1>1. CASE ListCollections
  <2>1. /\ pc = "cluster" /\ pc' = "collections" /\ UNCHANGED cwi
        /\ \E answered : colls' = {c \in Colls : c.db \in answered}
    BY <1>1 DEF ListCollections, Goto
  <2>2. colls' \subseteq Colls
    BY <2>1
  <2>3. cwi' = NoCwi
    BY <2>1 DEF CollsTyped
  <2>4. Cardinality(colls') \in Nat /\ Cardinality(colls') <= Cardinality(Colls)
    BY <2>2, CollsSize
  <2> QED
    BY <2>1, <2>2, <2>3, <2>4, CollsSize DEF CollsTyped, NoCwi
<1>2. CASE CountCollection
  <2>1. PICK c \in colls :
          /\ colls' = colls \ {c}
          /\ cwi' = IF c.sharded
                    THEN [cwi EXCEPT !.total = @ + 1, !.sharded = @ + 1,
                                     !.shardedSize = @ + c.size]
                    ELSE [cwi EXCEPT !.total = @ + 1, !.unshardedSize = @ + c.size]
    BY <1>2 DEF CountCollection
  <2>2. Cardinality(colls') = Cardinality(colls) - 1 /\ Cardinality(colls) \in Nat
    <3>1. IsFiniteSet(colls) /\ c \in colls
      BY <2>1, CollsSize DEF CollsTyped
    <3> QED
      BY <2>1, <3>1, FS_RemoveElement, FS_CardinalityType
  <2>3. cwi'.total = cwi.total + 1 /\ cwi'.sharded \in {cwi.sharded, cwi.sharded + 1}
    BY <2>1
  <2> QED
    BY <1>2, <2>1, <2>2, <2>3, CollsSize DEF CollsTyped, CountCollection, Goto
<1>3. CASE UNCHANGED cluster /\ pc # "collections" /\ pc' # "collections"
  BY <1>0, <1>3 DEF CollsTyped
<1>4. CASE ClusterFails \/ GotCluster
  BY <1>0, <1>4 DEF ClusterFails, GotCluster, ClusterReturn
<1>5. CASE UNCHANGED vars
  BY <1>5 DEF vars, CollsTyped
<1>6. CASE ~GetClusterwideInfo
  <2> USE DEF Goto, Exit
  <2>1. CASE ParseFlags \/ GetClientOptions \/ Connect \/ Hostnames \/ MongosInfo \/ HostInfo
    BY <1>3, <2>1 DEF ParseFlags, GetClientOptions, Connect, Hostnames, MongosInfo, HostInfo
  <2>2. CASE GetOpCountersStats
    BY <1>3, <2>2 DEF GetOpCountersStats, NoSamples, Sample, SampleFails, Sampled
  <2>3. CASE SecuritySettings \/ GetOplogInfo \/ Balancer \/ FormatResults
    BY <1>3, <2>3 DEF SecuritySettings, GetOplogInfo, OplogOfHost, OplogFails, GotOplogs,
                Balancer, FormatResults
  <2>4. CASE GetReplicasetMembers
    BY <1>3, <2>4 DEF GetReplicasetMembers, AskMembers, AskMember, BareMember, MemberView,
                AddMember, NextMember, GotMembers, MembersFail
  <2> QED
    BY <1>5, <1>6, <2>1, <2>2, <2>3, <2>4 DEF Next
<1>7. CASE NotAMongos
  BY <1>3, <1>7 DEF NotAMongos, Goto
<1> QED
  BY <1>1, <1>2, <1>4, <1>6, <1>7 DEF GetClusterwideInfo

TypeInv == FlowTyped /\ MainTyped /\ OpsTyped /\ MembersTyped /\ CollsTyped

LEMMA TypeInvTypes == TypeInv => TypeOK
<1> SUFFICES ASSUME TypeInv PROVE TypeOK
  OBVIOUS
<1>1. IsFiniteSet(DOMAIN rows)
  <2>1. DOMAIN rows \subseteq Hosts
    BY DEF TypeInv, MembersTyped
  <2> QED
    BY <2>1, FS_Subset, HostsAssumption
<1>2. colls \subseteq Colls /\ cwi.sharded <= cwi.total /\ cwi.total <= Cardinality(Colls)
  <2>1. /\ colls \subseteq Colls /\ cwi.total \in Nat /\ cwi.sharded \in 0..cwi.total
        /\ cwi.total + Cardinality(colls) <= Cardinality(Colls)
    BY DEF TypeInv, CollsTyped
  <2>2. Cardinality(colls) \in Nat /\ Cardinality(Colls) \in Nat
    BY <2>1, CollsSize
  <2> QED
    BY <2>1, <2>2
<1>3. \A k \in OpKinds : oc.min[k] \in -MaxOps..MaxOps /\ oc.max[k] \in -MaxOps..MaxOps
  BY DEF TypeInv, OpsTyped
<1>4. /\ hostnames \subseteq Hosts /\ asked \subseteq Hosts /\ todo \subseteq Hosts
      /\ host \in Hosts \cup {""}
      /\ (\A h \in DOMAIN rows : h \in Hosts /\ rows[h] \in Rows) /\ DOMAIN view \subseteq Hosts
  BY DEF TypeInv, MembersTyped
<1>5. /\ opts \in CliOptions /\ nodeType \in {"", "replset", "mongos", "mongod"}
      /\ warnings \subseteq {"public", "insecure", "notlocalhost"}
      /\ sample \in 0..(opts.samples + 1)
  BY DEF TypeInv, MainTyped, OpsTyped
<1> QED
  BY <1>1, <1>2, <1>3, <1>4, <1>5 DEF TypeOK, TypeInv, FlowTyped

\* Whatever the servers answer, main of pt-mongodb-summary asks every question
\* once, counts each collection once, takes as many samples as it was told to, and
\* leaves with an exit code it has.
THEOREM TypeCorrect == Spec => []TypeOK
<1>1. Init => TypeInv
  BY FlowInit, MainInit, OpsTypedInit, MembersTypedInit, NoCollsTyped DEF Init, TypeInv
<1>2. TypeInv /\ [Next]_vars => TypeInv'
  BY FlowStep, MainStep, OpsTypedStep, MembersTypedStep, CollsTypedStep DEF TypeInv
<1> QED
  BY <1>1, <1>2, TypeInvTypes, PTL DEF Spec
=============================================================================
