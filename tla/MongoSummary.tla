---------------------------- MODULE MongoSummary ----------------------------
(***************************************************************************)
(* src/go/pt-mongodb-summary: one goroutine asks a MongoDB deployment a    *)
(* series of questions and prints a report.  Every answer comes from a     *)
(* server that may be unreachable, may refuse, may have restarted or       *)
(* changed role since the last question, so each step takes whatever the   *)
(* role of the host allows.  Few failures are fatal: of the others main    *)
(* logs the section it could not get, at a level the user may not see, and *)
(* goes on.                                                                *)
(*                                                                         *)
(* A variable that is local to a function of the source is emptied when    *)
(* the function returns; of a section the model keeps that it is there.    *)
(***************************************************************************)
EXTENDS Integers, FiniteSets

CONSTANTS Hosts, Place,   \* the hosts; the place of each when they are sorted by name
          Role,           \* host -> "mongos", "configsvr", "shardsvr" or "mongod"
          SetOf,          \* host -> its replica set, "" for none
          CommandLines,   \* what the user may type
          OpKinds,        \* insert, query, update, ...
          MaxOps,         \* bound: what an operation counter may read
          Bind, Auth,     \* the addresses net.bindIp names; is authorization enabled
          Colls,          \* the collections of a sharded cluster
          MaxWindow       \* bound: hours an oplog may cover

ASSUME HostsAssumption ==
  /\ IsFiniteSet(Hosts) /\ "" \notin Hosts /\ Place \in [Hosts -> Nat]
  /\ Role \in [Hosts -> {"mongos", "configsvr", "shardsvr", "mongod"}]
  /\ \A h \in Hosts : (SetOf[h] # "") <=> (Role[h] \in {"configsvr", "shardsvr"})
ASSUME BoundsAssumption == MaxOps \in Nat /\ MaxWindow \in Nat
ASSUME CollsAssumption ==
  IsFiniteSet(Colls) /\ \A c \in Colls : c.sharded \in BOOLEAN /\ c.size \in Nat

VARIABLES
  pc, opts, exit,                \* where main is; cliOptions; the exit code
  hostnames, nodeType,           \* kept by main between questions
  sections, logged,              \* what collectedInfo holds; the complaints printed
  warnings,                      \* security.WarningMsgs
  asked, todo,                   \* GetReplicasetMembers: its hostnames, those left,
  host, role, view, rows,        \* the one asked, the members left of its view, the result
  sample, first, prev, oc,       \* getOpCountersStats
  oplogs,                        \* GetOplogInfo (which uses todo as well)
  colls, cwi                     \* getClusterwideInfo

main     == <<opts, hostnames, nodeType, warnings>>
members  == <<asked, host, role, view, rows>>
sampling == <<sample, first, prev, oc>>
cluster  == <<colls, cwi>>
locals   == <<todo, members, sampling, oplogs, cluster>>
vars     == <<pc, exit, main, sections, logged, locals>>

\* The next of the sorted host names.
First(h, S) == h \in S /\ \A g \in S : Place[h] <= Place[g]

NoRows == [h \in {} |-> ""]
NoOps  == [k \in OpKinds |-> 0]
NoCwi  == [total |-> 0, sharded |-> 0, shardedSize |-> 0, unshardedSize |-> 0]

Goto(from, to) == pc = from /\ pc' = to /\ UNCHANGED exit

Exit(from, code) == pc = from /\ pc' = "done" /\ exit' = code

\* logrus's levels: a message of one is printed when --log-level is no lower.
Error == 2
Warn  == 3
Info  == 4

Heard(level) == level <= opts.log

Found(s) == sections' = sections \cup {s} /\ UNCHANGED logged

Complain(s, level) ==
  /\ logged' = IF Heard(level) THEN logged \cup {s} ELSE logged
  /\ UNCHANGED sections
-----------------------------------------------------------------------------
(* parseFlags, getClientOptions and the connection.  A command line is      *)
(* abstracted to what parseFlags and getClientOptions tell apart.           *)

CliOptions ==
  [host : Hosts, positional : {"none", "good", "bad"}, flags : SUBSET {"uri", "host"},
   password : {"none", "read", "unreadable"}, help : BOOLEAN, version : BOOLEAN,
   tls : {"none", "good", "missing", "invalid"},
   samples : Nat, format : {"text", "json"},
   log : 0..6]  \* the level; 0, panic, is also what one that does not parse becomes

ASSUME CommandLinesAssumption == CommandLines \subseteq CliOptions

\* The host asked first.
Target == opts.host

\* The error of parseFlags.
BadFlags(o) ==
  \/ o.positional # "none" /\ o.flags # {}
  \/ o.positional = "bad"
  \/ o.password = "unreadable"
  \/ o.flags = {"uri", "host"}

ParseFlags ==
  /\ IF BadFlags(opts) THEN Exit("flags", 2)
     ELSE IF opts.help \/ opts.version THEN Exit("flags", 0)
     ELSE Goto("flags", "client")
  /\ UNCHANGED <<main, sections, logged, locals>>

\* getTLSConfig calls log.Fatal when the pair is not one; an unreadable file and
\* options that do not validate are returned.
GetClientOptions ==
  /\ \/ opts.tls = "missing" /\ Exit("client", 4)
     \/ opts.tls = "invalid" /\ Exit("client", 1)
     \/ opts.tls \in {"none", "good"} /\ (Exit("client", 4) \/ Goto("client", "connect"))
  /\ opts' = [opts EXCEPT !.positional = "none", !.flags = {}, !.password = "none",
                          !.tls = "none"]
  /\ UNCHANGED <<hostnames, nodeType, warnings, sections, logged, locals>>

Connect ==
  /\ Exit("connect", 5) \/ Goto("connect", "hostnames")
  /\ UNCHANGED <<main, sections, logged, locals>>
-----------------------------------------------------------------------------
(* Whom to ask.                                                             *)

Members(s) == {h \in Hosts : SetOf[h] = s}

\* buildHostsListFromReplStatus; buildHostsListFromShardMap, where a host is
\* listed under its set, under its address and under the set's address list.
FromReplStatus(s) == Members(s)
FromShardMap == {h \in Hosts : Role[h] \in {"configsvr", "shardsvr"}}

\* What GetHostnames may return: the members of the set of h; when it has no
\* status to tell, the hosts of the shard map, error 203 where it knows of no
\* sharding, or nothing at all; or another error.
GetHostnames(h) ==
  LET Answer(hosts, err) == [hosts |-> hosts, err |-> err]
  IN {Answer({}, "other")}
     \cup (IF SetOf[h] # "" THEN {Answer(FromReplStatus(SetOf[h]), "none")} ELSE {})
     \cup (IF Role[h] # "mongod" THEN {Answer(FromShardMap, "none")} ELSE {})
     \cup (IF Role[h] # "mongos" THEN {Answer({}, "unsharded"), Answer({}, "none")} ELSE {})

\* main complains only that sharding is not enabled.
Hostnames ==
  /\ Goto("hostnames", "mongos")
  /\ \E a \in GetHostnames(Target) :
       /\ hostnames' = a.hosts
       /\ IF a.err = "unsharded" THEN Complain("hostnames", Error)
                                   ELSE UNCHANGED <<sections, logged>>
  /\ UNCHANGED <<opts, nodeType, warnings, locals>>

\* Mutant: the failure goes unsaid.
MongosInfoMutant ==
  /\ Goto("mongos", "hostinfo")
  /\ Found("mongos") \/ UNCHANGED <<sections, logged>>
  /\ UNCHANGED <<main, locals>>

MongosInfo ==
  /\ Goto("mongos", "hostinfo")
  /\ Found("mongos") \/ Complain("mongos", Warn)
  /\ UNCHANGED <<main, locals>>

\* getNodeType, from what isMaster says; "" if it does not answer.
NodeType(h) ==
  CASE SetOf[h] # "" -> "replset" [] Role[h] = "mongos" -> "mongos" [] OTHER -> "mongod"

\* getHostInfo: only hostInfo must be answered.
HostInfo ==
  /\ \/ Exit("hostinfo", 3) /\ UNCHANGED <<nodeType, sections, logged>>
     \/ /\ Goto("hostinfo", "members") /\ Found("host")
        /\ nodeType' \in {NodeType(Target), ""}
  /\ UNCHANGED <<opts, hostnames, warnings, locals>>
-----------------------------------------------------------------------------
(* GetReplicasetMembers.                                                    *)

\* A replica set as one of its members sees it: who is what, one primary at most.
Views(s) ==
  {v \in [Members(s) -> {"PRIMARY", "SECONDARY", "DOWN"}] :
     \A a, b \in Members(s) : v[a] = "PRIMARY" /\ v[b] = "PRIMARY" => a = b}

\* proto.Members: pid says whose process number was put there.
MemberRow(set, state, prefix, pid) ==
  [set |-> set, state |-> state, role |-> prefix, pid |-> pid]

PutRow(h, row) ==
  rows' = [g \in DOMAIN rows \cup {h} |-> IF g = h THEN row ELSE rows[g]]

MembersDone ==
  /\ asked' = {} /\ todo' = {} /\ host' = "" /\ role' = ""
  /\ view' = NoRows /\ rows' = NoRows

MembersFail(from) == Goto(from, "ops") /\ Complain("members", Warn) /\ MembersDone

AskMembers ==
  /\ \E a \in GetHostnames(Target) :
       IF a.err # "none" THEN MembersFail("members")
       ELSE /\ Goto("members", "member") /\ asked' = a.hosts /\ todo' = a.hosts
            /\ UNCHANGED <<host, role, view, rows, sections, logged>>
  /\ UNCHANGED <<main, sampling, oplogs, cluster>>

\* Connect to the next host, and getCmdLineOpts: the cluster role if it says.
AskMember ==
  /\ todo # {}
  /\ \/ MembersFail("member")
     \/ /\ Goto("member", "status")
        /\ \E h \in todo : First(h, todo) /\ host' = h /\ role' \in {Role[h], ""}
        /\ UNCHANGED <<asked, todo, view, rows, sections, logged>>
  /\ UNCHANGED <<main, sampling, oplogs, cluster>>

NextHost == todo' = todo \ {host} /\ host' = "" /\ role' = ""

\* replSetGetStatus fails: the host is put down as itself, and the next is asked.
BareMember ==
  /\ Goto("status", "member")
  /\ \E pid \in {"", host} : PutRow(host, MemberRow("", "", role, pid))
  /\ NextHost
  /\ UNCHANGED <<asked, view, main, sections, logged, sampling, oplogs, cluster>>

\* It answers with its view of the set, or the answer cannot be decoded.
MemberView ==
  /\ \/ MembersFail("status")
     \/ /\ Goto("status", "rows") /\ view' \in Views(SetOf[host])
        /\ UNCHANGED <<asked, todo, host, role, rows, sections, logged>>
  /\ UNCHANGED <<main, sampling, oplogs, cluster>>

\* Mutant: the connected host is believed about itself even if it is known.
KnownMutant(m) == m \in DOMAIN rows /\ m # host

Known(m) == m \in DOMAIN rows

\* The next member of the view, unless it is known already.
AddMember ==
  /\ Goto("rows", "rows")
  /\ \E m \in DOMAIN view :
       /\ view' = [h \in DOMAIN view \ {m} |-> view[h]]
       /\ IF Known(m) THEN UNCHANGED rows
          ELSE \E row \in {MemberRow(SetOf[m], view[m], role, host),
                           MemberRow(SetOf[m], view[m], "", "")} :
                 PutRow(m, row)
  /\ UNCHANGED <<asked, todo, host, role, main, sections, logged, sampling, oplogs, cluster>>

NextMember ==
  /\ Goto("rows", "member") /\ view = NoRows
  /\ NextHost
  /\ UNCHANGED <<asked, view, rows, main, sections, logged, sampling, oplogs, cluster>>

GotMembers ==
  /\ Goto("member", "ops") /\ todo = {}
  /\ Found("members") /\ MembersDone
  /\ UNCHANGED <<main, sampling, oplogs, cluster>>
-----------------------------------------------------------------------------
(* getOpCountersStats: samples + 1 readings of the counters, the first to   *)
(* measure from.  A restarted server counts from zero again.                *)

OpsReturn ==
  /\ sample' = 0 /\ first' = NoOps /\ prev' = NoOps
  /\ oc' = [min |-> NoOps, max |-> NoOps, total |-> NoOps]

NoSamples ==
  /\ Goto("ops", "security") /\ opts.samples = 0
  /\ UNCHANGED <<main, sections, logged, locals>>

Delta(reading) == [k \in OpKinds |-> reading[k] - prev[k]]

Lower(a, b) == [k \in OpKinds |-> IF b[k] < a[k] THEN b[k] ELSE a[k]]
Upper(a, b) == [k \in OpKinds |-> IF b[k] > a[k] THEN b[k] ELSE a[k]]

\* Mutant: a reading too many.
MoreSamplesMutant == opts.samples > 0 /\ sample <= opts.samples + 1

MoreSamples == opts.samples > 0 /\ sample <= opts.samples

Sample ==
  /\ Goto("ops", "ops") /\ MoreSamples
  /\ \E reading \in [OpKinds -> 0..MaxOps] :
       LET d == Delta(reading) IN
       /\ first' = IF sample = 0 THEN reading ELSE first
       /\ prev' = reading
       /\ oc' = CASE sample = 0 -> oc
                  [] sample = 1 -> [min |-> d, max |-> d, total |-> d]
                  [] OTHER -> [min |-> Lower(oc.min, d), max |-> Upper(oc.max, d),
                               total |-> [k \in OpKinds |-> oc.total[k] + d[k]]]
  /\ sample' = sample + 1
  /\ UNCHANGED <<main, sections, logged, todo, members, oplogs, cluster>>

SampleFails ==
  /\ Goto("ops", "security") /\ MoreSamples
  /\ Complain("ops", Info) /\ OpsReturn
  /\ UNCHANGED <<main, todo, members, oplogs, cluster>>

Sampled ==
  /\ Goto("ops", "security") /\ opts.samples > 0 /\ ~MoreSamples
  /\ Found("ops") /\ OpsReturn
  /\ UNCHANGED <<main, todo, members, oplogs, cluster>>
-----------------------------------------------------------------------------
(* getSecuritySettings.  Addresses: "loopback", "private" (in the three     *)
(* ranges of isPrivateNetwork), "own" (externalIP's, private), "public".    *)

IsPrivateNetwork(ip) == ip \in {"loopback", "private", "own"}

Warning(ip) ==
  CASE ~IsPrivateNetwork(ip) -> IF Auth THEN {"public"} ELSE {"insecure"}
    [] ip = "private" -> {"notlocalhost"}
    [] OTHER -> {}

\* The users and roles are counted a second time if the first try fails.
SecuritySettings ==
  /\ Goto("security", "oplog")
  /\ \/ Found("security") /\ warnings' = UNION {Warning(ip) : ip \in Bind}
     \/ Complain("security", Error) /\ UNCHANGED warnings
  /\ todo' = hostnames
  /\ UNCHANGED <<opts, hostnames, nodeType, members, sampling, oplogs, cluster>>
-----------------------------------------------------------------------------
(* GetOplogInfo, and what main keeps of it.                                 *)

\* A host's oplog; one whose replSetGetStatus fails is passed over.
OplogOfHost ==
  /\ Goto("oplog", "oplog")
  /\ \E h \in todo :
       /\ First(h, todo) /\ todo' = todo \ {h}
       /\ \/ \E w \in 0..MaxWindow : oplogs' = oplogs \cup {[host |-> h, hours |-> w]}
          \/ UNCHANGED oplogs
  /\ UNCHANGED <<main, sections, logged, members, sampling, cluster>>

OplogFails ==
  /\ Goto("oplog", "cluster") /\ todo # {}
  /\ todo' = {} /\ oplogs' = {} /\ Complain("oplog", Info)
  /\ UNCHANGED <<main, members, sampling, cluster>>

\* Sorted by the hours they cover, the first is kept.
GotOplogs ==
  /\ Goto("oplog", "cluster") /\ todo = {}
  /\ IF oplogs = {} THEN Complain("oplog", Info) ELSE Found("oplog")
  /\ oplogs' = {}
  /\ UNCHANGED <<main, todo, members, sampling, cluster>>
-----------------------------------------------------------------------------
(* getClusterwideInfo and GetBalancerStats: only a mongos knows.            *)

Databases == {c.db : c \in Colls}

ClusterReturn == colls' = {} /\ cwi' = NoCwi

NotAMongos ==
  /\ Goto("cluster", "format") /\ nodeType # "mongos"
  /\ UNCHANGED <<main, sections, logged, locals>>

\* listDatabases, and ListCollections: a database that does not answer is left out.
ListCollections ==
  /\ Goto("cluster", "collections") /\ nodeType = "mongos"
  /\ \E answered \in SUBSET Databases : colls' = {c \in Colls : c.db \in answered}
  /\ UNCHANGED <<main, sections, logged, todo, members, sampling, oplogs, cwi>>

CountCollection ==
  /\ Goto("collections", "collections")
  /\ \E c \in colls :
       /\ colls' = colls \ {c}
       /\ cwi' = IF c.sharded
                 THEN [cwi EXCEPT !.total = @ + 1, !.sharded = @ + 1,
                                  !.shardedSize = @ + c.size]
                 ELSE [cwi EXCEPT !.total = @ + 1, !.unshardedSize = @ + c.size]
  /\ UNCHANGED <<main, sections, logged, todo, members, sampling, oplogs>>

\* listDatabases, a decode, collStats or getChunksCount fails: no section.
ClusterFails ==
  /\ nodeType = "mongos"
  /\ Goto("cluster", "balancer") \/ Goto("collections", "balancer")
  /\ Complain("cluster", Info) /\ ClusterReturn
  /\ UNCHANGED <<main, todo, members, sampling, oplogs>>

GotCluster ==
  /\ Goto("collections", "balancer") /\ colls = {}
  /\ Found("cluster") /\ ClusterReturn
  /\ UNCHANGED <<main, todo, members, sampling, oplogs>>

Balancer ==
  /\ Goto("balancer", "format")
  /\ Found("balancer") \/ Complain("balancer", Info)
  /\ UNCHANGED <<main, locals>>
-----------------------------------------------------------------------------
(* formatResults.  The templates of these three sections have no if: they   *)
(* cannot render the nil of a section that is missing.                      *)

Unguarded == {"mongos", "ops", "security"}

FormatResults ==
  /\ IF opts.format = "json" \/ Unguarded \subseteq sections
     THEN Exit("format", 0) ELSE Exit("format", 1)
  /\ UNCHANGED <<main, sections, logged, locals>>
-----------------------------------------------------------------------------
Init ==
  /\ pc = "flags" /\ opts \in CommandLines /\ exit = -1
  /\ hostnames = {} /\ nodeType = "" /\ warnings = {}
  /\ sections = {} /\ logged = {}
  /\ asked = {} /\ todo = {} /\ host = "" /\ role = "" /\ view = NoRows /\ rows = NoRows
  /\ sample = 0 /\ first = NoOps /\ prev = NoOps
  /\ oc = [min |-> NoOps, max |-> NoOps, total |-> NoOps]
  /\ oplogs = {} /\ colls = {} /\ cwi = NoCwi

GetReplicasetMembers ==
  AskMembers \/ AskMember \/ BareMember \/ MemberView \/ AddMember \/ NextMember
  \/ GotMembers

GetOpCountersStats == NoSamples \/ Sample \/ SampleFails \/ Sampled

GetOplogInfo == OplogOfHost \/ OplogFails \/ GotOplogs

GetClusterwideInfo ==
  NotAMongos \/ ListCollections \/ CountCollection \/ ClusterFails \/ GotCluster

Next ==
  \/ ParseFlags \/ GetClientOptions \/ Connect \/ Hostnames \/ MongosInfo \/ HostInfo
  \/ GetReplicasetMembers \/ GetOpCountersStats \/ SecuritySettings \/ GetOplogInfo
  \/ GetClusterwideInfo \/ Balancer \/ FormatResults

\* No fairness: a question to a host that hangs has no deadline (the context is
\* context.Background(), only the selection of a server has a timeout).
Spec == Init /\ [][Next]_vars
-----------------------------------------------------------------------------
Rows == [set : {SetOf[h] : h \in Hosts} \cup {""}, state : {"", "PRIMARY", "SECONDARY", "DOWN"},
         role : {Role[h] : h \in Hosts} \cup {""}, pid : Hosts \cup {""}]

\* Every variable has its type; no delta is further from zero than a counter.
TypeOK ==
  /\ pc \in {"flags", "client", "connect", "hostnames", "mongos", "hostinfo", "members",
            "member", "status", "rows", "ops", "security", "oplog", "cluster",
            "collections", "balancer", "format", "done"}
  /\ opts \in CliOptions /\ exit \in -1..5 /\ (exit # -1) <=> (pc = "done")
  /\ hostnames \subseteq Hosts /\ asked \subseteq Hosts
  /\ todo \subseteq Hosts /\ host \in Hosts \cup {""}
  /\ nodeType \in {"", "replset", "mongos", "mongod"}
  /\ sections \subseteq {"mongos", "host", "members", "ops", "security", "oplog", "cluster",
                        "balancer"}
  /\ logged \subseteq (sections \cup {"hostnames", "mongos", "members", "ops", "security",
                                     "oplog", "cluster", "balancer"}) \ {"host"}
  /\ sections \cap logged = {}
  /\ warnings \subseteq {"public", "insecure", "notlocalhost"}
  /\ IsFiniteSet(DOMAIN rows) /\ \A h \in DOMAIN rows : h \in Hosts /\ rows[h] \in Rows
  /\ DOMAIN view \subseteq Hosts
  /\ sample \in 0..(opts.samples + 1)
  /\ \A k \in OpKinds : oc.min[k] \in -MaxOps..MaxOps /\ oc.max[k] \in -MaxOps..MaxOps
  /\ colls \subseteq Colls /\ cwi.sharded <= cwi.total /\ cwi.total <= Cardinality(Colls)

\* However roles move between the questions, no replica set is shown with two
\* primaries: all its rows come from one view, except those of silent hosts.
OnePrimary ==
  \A a, b \in DOMAIN rows :
    rows[a].set = rows[b].set /\ rows[a].state = "PRIMARY" /\ rows[b].state = "PRIMARY"
      => a = b

\* A host that was asked has a row, whether it answered or not.
AskedIsListed == pc = "member" => asked \subseteq todo \cup DOMAIN rows

\* The differences add up to what the counters moved between the first and the
\* last reading, each within the least and the greatest, restarts included.
OpsAddUp ==
  sample > 1 => \A k \in OpKinds :
    /\ oc.total[k] = prev[k] - first[k]
    /\ (sample - 1) * oc.min[k] <= oc.total[k]
    /\ oc.total[k] <= (sample - 1) * oc.max[k]

\* What is gathered over several answers is true of them together.
GatheredTrue == OnePrimary /\ AskedIsListed /\ OpsAddUp

\* The sections a report on Target ought to have, and those it lacks without a
\* word on the terminal.
Wanted ==
  {"mongos", "host", "members", "security", "oplog"}
  \cup (IF opts.samples > 0 THEN {"ops"} ELSE {})
  \cup (IF Role[Target] = "mongos" THEN {"cluster", "balancer"} ELSE {})

Silent == Wanted \ (sections \cup logged)

\* Once there is a report: told everything from Info on, the user misses nothing
\* without a complaint, but for a cluster's sections when isMaster was not
\* answered.  At the default level, Warn, the counters, the oplog and the
\* cluster's sections may be missing without one (main calls Printf and Infof for
\* them), and no others.
MissingIsSaid ==
  pc \in {"format", "done"} /\ exit \in {-1, 0, 1} /\ "host" \in sections =>
    /\ Heard(Info) => Silent \subseteq IF nodeType = "" THEN {"cluster", "balancer"} ELSE {}
    /\ Heard(Warn) => Silent \subseteq {"ops", "oplog", "cluster", "balancer"}

\* What main warns about and goes on without does not cost the report.
WarningsAreNotFatal == "host" \in sections /\ pc = "done" => exit = 0
=============================================================================
