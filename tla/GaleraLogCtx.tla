---------------------------- MODULE GaleraLogCtx ----------------------------
(***************************************************************************)
(* pt-galera-log-explainer/types and regex: the context built up while a   *)
(* node's log is read, and what the handler of each kind of line does to   *)
(* it and to the translation maps.                                         *)
(*                                                                         *)
(* An event is a line some regex matched: its regex, its file type, its    *)
(* time and the submatches its handler uses.  A message is the part of the *)
(* display that tells two lines apart, NoMsg when there is none.  Handlers *)
(* that walk over a Go map give the set of their possible results.         *)
(***************************************************************************)
EXTENDS GaleraTranslate

Info == 0
DebugMySQL == 1
Debug == 2

NoMsg == <<>>
NoPod == <<>>
Put(f, k, v) == [x \in DOMAIN f \cup {k} |-> IF x = k THEN v ELSE f[x]]
Drop(f, k) == [x \in DOMAIN f \ {k} |-> f[x]]
EmptyMap == [x \in {} |-> <<>>]

FileTypes == {"error.log", "recovery.log", "post.processing.log", "backup.log"}
WsrepStates == {"SYNCED", "JOINED", "DONOR", "DESYNCED", "JOINER", "PRIMARY",
  "NON-PRIMARY", "OPEN", "CLOSED", "DESTROYED", "ERROR", "RECOVERY"}

NewLogCtx(path) ==
  [path |-> path, ftype |-> "", ips |-> <<>>, hashes |-> <<>>, names |-> <<>>,
   states |-> [f \in FileTypes |-> ""], version |-> "", pod |-> NoPod,
   ssts |-> EmptyMap, myIdx |-> "", members |-> 0, desynced |-> FALSE,
   minVerbosity |-> Debug, conflicts |-> <<>>]
-----------------------------------------------------------------------------
(* Context: states and identity.                                            *)

\* Lines of an unknown type count as the error log's.
Slot(c) == IF c.ftype \in FileTypes THEN c.ftype ELSE "error.log"
State(c) == c.states[Slot(c)]
SetState(c, s) == IF s \in WsrepStates THEN [c EXCEPT !.states[Slot(c)] = s] ELSE c
IsPrimary(c) == State(c) \in {"SYNCED", "DONOR", "DESYNCED", "JOINER", "PRIMARY"}
HasVisibleEvents(c, level) == level >= c.minVerbosity

\* m is a context and the translation maps.
AddOwnName(m, name, t) ==
  LET c == m.ctx  n == Short[name] IN
  IF c.names # <<>> /\ Last(c.names) = n THEN m
  ELSE [ctx |-> [c EXCEPT !.names = Append(@, n)],
        db  |-> IF c.ips = <<>> THEN m.db ELSE AddIPToNodeName(m.db, Last(c.ips), n, t)]

\* Names found one after the other.
AddOwnNames(m, ns, t) ==
  LET after[i \in 0..Len(ns)] == IF i = 0 THEN m ELSE AddOwnName(after[i - 1], ns[i], t)
  IN after[Len(ns)]

\* Mutant: the address is not given the name already known.
AddOwnIPMutant(m, ip, t) ==
  LET c == m.ctx IN
  IF c.ips # <<>> /\ Last(c.ips) = ip THEN m ELSE [m EXCEPT !.ctx.ips = Append(@, ip)]
AddOwnIP(m, ip, t) ==
  LET c == m.ctx IN
  IF c.ips # <<>> /\ Last(c.ips) = ip THEN m
  ELSE [ctx |-> [c EXCEPT !.ips = Append(@, ip)],
        db  |-> IF c.names = <<>> THEN m.db ELSE AddIPToNodeName(m.db, ip, Last(c.names), t)]

AddOwnHash(m, h, t) ==
  LET c == m.ctx
      d == IF c.ips = <<>> THEN m.db ELSE AddHashToIP(m.db, h, Last(c.ips), t)
  IN IF h \in ToSet(c.hashes) THEN m
     ELSE [ctx |-> [c EXCEPT !.hashes = Append(@, h)],
           db  |-> IF c.names = <<>> THEN d ELSE AddHashToNodeName(d, h, Last(c.names), t)]

\* A merged log starts from what the earlier one knew (not from its verbosity).
Inherit(base, c) ==
  [base EXCEPT !.hashes = c.hashes \o @, !.names = c.names \o @, !.ips = c.ips \o @,
               !.version = IF @ = "" THEN c.version ELSE @,
               !.conflicts = c.conflicts \o @]

\* types/utils.go: a column's header; the set of what it may be.
Identifier(c, d, t) ==
  LET known == {i \in DOMAIN c.hashes : SimplestInfoFromHash(d, c.hashes[i], t) # {c.hashes[i]}}
  IN IF c.names # <<>> THEN {Last(c.names)}
     ELSE IF c.ips # <<>> THEN SimplestInfoFromIP(d, Last(c.ips), t)
     ELSE IF known # {} THEN SimplestInfoFromHash(d, c.hashes[Min(known)], t)
     ELSE {c.path}
-----------------------------------------------------------------------------
(* State transfers.  SSTs are kept by donor.                                *)

\* The donor is selected, then shifts state within a hundredth of a second,
\* one unit of time; a line without a date gives no selection time (0).
MustHaveHappenedLocally(sst, t) == sst.selected # 0 /\ t - sst.selected <= 1

SetSSTTypeMaybe(c, type) ==
  LET mine(k) == \/ Cardinality(DOMAIN c.ssts) = 1
                 \/ State(c) = "DONOR" /\ k \in ToSet(c.names)
                 \/ State(c) = "JOINER" /\ c.ssts[k].joiner \in ToSet(c.names)
      keys == {k \in DOMAIN c.ssts : mine(k)}
  IN IF keys = {} THEN {c} ELSE {[c EXCEPT !.ssts[k].type = type] : k \in keys}

ConfirmSSTMetadata(m, t) ==
  LET c == m.ctx
      here == {k \in DOMAIN c.ssts : MustHaveHappenedLocally(c.ssts[k], t)}
      own(k) == IF State(c) = "DONOR" THEN k ELSE c.ssts[k].joiner
  IN IF State(c) \notin {"DONOR", "JOINER"} THEN {m}
     ELSE {AddOwnNames(m, [i \in DOMAIN order |-> own(order[i])], t) : order \in SetToSeqs(here)}

\* Mutant: transfers are kept by joiner.
SSTSelectedMutant(c, e) ==
  [c EXCEPT !.ssts = Put(@, Short[e.name],
     [joiner |-> Short[e.name], donor |-> Short[e.donor], type |-> "", selected |-> e.selected])]
SSTSelected(c, e) ==   \* RegexSSTRequestSuccess
  [c EXCEPT !.ssts = Put(@, Short[e.donor],
     [joiner |-> Short[e.name], donor |-> Short[e.donor], type |-> "", selected |-> e.selected])]

SSTEnds == {"RegexSSTComplete", "RegexSSTCompleteUnknown", "RegexSSTFailedUnknown",
            "RegexSSTStateTransferFailed"}
SSTOver(c, e) == [c EXCEPT !.ssts = Drop(@, Short[e.donor])]

\* The state a line about the node's own transfer sets, and the type it tells.
SSTStage == [RegexSSTProceeding         |-> [state |-> "JOINER", type |-> "SST"],
             RegexSSTStreamingTo        |-> [state |-> "DONOR",  type |-> ""],
             RegexISTSender             |-> [state |-> "DONOR",  type |-> "IST"],
             RegexISTReceiver           |-> [state |-> "JOINER", type |-> "IST"],
             RegexFailedToPrepareIST    |-> [state |-> "",       type |-> "SST"],
             RegexXtrabackupISTReceived |-> [state |-> "",       type |-> "IST"],
             RegexBypassSST             |-> [state |-> "",       type |-> "IST"]]

SSTProgress(c, e) ==
  LET stage == SSTStage[e.re]
      type == IF e.re = "RegexISTReceiver" /\ e.seqno = "0" THEN "SST" ELSE stage.type
      shifted == SetState(c, stage.state)
  IN IF type = "" THEN {shifted} ELSE SetSSTTypeMaybe(shifted, type)

SSTNotes == {"RegexSSTResourceUnavailable", "RegexSSTError", "RegexSSTInitiating",
  "RegexSSTCancellation", "RegexISTReceived", "RegexSocatConnRefused", "RegexPreparingBackup",
  "RegexTimeoutReceivingFirstData", "RegexWillNeverReceive", "RegexISTFailed"}
-----------------------------------------------------------------------------
(* States, events and views.                                                *)

Shift(m, e) ==   \* RegexShift, RegexRestoredState
  LET c == SetState(m.ctx, e.state2)
      s == [m EXCEPT !.ctx = c]
  IN IF e.state2 \in {"DONOR", "JOINER"} THEN ConfirmSSTMetadata(s, e.ts) ELSE {s}

\* The wsrep state a server event implies.
EventState == [RegexStarting |-> "OPEN", RegexShutdownComplete |-> "CLOSED",
  RegexTerminated |-> "CLOSED", RegexGotSignal6 |-> "CLOSED", RegexGotSignal11 |-> "CLOSED",
  RegexShutdownSignal |-> "CLOSED", RegexAborting |-> "CLOSED", RegexWsrepLoad |-> "OPEN",
  RegexWsrepRecovery |-> "RECOVERY", RegexUnknownConf |-> "", RegexAssertionFailure |-> "CLOSED",
  RegexBindAddressAlreadyUsed |-> "CLOSED", RegexTooManyConnections |-> "",
  RegexReversingHistory |-> ""]

ShutdownReasonMissing(c) == State(c) \notin {"DESTROYED", "CLOSED", "RECOVERY", ""}

Event(c, e) ==
  LET s == SetState(c, EventState[e.re])
  IN IF e.re = "RegexStarting" THEN [s EXCEPT !.version = e.version] ELSE s

EventMsg(c, e) ==
  LET unseen == \/ e.re = "RegexStarting" /\ ShutdownReasonMissing(c)
                \/ e.re = "RegexWsrepRecovery" /\ ShutdownReasonMissing(c)
                   /\ State(c) \notin {"JOINER", "OPEN"}
  IN IF unseen THEN <<e.re, "could not catch how/when it stopped">> ELSE <<e.re>>

ViewState == [RegexWsrepUnsafeBootstrap |-> "CLOSED", RegexWsrepConsistenctyCompromised |-> "CLOSED",
  RegexWsrepNonPrimary |-> "", RegexBootstrap |-> "", RegexSafeToBootstrapSet |-> "",
  RegexNoGrastate |-> "", RegexBootstrappingDefaultState |-> "", RegexLastInactiveCheck |-> "",
  RegexNodeSuspect |-> ""]

\* Mutant: the state depends on the index being known.
NewComponentMutant(c, e) ==
  IF ~e.primary THEN SetState(c, "NON-PRIMARY")
  ELSE IF c.myIdx = "" THEN c ELSE SetState([c EXCEPT !.members = e.members], "PRIMARY")
NewComponent(c, e) ==
  LET counted == [c EXCEPT !.members = e.members]
  IN IF ~e.primary THEN SetState(counted, "NON-PRIMARY")
     ELSE IF IsPrimary(counted) THEN counted ELSE SetState(counted, "PRIMARY")

NodeEstablished(m, e) == [m EXCEPT !.db = AddHashToIP(@, e.hash, e.ip, e.ts)]

NodeSeen(m, e) ==   \* RegexNodeJoined, RegexNodeLeft
  [m EXCEPT !.db = AddIPToMethod(AddHashToIP(@, e.hash, e.ip, e.ts), e.ip, e.method, e.ts)]

NodeChangedIdentity(m, e) ==
  LET ip == GetIPFromHash(m.db, e.hash)
  IN IF ip = "" THEN m ELSE [m EXCEPT !.db = AddHashToIP(@, e.hash2, ip, e.ts)]
-----------------------------------------------------------------------------
(* Identity.                                                                *)

OwnIPLines == {"RegexSourceNode", "RegexBaseHost", "RegexNodeIPFromEnv"}
OwnHashLines == {"RegexOwnUUID", "RegexOwnUUIDFromMessageRelay", "RegexOwnUUIDFromEstablished"}
IdxLines == {"RegexMyIDXFromComponent", "RegexOwnIndexFromView"}

\* A line about a member; a name of 31 characters may be truncated, and is not trusted.
\* Mutant: the index is compared whatever the view.
MemberAssociationMutant(m, a, t) ==
  LET told == [m EXCEPT !.db = AddHashToNodeName(@, a.hash, a.name, t)]
  IN IF a.truncated THEN m
     ELSE IF m.ctx.members > 0 THEN AddOwnName(AddOwnHash(told, a.hash, t), Short[a.name], t)
     ELSE told
MemberAssociation(m, a, t) ==
  LET told == [m EXCEPT !.db = AddHashToNodeName(@, a.hash, a.name, t)]
      mine == m.ctx.myIdx = a.idx /\ (IsPrimary(m.ctx) \/ m.ctx.members = 1)
  IN IF a.truncated THEN m
     ELSE IF mine THEN AddOwnName(AddOwnHash(told, a.hash, t), Short[a.name], t)
     ELSE told

\* The operator prints a whole view on one line; its member lines are handled
\* one after the other.  A member whose name is not trusted has no displayer,
\* which this handler calls all the same: the program stops there.
\* Mutant: the members counted are the pieces of the line, the empty first one
\* included.
OperatorMemberAssociationsMutant(m, e) ==
  LET after[i \in 0..Len(e.assocs)] ==
        IF i = 0 THEN [m EXCEPT !.ctx.myIdx = e.idx, !.ctx.members = Len(e.assocs) + 1]
        ELSE MemberAssociation(after[i - 1], e.assocs[i], e.ts)
  IN after[Len(e.assocs)]
OperatorMemberAssociations(m, e) ==
  LET after[i \in 0..Len(e.assocs)] ==
        IF i = 0 THEN [m EXCEPT !.ctx.myIdx = e.idx]
        ELSE MemberAssociation(after[i - 1], e.assocs[i], e.ts)
  IN after[Len(e.assocs)]
OperatorPanics(e) == \E i \in DOMAIN e.assocs : e.assocs[i].truncated
-----------------------------------------------------------------------------
(* Inconsistency votes.                                                     *)

Success == "0000000000000000"
FirstConflict(c, P(_)) ==
  LET is == {i \in DOMAIN c.conflicts : P(c.conflicts[i])} IN IF is = {} THEN 0 ELSE Min(is)
ConflictWithSeqno(c, s) == FirstConflict(c, LAMBDA x : x.seqno = s)
ConflictFromMD5(c, md5) ==
  FirstConflict(c, LAMBDA x : \E n \in DOMAIN x.votes : x.votes[n] = md5)
OldestUnresolved(c) == FirstConflict(c, LAMBDA x : x.winner = "")

Vote(c, i, node, md5) == [c EXCEPT !.conflicts[i].votes = Put(@, node, md5)]

\* Mutant: every vote begins a conflict.
VoteInitMutant(c, e) ==
  [c EXCEPT !.conflicts = Append(@, [seqno |-> e.seqno, initiatedBy |-> <<e.name>>,
     winner |-> "", votes |-> Put(EmptyMap, e.name, e.md5)])]
VoteInit(c, e) ==   \* Conflicts.Merge
  LET i == ConflictWithSeqno(c, e.seqno)
  IN IF i # 0 THEN Vote(c, i, e.name, e.md5)
     ELSE [c EXCEPT !.conflicts = Append(@, [seqno |-> e.seqno, initiatedBy |-> <<e.name>>,
             winner |-> "", votes |-> Put(EmptyMap, e.name, e.md5)])]

VoteRespond(c, e) ==
  LET i == ConflictWithSeqno(c, e.seqno) IN IF i = 0 THEN c ELSE Vote(c, i, e.name, e.md5)

InconsistentWithGroup(c, e) ==
  LET i == ConflictWithSeqno(c, e.seqno)
  IN IF i = 0 \/ c.names = <<>> THEN c ELSE Vote(c, i, Last(c.names), Success)

VoteWinner(c, e) ==
  LET i == ConflictFromMD5(c, e.md5)
  IN IF i = 0 THEN c ELSE [c EXCEPT !.conflicts[i].winner = e.md5]

VoteRecovery(c, e) ==
  LET i == ConflictWithSeqno(c, e.seqno)
  IN IF c.names = <<>> \/ i = 0 THEN c ELSE Vote(c, i, Last(c.names), e.md5)

Recast(x, old, new) ==
  [x EXCEPT !.votes = [n \in DOMAIN x.votes |-> IF x.votes[n] = old THEN new ELSE x.votes[n]]]
VoteRecomputed(c, e) ==
  [c EXCEPT !.conflicts = [i \in DOMAIN c.conflicts |-> Recast(c.conflicts[i], e.oldMD5, e.md5)]]

\* What a vote is reported as, against the error that began the conflict.
VoteResponse(vote, x) ==
  IF vote = Success THEN "Success"
  ELSE IF vote = x.votes[x.initiatedBy[1]] THEN "same error" ELSE "different error"
-----------------------------------------------------------------------------
DebugLines == OwnIPLines \cup OwnHashLines \cup IdxLines
  \cup {"RegexMemberAssociations", "RegexMemberCount", "RegexNodeEstablished",
        "RegexInconsistencyRecovery", "RegexInconsistencyVoteRecomputed",
        "RegexXtrabackupISTReceived", "RegexNodeNameFromEnv", "RegexPodName",
        "RegexOperatorMemberAssociations"}
Verbosity(re) == IF re \in DebugLines THEN DebugMySQL ELSE Info

OnCtx(m, c) == {[m EXCEPT !.ctx = c]}

\* The contexts and maps a matched line may lead to.
Handler(m, e) ==
  LET c == m.ctx IN
  CASE e.re \in OwnIPLines   -> {AddOwnIP(m, e.ip, e.ts)}
    [] e.re \in OwnHashLines -> {AddOwnHash(m, e.hash, e.ts)}
    [] e.re \in IdxLines     -> OnCtx(m, [c EXCEPT !.myIdx = e.idx])
    [] e.re = "RegexMemberCount"        -> OnCtx(m, [c EXCEPT !.members = e.members])
    [] e.re = "RegexMemberAssociations" -> {MemberAssociation(m, e, e.ts)}
    [] e.re = "RegexNodeNameFromEnv"    -> {AddOwnName(m, e.name, e.ts)}
    [] e.re = "RegexPodName"            -> OnCtx(m, [c EXCEPT !.pod = e.pod])
    [] e.re = "RegexOperatorMemberAssociations" -> {OperatorMemberAssociations(m, e)}
    [] e.re \in {"RegexShift", "RegexRestoredState"} -> Shift(m, e)
    [] e.re \in DOMAIN EventState -> OnCtx(m, Event(c, e))
    [] e.re \in DOMAIN ViewState  -> OnCtx(m, SetState(c, ViewState[e.re]))
    [] e.re = "RegexNewComponent" -> OnCtx(m, NewComponent(c, e))
    [] e.re = "RegexNodeEstablished"            -> {NodeEstablished(m, e)}
    [] e.re \in {"RegexNodeJoined", "RegexNodeLeft"} -> {NodeSeen(m, e)}
    [] e.re = "RegexNodeChangedIdentity"        -> {NodeChangedIdentity(m, e)}
    [] e.re = "RegexSSTRequestSuccess"          -> OnCtx(m, SSTSelected(c, e))
    [] e.re \in SSTEnds         -> OnCtx(m, SSTOver(c, e))
    [] e.re \in DOMAIN SSTStage -> {[m EXCEPT !.ctx = s] : s \in SSTProgress(c, e)}
    [] e.re \in {"RegexDesync", "RegexResync"} -> OnCtx(m, [c EXCEPT !.desynced = (e.re = "RegexDesync")])
    [] e.re = "RegexInconsistencyVoteInit"       -> OnCtx(m, VoteInit(c, e))
    [] e.re = "RegexInconsistencyVoteRespond"    -> OnCtx(m, VoteRespond(c, e))
    [] e.re = "RegexInconsistencyVoteInconsistentWithGroup" -> OnCtx(m, InconsistentWithGroup(c, e))
    [] e.re = "RegexInconsistencyWinner"         -> OnCtx(m, VoteWinner(c, e))
    [] e.re = "RegexInconsistencyRecovery"       -> OnCtx(m, VoteRecovery(c, e))
    [] e.re = "RegexInconsistencyVoteRecomputed" -> OnCtx(m, VoteRecomputed(c, e))
    [] OTHER -> {m}   \* display only

\* LogRegex.Handle: the verbosity falls before the internal regex is tried.
HandleAt(m, e, verbosity) ==
  LET c == m.ctx
      least == IF c.minVerbosity > verbosity THEN verbosity ELSE c.minVerbosity
      seen == [m EXCEPT !.ctx = [c EXCEPT !.ftype = e.ftype, !.minVerbosity = least]]
  IN IF e.parsed THEN Handler(seen, e) ELSE {seen}
Handle(m, e) == HandleAt(m, e, Verbosity(e.re))
=============================================================================
