--------------------------- MODULE MongoProfiler ---------------------------
(***************************************************************************)
(* src/go/mongolib/profiler and stats: two goroutines share a map of       *)
(* counters.  getDocs reads the cursor and adds each document (Stats.Add,  *)
(* four steps, the count itself outside the lock).  getData answers the    *)
(* ticker by flushing and the stop channel by closing the cursor.  A flush *)
(* is a snapshot, a blocking send on queriesChan and a reset; getDocs      *)
(* flushes once more when the cursor ends, and then stops the profiler.    *)
(* The user starts it, receives snapshots, and may call Stop at any time.  *)
(*                                                                         *)
(* Channels are unbuffered: a send is one step with its receiver.  What    *)
(* the map holds is kept as the set of documents counted and of documents  *)
(* whose samples (times, sizes) were appended.                             *)
(***************************************************************************)
EXTENDS Integers, Sequences, FiniteSets

CONSTANTS NDocs,        \* documents in the cursor
          Groups,       \* GroupKeys: operation, fingerprint and namespace
          GroupOf,      \* document -> its group
          Stoppers,     \* the user's calls of Stop
          MaxTicks,     \* bound: ticks; before one it is a nil ticker
          MaxReceives   \* how many snapshots the user receives

Docs == 1..NDocs

ASSUME DocsAssumption == NDocs \in Nat /\ GroupOf \in [Docs -> Groups]
ASSUME BoundsAssumption == MaxTicks \in Nat /\ MaxReceives \in Nat
ASSUME StoppersAssumption == {"data", "docs", "nobody"} \cap Stoppers = {}

VARIABLES
  groups, counted, sampled,  \* queryInfoAndCounters: its keys, what it counts
  next,                      \* the cursor: documents delivered
  held, added,               \* getDocs's qiac; documents whose Add returned
  dataPc, docsPc, snap,      \* the goroutines and the snapshot each is sending
  running, lock, wg, call,   \* Profile's fields; the calls of Stop
  ticks, received            \* ticks so far; what came out of queriesChan

stats  == <<groups, counted, sampled>>
reader == <<next, held, added>>
stop   == <<running, lock, wg, call>>
vars   == <<stats, reader, dataPc, docsPc, snap, stop, ticks, received>>

\* getDocs calls Stop too, in its first deferred call.
Callers == Stoppers \cup {"docs"}
Flushers == {"data", "docs"}

Nothing == [groups |-> {}, counted |-> {}, sampled |-> {}]
-----------------------------------------------------------------------------
(* Start, and getData up to its loop.                                       *)

Start ==
  /\ ~running /\ lock = "nobody"
  /\ running' = TRUE /\ dataPc' = "spawn"
  /\ UNCHANGED <<stats, reader, docsPc, snap, lock, wg, call, ticks, received>>

SpawnGetDocs ==
  /\ dataPc = "spawn"
  /\ docsPc' = "next" /\ dataPc' = "add"
  /\ UNCHANGED <<stats, reader, snap, stop, ticks, received>>

AddToWaitGroup ==
  /\ dataPc = "add"
  /\ wg' = wg + 1 /\ dataPc' = "loop"
  /\ UNCHANGED <<stats, reader, docsPc, snap, running, lock, call, ticks, received>>

\* Blocked in the select: only now does a non-blocking send find a receiver.
Park ==
  /\ dataPc = "loop"
  /\ dataPc' = "select"
  /\ UNCHANGED <<stats, reader, docsPc, snap, stop, ticks, received>>

Tick ==
  /\ dataPc = "select" /\ ticks < MaxTicks
  /\ dataPc' = "flush" /\ ticks' = ticks + 1
  /\ UNCHANGED <<stats, reader, docsPc, snap, stop, received>>

\* Mutants: Done twice, or not at all.
CloseCursorMutant ==
  /\ dataPc = "close"
  /\ wg' = wg - 2 /\ dataPc' = "ended"
  /\ UNCHANGED <<stats, reader, docsPc, snap, running, lock, call, ticks, received>>

CloseCursorMutant2 ==
  /\ dataPc = "close"
  /\ wg' = wg /\ dataPc' = "ended"
  /\ UNCHANGED <<stats, reader, docsPc, snap, running, lock, call, ticks, received>>

\* Close the cursor (getDocs's next read may fail now); the deferred Done.
CloseCursor ==
  /\ dataPc = "close"
  /\ wg' = wg - 1 /\ dataPc' = "ended"
  /\ UNCHANGED <<stats, reader, docsPc, snap, running, lock, call, ticks, received>>
-----------------------------------------------------------------------------
(* FlushQueries, by either goroutine.                                       *)

Goto(g, from, to) ==
  IF g = "data" THEN dataPc = from /\ dataPc' = to /\ UNCHANGED docsPc
                ELSE docsPc = from /\ docsPc' = to /\ UNCHANGED dataPc

\* Stats.Queries: a copy, under the lock.
Queries(g) ==
  /\ Goto(g, "flush", "send")
  /\ snap' = [snap EXCEPT ![g] = [groups |-> groups, counted |-> counted,
                                  sampled |-> sampled]]
  /\ UNCHANGED <<stats, reader, stop, ticks, received>>

\* queriesChan <- snapshot, and the user's receive.
Receive(g) ==
  /\ Len(received) < MaxReceives
  /\ Goto(g, "send", "reset")
  /\ received' = Append(received, [by |-> g, what |-> snap[g]])
  /\ snap' = [snap EXCEPT ![g] = Nothing]
  /\ UNCHANGED <<stats, reader, stop, ticks>>

\* Mutant: the flush resets nothing.
ResetMutant(g) ==
  /\ Goto(g, "reset", IF g = "data" THEN "loop" ELSE "stop")
  /\ UNCHANGED <<stats, reader, snap, stop, ticks, received>>

\* Stats.Reset: a new map; an entry getDocs holds is no longer in it.
Reset(g) ==
  /\ Goto(g, "reset", IF g = "data" THEN "loop" ELSE "stop")
  /\ groups' = {} /\ counted' = {} /\ sampled' = {}
  /\ held' = IF held = "mapped" THEN "gone" ELSE held
  /\ UNCHANGED <<next, added, snap, stop, ticks, received>>

Flush(g) == Queries(g) \/ Reset(g)
-----------------------------------------------------------------------------
(* getDocs.                                                                 *)

\* cursor.Next, Decode, the filters and the fingerprint: the document is to be
\* added, or passed over because a filter or the fingerprinter refused it.
NextDoc ==
  /\ docsPc = "next" /\ next < NDocs
  /\ next' = next + 1 /\ docsPc' \in {"get", "next"}
  /\ UNCHANGED <<stats, held, added, dataPc, snap, stop, ticks, received>>

\* Mutant: no deferred flush.
NoMoreDocsMutant ==
  /\ docsPc = "next"
  /\ docsPc' = "stop" /\ next' \in {next, next + 1} \cap 0..NDocs
  /\ UNCHANGED <<stats, held, added, dataPc, snap, stop, ticks, received>>

\* The cursor is exhausted, closed or fails, or the document it delivers cannot
\* be decoded.
NoMoreDocs ==
  /\ docsPc = "next"
  /\ docsPc' = "flush" /\ next' \in {next, next + 1} \cap 0..NDocs
  /\ UNCHANGED <<stats, held, added, dataPc, snap, stop, ticks, received>>

\* getQueryInfoAndCounters, under the read lock.
GetEntry ==
  /\ docsPc = "get"
  /\ IF GroupOf[next] \in groups THEN held' = "mapped" /\ docsPc' = "count"
                                 ELSE held' = "fresh" /\ docsPc' = "set"
  /\ UNCHANGED <<stats, next, added, dataPc, snap, stop, ticks, received>>

\* Mutant: the new entry is not put into the map.
SetEntryMutant ==
  /\ docsPc = "set"
  /\ held' = "gone" /\ docsPc' = "count"
  /\ UNCHANGED <<stats, next, added, dataPc, snap, stop, ticks, received>>

\* setQueryInfoAndCounters, under the lock.
SetEntry ==
  /\ docsPc = "set"
  /\ groups' = groups \cup {GroupOf[next]} /\ held' = "mapped" /\ docsPc' = "count"
  /\ UNCHANGED <<counted, sampled, next, added, dataPc, snap, stop, ticks, received>>

\* qiac.Count++, under no lock.
CountDoc ==
  /\ docsPc = "count"
  /\ counted' = IF held = "mapped" THEN counted \cup {next} ELSE counted
  /\ docsPc' = "sample"
  /\ UNCHANGED <<groups, sampled, reader, dataPc, snap, stop, ticks, received>>

\* Mutant: the entry is looked up again under the lock, or made anew.
SampleDocMutant ==
  /\ docsPc = "sample"
  /\ groups' = groups \cup {GroupOf[next]} /\ sampled' = sampled \cup {next}
  /\ added' = added \cup {next} /\ held' = "none" /\ docsPc' = "next"
  /\ UNCHANGED <<counted, next, dataPc, snap, stop, ticks, received>>

\* The rest of Add, under the lock.
SampleDoc ==
  /\ docsPc = "sample"
  /\ sampled' = IF held = "mapped" THEN sampled \cup {next} ELSE sampled
  /\ added' = added \cup {next} /\ held' = "none" /\ docsPc' = "next"
  /\ UNCHANGED <<groups, counted, next, dataPc, snap, stop, ticks, received>>
-----------------------------------------------------------------------------
(* Stop, by the user or by getDocs.                                         *)

CallStop(c) ==
  /\ c \in Stoppers /\ call[c] = "no"
  /\ call' = [call EXCEPT ![c] = "lock"]
  /\ UNCHANGED <<stats, reader, dataPc, docsPc, snap, running, lock, wg, ticks,
                 received>>

DocsCallsStop ==
  /\ docsPc = "stop"
  /\ docsPc' = "stopping" /\ call' = [call EXCEPT !["docs"] = "lock"]
  /\ UNCHANGED <<stats, reader, dataPc, snap, running, lock, wg, ticks, received>>

\* lock.Lock(); nothing to do unless the profiler was started.
LockStop(c) ==
  /\ call[c] = "lock" /\ lock = "nobody"
  /\ IF running THEN lock' = c /\ call' = [call EXCEPT ![c] = "signal"]
                ELSE lock' = lock /\ call' = [call EXCEPT ![c] = "noop"]
  /\ UNCHANGED <<stats, reader, dataPc, docsPc, snap, running, wg, ticks, received>>

\* select { case stopChan <- true: default: }
Signal(c) ==
  /\ call[c] = "signal"
  /\ dataPc' = IF dataPc = "select" THEN "close" ELSE dataPc
  /\ call' = [call EXCEPT ![c] = "wait"]
  /\ UNCHANGED <<stats, reader, docsPc, snap, running, lock, wg, ticks, received>>

\* stopWaitGroup.Wait(); lock.Unlock().
WaitStop(c) ==
  /\ call[c] = "wait" /\ wg = 0
  /\ call' = [call EXCEPT ![c] = "returned"] /\ lock' = "nobody"
  /\ docsPc' = IF c = "docs" THEN "ended" ELSE docsPc
  /\ UNCHANGED <<stats, reader, dataPc, snap, running, wg, ticks, received>>

StopStep(c) == LockStop(c) \/ Signal(c) \/ WaitStop(c)
-----------------------------------------------------------------------------
Init ==
  /\ groups = {} /\ counted = {} /\ sampled = {}
  /\ next = 0 /\ held = "none" /\ added = {}
  /\ dataPc = "idle" /\ docsPc = "idle" /\ snap = [g \in Flushers |-> Nothing]
  /\ running = FALSE /\ lock = "nobody" /\ wg = 0 /\ call = [c \in Callers |-> "no"]
  /\ ticks = 0 /\ received = <<>>

GetData == SpawnGetDocs \/ AddToWaitGroup \/ Park \/ CloseCursor \/ Flush("data")

AddDoc == GetEntry \/ SetEntry \/ CountDoc \/ SampleDoc

GetDocs == NextDoc \/ NoMoreDocs \/ AddDoc \/ Flush("docs") \/ DocsCallsStop

User == Start \/ (\E c \in Stoppers : CallStop(c)) \/ \E g \in Flushers : Receive(g)

Next == User \/ Tick \/ GetData \/ GetDocs \/ \E c \in Callers : StopStep(c)

Spec == Init /\ [][Next]_vars

\* The scheduler runs every goroutine that can run, and the user receives.
FairSpec == /\ Spec
            /\ WF_vars(GetData) /\ WF_vars(GetDocs)
            /\ WF_vars(\E g \in Flushers : Receive(g))
            /\ \A c \in Callers : WF_vars(StopStep(c))
-----------------------------------------------------------------------------
Snapshots == [groups : SUBSET Groups, counted : SUBSET Docs, sampled : SUBSET Docs]

TypeOK ==
  /\ groups \subseteq Groups /\ counted \subseteq Docs /\ sampled \subseteq Docs
  /\ next \in 0..NDocs /\ added \subseteq Docs
  /\ held \in {"none", "fresh", "mapped", "gone"}
  /\ dataPc \in {"idle", "spawn", "add", "loop", "select", "flush", "send", "reset",
                 "close", "ended"}
  /\ docsPc \in {"idle", "next", "get", "set", "count", "sample", "flush", "send",
                 "reset", "stop", "stopping", "ended"}
  /\ snap \in [Flushers -> Snapshots]
  /\ running \in BOOLEAN /\ lock \in Callers \cup {"nobody"} /\ wg \in 0..1
  /\ call \in [Callers -> {"no", "lock", "signal", "wait", "returned", "noop"}]
  /\ ticks \in 0..MaxTicks /\ received \in Seq([by : Flushers, what : Snapshots])

\* A snapshot never has samples of a document it does not count, nor counts one
\* of a query it does not list, and it misses the samples of one document at most.
Coherent(s) ==
  /\ s.sampled \subseteq s.counted
  /\ \A d \in s.counted : GroupOf[d] \in s.groups
  /\ \A d, e \in s.counted \ s.sampled : d = e

SamplesMatch == \A i \in DOMAIN received : Coherent(received[i].what)

\* No document is in two of the ticker's snapshots.
TicksDisjoint ==
  \A i, j \in DOMAIN received :
    i # j /\ received[i].by = "data" /\ received[j].by = "data" =>
      received[i].what.counted \cap received[j].what.counted = {}

Reports == [i \in DOMAIN received |-> received[i].what.counted]

InReports == UNION {Reports[i] : i \in DOMAIN received}

\* Every document is counted once: no two reports share one, and when getDocs
\* has reported for the last time, all that were added are in some report.
CountedOnce ==
  /\ \A i, j \in DOMAIN received : i # j => Reports[i] \cap Reports[j] = {}
  /\ docsPc \in {"stop", "stopping", "ended"} => added \subseteq InReports

Counter == INSTANCE DocumentCounter WITH pending <- added \ InReports, reports <- Reports

\* Until a first tick, so for ever with the nil ticker of pt-mongodb-query-digest,
\* the profiler is the counter it promises to be: every document added is in its
\* one report, stopped early or not.
Exact ==
  /\ Counter!Init
  /\ [][ticks' = 0 => Counter!Next \/ UNCHANGED <<added \ InReports, Reports>>]_vars

\* A started profiler delivers its last report, stopped early or not.
ReportArrives == running ~> \E i \in DOMAIN received : received[i].by = "docs"

\* A Stop whose signal was taken returns.
SignalledStopReturns ==
  \A c \in Callers : call[c] = "wait" /\ dataPc = "close" ~> call[c] = "returned"

\* Every call of Stop returns.
StopReturns == \A c \in Stoppers : call[c] = "lock" ~> call[c] \in {"returned", "noop"}
=============================================================================
