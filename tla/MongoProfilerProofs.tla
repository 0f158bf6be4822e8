------------------------ MODULE MongoProfilerProofs ------------------------
(***************************************************************************)
(* Theorems about MongoProfiler, for every cursor, number of ticks, user   *)
(* and interleaving of the goroutines.                                     *)
(***************************************************************************)
EXTENDS MongoProfiler, TLAPS

USE DEF stats, reader, stop

\* The document getDocs has in hand.
InHand == docsPc \in {"get", "set", "count", "sample"}

\* getData is between its Add(1) and its Done.
Counted == dataPc \notin {"idle", "spawn", "add", "ended"}

TypeInv ==
  /\ TypeOK
  /\ InHand => next \in Docs
  /\ wg = IF Counted THEN 1 ELSE 0
  /\ ~running => dataPc = "idle"

LEMMA NothingType == Nothing \in Snapshots /\ Coherent(Nothing)
BY DEF Nothing, Snapshots, Coherent

LEMMA TypeInvInit == Init => TypeInv
<1> SUFFICES ASSUME Init PROVE TypeInv
  OBVIOUS
<1>1. snap \in [Flushers -> Snapshots] /\ received \in Seq([by : Flushers, what : Snapshots])
  BY NothingType DEF Init
<1>2. 0 \in 0..NDocs /\ 0 \in 0..MaxTicks /\ 0 \in 0..1
  BY DocsAssumption, BoundsAssumption
<1> QED
  BY <1>1, <1>2 DEF Init, TypeInv, TypeOK, InHand, Counted

LEMMA GotoType ==
  ASSUME TypeOK, NEW g \in Flushers, NEW from, NEW to,
         from \in {"flush", "send", "reset"}, to \in {"send", "reset", "loop", "stop"}, g = "data" => to # "stop",
         g = "docs" => to # "loop", Goto(g, from, to)
  PROVE  /\ dataPc' \in {"idle", "spawn", "add", "loop", "select", "flush", "send",
                         "reset", "close", "ended"}
         /\ docsPc' \in {"idle", "next", "get", "set", "count", "sample", "flush",
                         "send", "reset", "stop", "stopping", "ended"}
         /\ InHand' => InHand
         /\ Counted' = Counted /\ (dataPc = "idle" => dataPc' = "idle")
BY DEF TypeOK, Goto, Flushers, InHand, Counted

LEMMA FlushTypeInv ==
  ASSUME TypeInv, NEW g \in Flushers, Queries(g) \/ Receive(g) \/ Reset(g)
  PROVE  TypeInv'
<1>1. CASE Queries(g)
  <2>1. [groups |-> groups, counted |-> counted, sampled |-> sampled] \in Snapshots
    BY DEF TypeInv, TypeOK, Snapshots
  <2> QED
    BY <1>1, <2>1, GotoType DEF Queries, TypeInv, TypeOK
<1>2. CASE Receive(g)
  <2>1. received' \in Seq([by : Flushers, what : Snapshots])
    BY <1>2 DEF Receive, TypeInv, TypeOK
  <2> QED
    BY <1>2, <2>1, NothingType, GotoType DEF Receive, TypeInv, TypeOK
<1>3. CASE Reset(g)
  BY <1>3, GotoType DEF Reset, TypeInv, TypeOK, Flushers
<1> QED
  BY <1>1, <1>2, <1>3

LEMMA GetDataTypeInv ==
  TypeInv /\ (Start \/ SpawnGetDocs \/ AddToWaitGroup \/ Park \/ Tick \/ CloseCursor)
  => TypeInv'
<1>1. ASSUME TypeInv, Start \/ SpawnGetDocs \/ Park PROVE TypeInv'
  <2>1. CASE Start
    BY <1>1, <2>1 DEF Start, TypeInv, TypeOK, InHand, Counted
  <2>2. CASE SpawnGetDocs
    BY <1>1, <2>2 DEF SpawnGetDocs, TypeInv, TypeOK, InHand, Counted
  <2>3. CASE Park
    BY <1>1, <2>3 DEF Park, TypeInv, TypeOK, InHand, Counted
  <2> QED
    BY <1>1, <2>1, <2>2, <2>3
<1>3. ASSUME TypeInv, AddToWaitGroup \/ CloseCursor PROVE TypeInv'
  <2>1. wg' = IF Counted' THEN 1 ELSE 0
    BY <1>3 DEF AddToWaitGroup, CloseCursor, TypeInv, Counted
  <2> QED
    BY <1>3, <2>1 DEF AddToWaitGroup, CloseCursor, TypeInv, TypeOK, InHand, Counted
<1>2. ASSUME TypeInv, Tick PROVE TypeInv'
  <2>1. ticks' \in 0..MaxTicks
    BY <1>2, BoundsAssumption DEF Tick, TypeInv, TypeOK
  <2> QED
    BY <1>2, <2>1 DEF Tick, TypeInv, TypeOK, InHand, Counted
<1> QED
  BY <1>1, <1>2, <1>3

LEMMA GetDocsTypeInv ==
  TypeInv /\ (NextDoc \/ NoMoreDocs \/ AddDoc \/ DocsCallsStop) => TypeInv'
<1> SUFFICES ASSUME TypeInv, NextDoc \/ NoMoreDocs \/ AddDoc \/ DocsCallsStop
             PROVE  TypeInv'
  OBVIOUS
<1>1. CASE NextDoc
  <2>1. next' \in 0..NDocs /\ next' \in Docs
    BY <1>1, DocsAssumption DEF NextDoc, TypeInv, TypeOK, Docs
  <2> QED
    BY <1>1, <2>1 DEF NextDoc, TypeInv, TypeOK, InHand, Counted
<1>4. CASE NoMoreDocs
  BY <1>4 DEF NoMoreDocs, TypeInv, TypeOK, InHand, Counted
<1>2. CASE AddDoc
  BY <1>2, DocsAssumption DEF AddDoc, GetEntry, SetEntry, CountDoc, SampleDoc, TypeInv,
     TypeOK, InHand, Counted
<1>3. CASE DocsCallsStop
  BY <1>3 DEF DocsCallsStop, Callers, TypeInv, TypeOK, InHand, Counted
<1> QED
  BY <1>1, <1>2, <1>3, <1>4

LEMMA StopTypeInv ==
  ASSUME TypeInv, NEW c \in Callers, StopStep(c) \/ CallStop(c) PROVE TypeInv'
BY DEF StopStep, LockStop, Signal, WaitStop, CallStop, TypeInv, TypeOK, InHand, Counted

LEMMA TypeInvStep == TypeInv /\ [Next]_vars => TypeInv'
<1> SUFFICES ASSUME TypeInv, [Next]_vars PROVE TypeInv'
  OBVIOUS
<1>1. CASE UNCHANGED vars
  BY <1>1 DEF vars, TypeInv, TypeOK, InHand, Counted
<1>2. CASE Next
  BY <1>2, FlushTypeInv, GetDataTypeInv, GetDocsTypeInv, StopTypeInv
     DEF Next, User, GetData, GetDocs, Flush, Flushers, Callers
<1> QED
  BY <1>1, <1>2

\* Every variable has its type, the wait group's counter among them.
THEOREM TypeCorrect == Spec => []TypeOK
<1>1. TypeInv => TypeOK
  BY DEF TypeInv
<1> QED
  BY <1>1, TypeInvInit, TypeInvStep, PTL DEF Spec

-----------------------------------------------------------------------------
(* Snapshots are coherent.                                                  *)

\* getDocs is not there before getData spawns it, and does nothing but wait
\* while its call of Stop is under way.
Phases ==
  /\ dataPc \in {"idle", "spawn"} => docsPc = "idle"
  /\ call["docs"] \in {"lock", "signal", "wait"} => docsPc = "stopping"

LEMMA PhasesStep ==
  ASSUME TypeInv, Phases, [Next]_vars PROVE Phases'
<1>1. CASE \E g \in Flushers : Queries(g) \/ Receive(g) \/ Reset(g)
  BY <1>1 DEF Queries, Receive, Reset, Goto, Flushers, Phases
<1>2. CASE NextDoc \/ NoMoreDocs \/ AddDoc
  BY <1>2 DEF NextDoc, NoMoreDocs, AddDoc, GetEntry, SetEntry, CountDoc, SampleDoc, Phases
<1>3. CASE Start \/ SpawnGetDocs \/ AddToWaitGroup \/ Park \/ Tick \/ CloseCursor
  BY <1>3 DEF Start, SpawnGetDocs, AddToWaitGroup, Park, Tick, CloseCursor, Phases, TypeInv
<1>4. CASE DocsCallsStop
  BY <1>4 DEF DocsCallsStop, Phases
<1>5. CASE \E c \in Stoppers : CallStop(c)
  BY <1>5, StoppersAssumption DEF CallStop, Phases, TypeInv, TypeOK, Callers
<1>6. ASSUME NEW c \in Callers, LockStop(c) PROVE Phases'
  <2>1. call'["docs"] \in {"lock", "signal", "wait"} => call["docs"] = "lock" \/ call' = call
                                                       \/ call'["docs"] = call["docs"]
    <3>1. call' = [call EXCEPT ![c] = "signal"] \/ call' = [call EXCEPT ![c] = "noop"]
      BY <1>6 DEF LockStop
    <3>2. call["docs"] = "lock" \/ c # "docs"
      BY <1>6 DEF LockStop
    <3> QED
      BY <3>1, <3>2 DEF TypeInv, TypeOK, Callers
  <2> QED
    BY <1>6, <2>1 DEF LockStop, Phases
<1>7. ASSUME NEW c \in Callers, Signal(c) PROVE Phases'
  BY <1>7 DEF Signal, Phases, TypeInv, TypeOK
<1>8. ASSUME NEW c \in Callers, WaitStop(c) PROVE Phases'
  BY <1>8 DEF WaitStop, Phases, TypeInv, TypeOK
<1>9. CASE UNCHANGED vars
  BY <1>9 DEF vars, Phases
<1> QED
  BY <1>1, <1>2, <1>3, <1>4, <1>5, <1>6, <1>7, <1>8, <1>9
     DEF Next, User, GetData, GetDocs, Flush, Flushers, StopStep

\* The map is coherent but for the document in hand, whose entry getDocs holds.
MapInv ==
  /\ sampled \subseteq counted
  /\ \A d \in counted : GroupOf[d] \in groups
  /\ \A d \in counted \ sampled : d = next /\ docsPc = "sample" /\ held = "mapped"
  /\ docsPc \in {"count", "sample"} => held \in {"mapped", "gone"}
  /\ docsPc \in {"count", "sample"} /\ held = "mapped" => GroupOf[next] \in groups
  /\ docsPc = "sample" /\ held = "mapped" => next \in counted

Sent ==
  /\ \A g \in Flushers : Coherent(snap[g])
  /\ SamplesMatch

LEMMA MapStep ==
  ASSUME TypeInv, Phases, MapInv, [Next]_vars PROVE MapInv'
<1>1. CASE NextDoc \/ NoMoreDocs
  BY <1>1, DocsAssumption DEF NextDoc, NoMoreDocs, MapInv, Docs, TypeInv, TypeOK
<1>2. CASE GetEntry \/ SetEntry
  BY <1>2 DEF GetEntry, SetEntry, MapInv, TypeInv, TypeOK
<1>3. CASE CountDoc
  BY <1>3 DEF CountDoc, MapInv, TypeInv, TypeOK, InHand, Counted
<1>4. CASE SampleDoc
  BY <1>4 DEF SampleDoc, MapInv, TypeInv, TypeOK, InHand, Counted
<1>5. CASE \E g \in Flushers : Queries(g) \/ Receive(g)
  BY <1>5 DEF Queries, Receive, Goto, MapInv
<1>6. CASE \E g \in Flushers : Reset(g)
  BY <1>6 DEF Reset, Goto, MapInv
<1>7. CASE Start \/ SpawnGetDocs \/ AddToWaitGroup \/ Park \/ Tick \/ CloseCursor
            \/ DocsCallsStop
  BY <1>7 DEF Start, SpawnGetDocs, AddToWaitGroup, Park, Tick, CloseCursor,
     DocsCallsStop, MapInv, Phases
<1>8. CASE \E c \in Callers : StopStep(c) \/ CallStop(c)
  BY <1>8 DEF StopStep, LockStop, Signal, WaitStop, CallStop, MapInv, Phases, TypeInv, TypeOK
<1>9. CASE UNCHANGED vars
  BY <1>9 DEF vars, MapInv
<1> QED
  BY <1>1, <1>2, <1>3, <1>4, <1>5, <1>6, <1>7, <1>8, <1>9
     DEF Next, User, GetData, GetDocs, AddDoc, Flush, Flushers, Callers

LEMMA Appended ==
  ASSUME NEW S, NEW s \in Seq(S), NEW x \in S, NEW r, r = Append(s, x)
  PROVE  \A i \in DOMAIN r :
           \/ i = Len(s) + 1 /\ r[i] = x
           \/ i \in DOMAIN s /\ r[i] = s[i]
OBVIOUS

LEMMA Received ==
  ASSUME TypeInv, NEW g \in Flushers, Receive(g)
  PROVE  \A i \in DOMAIN received' :
           \/ i = Len(received) + 1 /\ received'[i].what = snap[g] /\ received'[i].by = g
           \/ i \in DOMAIN received /\ received'[i] = received[i]
<1> DEFINE S == [by : Flushers, what : Snapshots]
           x == [by |-> g, what |-> snap[g]]
<1>1. received \in Seq(S) /\ x \in S /\ received' = Append(received, x)
  BY DEF Receive, TypeInv, TypeOK
<1>2. x.what = snap[g] /\ x.by = g
  OBVIOUS
<1> HIDE DEF S, x
<1>3. \A i \in DOMAIN received' :
        \/ i = Len(received) + 1 /\ received'[i] = x
        \/ i \in DOMAIN received /\ received'[i] = received[i]
  BY <1>1, Appended
<1> QED
  BY <1>2, <1>3

LEMMA SentStep ==
  ASSUME TypeInv, MapInv, Sent, [Next]_vars PROVE Sent'
<1>1. ASSUME NEW g \in Flushers, Queries(g) PROVE Sent'
  <2>1. Coherent([groups |-> groups, counted |-> counted, sampled |-> sampled])
    BY DEF MapInv, Coherent
  <2>2. \A h \in Flushers : Coherent(snap'[h])
    BY <1>1, <2>1 DEF Queries, Sent, TypeInv, TypeOK
  <2> QED
    BY <1>1, <2>2 DEF Queries, Sent, SamplesMatch
<1>2. ASSUME NEW g \in Flushers, Receive(g) PROVE Sent'
  <2>1. \A h \in Flushers : Coherent(snap'[h])
    BY <1>2, NothingType DEF Receive, Sent, TypeInv, TypeOK
  <2>2. \A i \in DOMAIN received' :
          \/ received'[i].what = snap[g]
          \/ i \in DOMAIN received /\ received'[i] = received[i]
    BY <1>2, Received
  <2> QED
    BY <2>1, <2>2 DEF Sent, SamplesMatch
<1>3. CASE UNCHANGED <<snap, received>>
  BY <1>3 DEF Sent, SamplesMatch
<1>4. (\E g \in Flushers : Queries(g) \/ Receive(g)) \/ UNCHANGED <<snap, received>>
  BY DEF Next, vars, User, Start, CallStop, Tick, GetData, SpawnGetDocs, AddToWaitGroup,
     Park, CloseCursor, Flush, Flushers, Reset, GetDocs, NextDoc, NoMoreDocs, AddDoc,
     GetEntry, SetEntry, CountDoc, SampleDoc, DocsCallsStop, StopStep, LockStop, Signal,
     WaitStop
<1> QED
  BY <1>1, <1>2, <1>3, <1>4

\* Wherever a flush falls within Stats.Add, the snapshot the user receives is
\* coherent: no samples without a count, no count without its query.
THEOREM SnapshotsCoherent == Spec => []SamplesMatch
<1>1. Init => Phases /\ MapInv /\ Sent
  BY NothingType DEF Init, Phases, MapInv, Sent, SamplesMatch, Callers
<1>2. TypeInv /\ Phases /\ MapInv /\ Sent /\ [Next]_vars => (Phases /\ MapInv /\ Sent)'
  BY PhasesStep, MapStep, SentStep
<1>3. Sent => SamplesMatch
  BY DEF Sent
<1> QED
  BY <1>1, <1>2, <1>3, TypeInvInit, TypeInvStep, PTL DEF Spec
-----------------------------------------------------------------------------
(* The ticker's snapshots share no document.                                *)

\* The documents that may have been counted: CountDoc counts a new one.
Old == IF docsPc \in {"get", "set", "count"} THEN 1..(next - 1) ELSE 1..next

Fresh ==
  /\ counted \subseteq Old
  /\ \A g \in Flushers : snap[g].counted \subseteq Old
  /\ \A i \in DOMAIN received : received[i].what.counted \subseteq Old

\* What the ticker has sent is not counted any more, nor about to be sent again.
Apart ==
  /\ TicksDisjoint
  /\ \A i \in DOMAIN received : received[i].by = "data" =>
       /\ dataPc \notin {"send", "reset"} => received[i].what.counted \cap counted = {}
       /\ dataPc = "send" => received[i].what.counted \cap snap["data"].counted = {}

\* Every other step leaves alone what the invariants below speak of.
Aside == /\ UNCHANGED <<counted, added, held, next, snap, received>>
         /\ \/ UNCHANGED docsPc
            \/ docsPc = "idle" /\ docsPc' = "next"
            \/ docsPc = "stop" /\ docsPc' = "stopping"
            \/ docsPc = "stopping" /\ docsPc' = "ended"
         /\ \/ UNCHANGED dataPc
            \/ dataPc \notin {"send", "reset"} /\ dataPc' \notin {"send", "reset"}

LEMMA Steps ==
  ASSUME TypeInv, Phases, [Next]_vars
  PROVE  \/ \E g \in Flushers : Queries(g) \/ Receive(g) \/ Reset(g)
         \/ NextDoc \/ NoMoreDocs \/ AddDoc
         \/ Aside
<1>1. CASE Start \/ SpawnGetDocs \/ AddToWaitGroup \/ Park \/ Tick \/ CloseCursor
  BY <1>1 DEF Start, SpawnGetDocs, AddToWaitGroup, Park, Tick, CloseCursor, Aside, Phases,
     TypeInv
<1>2. CASE DocsCallsStop
  BY <1>2 DEF DocsCallsStop, Aside
<1>3. CASE \E c \in Callers : StopStep(c) \/ CallStop(c)
  BY <1>3 DEF StopStep, LockStop, Signal, WaitStop, CallStop, Aside, Phases
<1>4. CASE UNCHANGED vars
  BY <1>4 DEF vars, Aside
<1> QED
  BY <1>1, <1>2, <1>3, <1>4 DEF Next, User, GetData, GetDocs, Flush, Flushers, Callers

LEMMA Ranges ==
  ASSUME NEW n \in 0..NDocs
  PROVE  /\ 1..n = 1..((n + 1) - 1) /\ 1..n \subseteq 1..(n + 1)
         /\ 1..(n - 1) \subseteq 1..n /\ n \notin 1..(n - 1)
         /\ n \in Docs => n \in 1..n
BY DocsAssumption DEF Docs

\* What was new becomes old, and nothing else changes.
LEMMA OldGrows ==
  ASSUME TypeInv, Phases, [Next]_vars PROVE Old \subseteq Old'
<1>1. next \in 0..NDocs
  BY DEF TypeInv, TypeOK
<1>2. CASE NextDoc
  BY <1>1, <1>2, Ranges DEF NextDoc, Old
<1>3. CASE NoMoreDocs
  BY <1>1, <1>3, Ranges DEF NoMoreDocs, Old
<1>4. CASE AddDoc
  BY <1>1, <1>4, Ranges DEF AddDoc, GetEntry, SetEntry, CountDoc, SampleDoc, Old
<1>5. CASE \E g \in Flushers : Queries(g) \/ Receive(g) \/ Reset(g)
  BY <1>5 DEF Queries, Receive, Reset, Goto, Old
<1>6. CASE Aside
  BY <1>6 DEF Aside, Old
<1> QED
  BY <1>2, <1>3, <1>4, <1>5, <1>6, Steps

LEMMA FreshStep ==
  ASSUME TypeInv, Phases, Fresh, [Next]_vars PROVE Fresh'
<1>1. ASSUME NEW g \in Flushers, Queries(g) PROVE Fresh'
  BY <1>1, OldGrows DEF Queries, Fresh, TypeInv, TypeOK
<1>2. ASSUME NEW g \in Flushers, Receive(g) PROVE Fresh'
  <2>1. \A h \in Flushers : snap'[h].counted \subseteq Old
    BY <1>2 DEF Receive, Fresh, TypeInv, TypeOK, Nothing
  <2>2. \A i \in DOMAIN received' : received'[i].what.counted \subseteq Old
    BY <1>2, Received DEF Fresh
  <2>3. counted' = counted
    BY <1>2 DEF Receive
  <2> QED
    BY <2>1, <2>2, <2>3, OldGrows DEF Fresh
<1>3. ASSUME NEW g \in Flushers, Reset(g) PROVE Fresh'
  BY <1>3, OldGrows DEF Reset, Fresh
<1>4. CASE NextDoc \/ NoMoreDocs \/ GetEntry \/ SetEntry \/ SampleDoc \/ Aside
  BY <1>4, OldGrows DEF NextDoc, NoMoreDocs, GetEntry, SetEntry, SampleDoc, Aside, Fresh
<1>5. CASE CountDoc
  <2>1. next \in Old'
    BY <1>5, Ranges DEF CountDoc, Old, TypeInv, TypeOK, InHand
  <2> QED
    BY <1>5, <2>1, OldGrows DEF CountDoc, Fresh
<1> QED
  BY <1>1, <1>2, <1>3, <1>4, <1>5, Steps DEF AddDoc

LEMMA ApartStep ==
  ASSUME TypeInv, Phases, Fresh, Apart, [Next]_vars PROVE Apart'
<1>1. ASSUME NEW g \in Flushers, Queries(g) PROVE Apart'
  BY <1>1 DEF Queries, Goto, Apart, TicksDisjoint, TypeInv, TypeOK, Flushers
<1>2. CASE Receive("data")
  <2>1. dataPc = "send" /\ dataPc' = "reset"
    BY <1>2 DEF Receive, Goto
  <2>2. \A i \in DOMAIN received' :
          \/ i = Len(received) + 1 /\ received'[i].what = snap["data"]
          \/ i \in DOMAIN received /\ received'[i] = received[i]
    BY <1>2, Received DEF Flushers
  <2>3. \A i \in DOMAIN received :
          received[i].by = "data" => received[i].what.counted \cap snap["data"].counted = {}
    BY <2>1 DEF Apart
  <2> QED
    BY <2>1, <2>2, <2>3 DEF Apart, TicksDisjoint
<1>3. CASE Receive("docs")
  BY <1>3, Received DEF Receive, Goto, Apart, TicksDisjoint, Flushers, TypeInv, TypeOK
<1>4. ASSUME NEW g \in Flushers, Reset(g) PROVE Apart'
  BY <1>4 DEF Reset, Goto, Apart, TicksDisjoint, Flushers
<1>5. CASE NextDoc \/ NoMoreDocs \/ GetEntry \/ SetEntry \/ SampleDoc \/ Aside
  BY <1>5 DEF NextDoc, NoMoreDocs, GetEntry, SetEntry, SampleDoc, Aside, Apart, TicksDisjoint
<1>6. CASE CountDoc
  <2>1. next \notin Old
    BY <1>6, Ranges DEF CountDoc, Old, TypeInv, TypeOK
  <2> QED
    BY <1>6, <2>1 DEF CountDoc, Fresh, Apart, TicksDisjoint
<1> QED
  BY <1>1, <1>2, <1>3, <1>4, <1>5, <1>6, Steps DEF AddDoc, Flushers

\* However ticks, documents and the user's receives interleave, no document is in
\* two of the snapshots the ticker's flushes send: the reset always comes between.
THEOREM TicksShareNothing == Spec => []TicksDisjoint
<1>1. Init => Phases /\ Fresh /\ Apart
  BY DEF Init, Phases, Fresh, Apart, TicksDisjoint, Callers, Nothing
<1>2. TypeInv /\ Phases /\ Fresh /\ Apart /\ [Next]_vars => (Phases /\ Fresh /\ Apart)'
  BY PhasesStep, FreshStep, ApartStep
<1>3. Apart => TicksDisjoint
  BY DEF Apart
<1> QED
  BY <1>1, <1>2, <1>3, TypeInvInit, TypeInvStep, PTL DEF Spec
-----------------------------------------------------------------------------
(* Until a tick, every document is in the one report.                       *)

\* Only a tick makes getData flush.
NoTick == ticks = 0 => dataPc \notin {"flush", "send", "reset"}

LEMMA NoTickStep ==
  ASSUME TypeInv, NoTick, [Next]_vars PROVE NoTick'
<1>1. CASE \E g \in Flushers : Queries(g) \/ Receive(g) \/ Reset(g)
  BY <1>1 DEF Queries, Receive, Reset, Goto, Flushers, NoTick
<1>2. CASE GetDocs /\ ~Flush("docs")
  BY <1>2 DEF GetDocs, NextDoc, NoMoreDocs, AddDoc, GetEntry, SetEntry, CountDoc,
     SampleDoc, DocsCallsStop, NoTick
<1>3. CASE Start \/ SpawnGetDocs \/ AddToWaitGroup \/ Park \/ Tick \/ CloseCursor
  BY <1>3 DEF Start, SpawnGetDocs, AddToWaitGroup, Park, Tick, CloseCursor, NoTick,
     TypeInv, TypeOK
<1>4. CASE \E c \in Callers : StopStep(c) \/ CallStop(c)
  BY <1>4 DEF StopStep, LockStop, Signal, WaitStop, CallStop, NoTick
<1>5. CASE UNCHANGED vars
  BY <1>5 DEF vars, NoTick
<1> QED
  BY <1>1, <1>2, <1>3, <1>4, <1>5 DEF Next, User, GetData, GetDocs, Flush, Flushers, Callers

LEMMA TicksRise ==
  ASSUME TypeInv, [Next]_vars, ticks' = 0 PROVE ticks = 0
<1>1. CASE \E g \in Flushers : Queries(g) \/ Receive(g) \/ Reset(g)
  BY <1>1 DEF Queries, Receive, Reset
<1>2. CASE GetDocs /\ ~Flush("docs")
  BY <1>2 DEF GetDocs, NextDoc, NoMoreDocs, AddDoc, GetEntry, SetEntry, CountDoc,
     SampleDoc, DocsCallsStop
<1>3. CASE Start \/ SpawnGetDocs \/ AddToWaitGroup \/ Park \/ CloseCursor
  BY <1>3 DEF Start, SpawnGetDocs, AddToWaitGroup, Park, CloseCursor
<1>4. CASE Tick
  BY <1>4 DEF Tick, TypeInv, TypeOK
<1>5. CASE \E c \in Callers : StopStep(c) \/ CallStop(c)
  BY <1>5 DEF StopStep, LockStop, Signal, WaitStop, CallStop
<1>6. CASE UNCHANGED vars
  BY <1>6 DEF vars
<1> QED
  BY <1>1, <1>2, <1>3, <1>4, <1>5, <1>6 DEF Next, User, GetData, GetDocs, Flush, Flushers,
     Callers

\* Until it is sent, the map counts the documents that were added, and the one
\* that is just being added.
Whole ==
  /\ added \subseteq IF InHand THEN 1..(next - 1) ELSE 1..next
  /\ docsPc \notin {"reset", "stop", "stopping", "ended"} =>
       /\ received = <<>> /\ held # "gone"
       /\ counted = IF docsPc = "sample" THEN added \cup {next} ELSE added
       /\ docsPc = "send" => snap["docs"].counted = added

LEMMA WholeStep ==
  ASSUME TypeInv, Phases, MapInv, NoTick, ticks = 0, Whole, [Next]_vars PROVE Whole'
<1>1. next \in 0..NDocs
  BY DEF TypeInv, TypeOK
<1>2. CASE NextDoc
  BY <1>1, <1>2, Ranges DEF NextDoc, Whole, InHand
<1>3. CASE NoMoreDocs
  BY <1>1, <1>3, Ranges DEF NoMoreDocs, Whole, InHand
<1>4. CASE GetEntry \/ SetEntry
  BY <1>4 DEF GetEntry, SetEntry, Whole, InHand
<1>5. CASE CountDoc
  BY <1>5 DEF CountDoc, MapInv, Whole, InHand
<1>6. CASE SampleDoc
  BY <1>1, <1>6, Ranges DEF SampleDoc, Whole, TypeInv, InHand
<1>7. CASE Queries("docs")
  BY <1>7 DEF Queries, Goto, Whole, InHand, TypeInv, TypeOK, Flushers
<1>8. CASE Receive("docs") \/ Reset("docs")
  BY <1>8 DEF Receive, Reset, Goto, Whole, InHand
<1>9. ~(Queries("data") \/ Receive("data") \/ Reset("data"))
  BY DEF Queries, Receive, Reset, Goto, NoTick
<1>10. CASE Aside
  BY <1>10 DEF Aside, Whole, InHand
<1> QED
  BY <1>2, <1>3, <1>4, <1>5, <1>6, <1>7, <1>8, <1>9, <1>10, Steps DEF AddDoc, Flushers

LEMMA NothingSent ==
  ASSUME received = <<>> PROVE Reports = <<>> /\ InReports = {}
BY DEF Reports, InReports

LEMMA Simulates ==
  ASSUME TypeInv, Phases, MapInv, NoTick, ticks = 0, Whole, [Next]_vars
  PROVE  [Counter!Next]_<<added \ InReports, Reports>>
<1>1. CASE UNCHANGED <<added, received>>
  BY <1>1 DEF Reports, InReports
<1>2. CASE SampleDoc
  <2>1. /\ received = <<>> /\ received' = received
        /\ added' = added \cup {next} /\ next \in Docs /\ next \notin added
    BY <1>2, Ranges DEF SampleDoc, Whole, TypeInv, TypeOK, InHand
  <2>2. Reports = <<>> /\ InReports = {} /\ Reports' = Reports /\ InReports' = InReports
    BY <2>1, NothingSent DEF Reports, InReports
  <2>3. Counter!Reported = {}
    BY <2>2 DEF Counter!Reported
  <2>4. Counter!Add(next)
    BY <2>1, <2>2, <2>3 DEF Counter!Add
  <2> QED
    BY <2>1, <2>4 DEF Counter!Next
<1>3. CASE Receive("docs")
  <2> DEFINE x == [by |-> "docs", what |-> snap["docs"]]
  <2>1. /\ received = <<>> /\ received' = <<x>> /\ added' = added
        /\ x.what.counted = added
    BY <1>3 DEF Receive, Goto, Whole
  <2> HIDE DEF x
  <2>2. Reports = <<>> /\ InReports = {}
    BY <2>1, NothingSent
  <2>3. DOMAIN received' = {1} /\ received'[1] = x
    BY <2>1
  <2>4. Reports' = <<added>>
    BY <2>1, <2>3 DEF Reports
  <2>5. InReports' = added
    BY <2>3, <2>4 DEF InReports
  <2>6. Counter!Report
    BY <2>1, <2>2, <2>4, <2>5 DEF Counter!Report
  <2> QED
    BY <2>6 DEF Counter!Next
<1>4. ~Receive("data")
  BY DEF Receive, Goto, NoTick
<1>5. UNCHANGED <<added, received>> \/ SampleDoc \/ \E g \in Flushers : Receive(g)
  BY Steps DEF Queries, Reset, NextDoc, NoMoreDocs, AddDoc, GetEntry, SetEntry, CountDoc,
     Aside
<1> QED
  BY <1>1, <1>2, <1>3, <1>4, <1>5 DEF Flushers

Digest == ticks = 0 => Whole

\* Until the ticker's first tick, so for ever with the nil ticker that
\* pt-mongodb-query-digest starts the profiler with, it implements DocumentCounter,
\* whoever stops it and when.
THEOREM DigestCountsOnce == Spec => Exact
<1>1. Init => Phases /\ MapInv /\ NoTick /\ Digest /\ Counter!Init
  <2> SUFFICES ASSUME Init PROVE Phases /\ MapInv /\ NoTick /\ Whole /\ Counter!Init
    BY DEF Digest
  <2>1. Phases /\ MapInv /\ NoTick /\ Whole
    BY DEF Init, Phases, MapInv, NoTick, Whole, InHand, Callers
  <2>2. Counter!Init
    BY NothingSent DEF Init, Counter!Init
  <2> QED
    BY <2>1, <2>2
<1>2. TypeInv /\ Phases /\ MapInv /\ NoTick /\ Digest /\ [Next]_vars
      => (Phases /\ MapInv /\ NoTick /\ Digest)'
  BY PhasesStep, MapStep, NoTickStep, WholeStep, TicksRise DEF Digest
<1>3. TypeInv /\ Phases /\ MapInv /\ NoTick /\ Digest /\ [Next]_vars
      => [ticks' = 0 => Counter!Next \/ UNCHANGED <<added \ InReports, Reports>>]_vars
  BY Simulates, TicksRise DEF Digest
<1> QED
  BY <1>1, <1>2, <1>3, TypeInvInit, TypeInvStep, PTL DEF Spec, Exact
=============================================================================
