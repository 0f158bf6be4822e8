--------------------- MODULE OnlineSchemaChangeProofs ---------------------
(***************************************************************************)
(* Theorems about OnlineSchemaChange, for every table, every number of     *)
(* runs, chunk sizes, tries and option combinations.                       *)
(***************************************************************************)
EXTENDS OnlineSchemaChange, TLAPS

USE DEF server, flags, nibble, run, Tool

-----------------------------------------------------------------------------
(* The tables that must be there.                                           *)

\* Where the tool relies on t and on its new table.
Working == {"alter_new_table", "create_triggers", "check_triggers", "get_bounds",
            "next_boundaries", "last_boundary", "exec_nibble", "insert", "history",
            "after_nibble", "done", "copied", "swap"}

NewTableThere == n \in NewNames /\ new[n] # NoTable

\* drop_swap left no table named t: only its second half, or what follows its
\* failure, is running.
Outage ==
  /\ NewTableThere
  /\ \A e \in Events : trig[e] = None
  /\ pc \in {"idle", "drop_swap", "clean_triggers", "clean_new", "report"}
  /\ pc \in {"clean_triggers", "clean_new"} => ~oktorun

Tables ==
  /\ pc # "idle" => job \in 1..MaxJobs
  /\ pc \in Working => NewTableThere
  /\ t = NoTable => Outage
  /\ pc = "drop_swap" => t = NoTable

TypeInv == TypeOK /\ Tables

LEMMA TypeInvInit == Init => TypeInv
<1> SUFFICES ASSUME Init PROVE TypeInv
  OBVIOUS
<1> USE DEF Init
<1>1. t \in Rows /\ chunk \in Rows
  BY DEF Rows, Empty
<1>2. new \in [NewNames -> Rows \cup {NoTable}] /\ trig \in [Events -> NewNames \cup {None}]
  OBVIOUS
<1>3. hist \in [1..MaxJobs -> [new : NewNames \cup {None}, ub : Keys \cup {None}, done : BOOLEAN]]
  BY DEF NoJob
<1>4. pc \in PCs /\ job \in 0..MaxJobs /\ fresh \in 1..(MaxJobs + 1) /\ tryno \in 1..(MaxTries + 1)
  BY JobsAssumption DEF PCs
<1>5. /\ altered \in BOOLEAN /\ old \in BOOLEAN /\ oktorun \in BOOLEAN
      /\ copied \in BOOLEAN /\ swapped \in BOOLEAN /\ notDropped \in BOOLEAN
      /\ bite \in BOOLEAN /\ noMore \in BOOLEAN
  OBVIOUS
<1>6. {from, lower, upper, nextLower} \subseteq Keys \cup {None}
  OBVIOUS
<1>7. TypeOK
  BY <1>1, <1>2, <1>3, <1>4, <1>5, <1>6 DEF TypeOK, ServerTypes, RunTypes, NibbleTypes, Histories
<1>8. Tables
  BY <1>1, ValuesAssumption DEF Tables, Working, Rows
<1> QED
  BY <1>7, <1>8 DEF TypeInv

\* A row of a table is set: the result is a table of the same keys.
LEMMA SetRow ==
  ASSUME NEW r \in Rows, NEW k \in Keys, NEW x \in Vals \cup {Absent}
  PROVE  /\ [r EXCEPT ![k] = x] \in Rows
         /\ [r EXCEPT ![k] = x] # NoTable
         /\ r # NoTable
BY ValuesAssumption DEF Rows

LEMMA MoveRow ==
  ASSUME NEW r \in Rows, NEW k \in Keys, NEW l \in Keys, NEW v \in Vals
  PROVE  Moved(r, k, l, v) \in Rows /\ Moved(r, k, l, v) # NoTable
BY ValuesAssumption DEF Rows, Moved

\* One shadow table is written to: the same shadow tables exist.
LEMMA OneWritten ==
  ASSUME new \in [NewNames -> Rows \cup {NoTable}],
         NEW m \in NewNames, NEW r \in Rows, r # NoTable, new[m] # NoTable,
         new' = [new EXCEPT ![m] = r]
  PROVE  /\ new' \in [NewNames -> Rows \cup {NoTable}]
         /\ \A i \in NewNames : new'[i] = NoTable <=> new[i] = NoTable
OBVIOUS

\* The application writes rows, it creates and drops no table.
LEMMA AppWriteTables ==
  ASSUME TypeOK, AppWrite
  PROVE  /\ t' \in Rows /\ t' # NoTable
         /\ new' \in [NewNames -> Rows \cup {NoTable}]
         /\ \A m \in NewNames : new'[m] = NoTable <=> new[m] = NoTable
<1>1. /\ t \in Rows
      /\ new \in [NewNames -> Rows \cup {NoTable}]
      /\ \A e \in Events : Fires(e) => trig[e] \in NewNames /\ new[trig[e]] \in Rows
  BY DEF TypeOK, ServerTypes, AppWrite, Fires
<1>2. "ins" \in Events /\ "upd" \in Events /\ "del" \in Events
  BY DEF Events
<1>3. ASSUME NEW k \in Keys, NEW v \in Vals, AppInsert(k, v)
      PROVE  /\ t' \in Rows /\ t' # NoTable
             /\ new' \in [NewNames -> Rows \cup {NoTable}]
             /\ \A m \in NewNames : new'[m] = NoTable <=> new[m] = NoTable
  <2>1. t' \in Rows /\ t' # NoTable
    BY <1>1, <1>3, SetRow DEF AppInsert
  <2>2. CASE Fires("ins")
    <3>1. new' = [new EXCEPT ![trig["ins"]] = [new[trig["ins"]] EXCEPT ![k] = v]]
      BY <1>1, <1>2, <1>3, <2>2 DEF AppInsert
    <3>2. [new[trig["ins"]] EXCEPT ![k] = v] \in Rows /\ [new[trig["ins"]] EXCEPT ![k] = v] # NoTable
      BY <1>1, <1>2, <2>2, SetRow
    <3> QED
      BY <1>1, <1>2, <2>1, <2>2, <3>1, <3>2, OneWritten DEF Fires
  <2> QED
    BY <1>1, <1>3, <2>1, <2>2 DEF AppInsert
<1>4. ASSUME NEW k \in Keys, NEW l \in Keys, NEW v \in Vals, AppUpdate(k, l, v)
      PROVE  /\ t' \in Rows /\ t' # NoTable
             /\ new' \in [NewNames -> Rows \cup {NoTable}]
             /\ \A m \in NewNames : new'[m] = NoTable <=> new[m] = NoTable
  <2>1. t' \in Rows /\ t' # NoTable
    BY <1>1, <1>4, MoveRow DEF AppUpdate
  <2>2. CASE Fires("upd")
    <3>1. new' = [new EXCEPT ![trig["upd"]] = Moved(new[trig["upd"]], k, l, v)]
      BY <1>1, <1>2, <1>4, <2>2 DEF AppUpdate
    <3>2. /\ Moved(new[trig["upd"]], k, l, v) \in Rows
          /\ Moved(new[trig["upd"]], k, l, v) # NoTable
      BY <1>1, <1>2, <2>2, MoveRow
    <3> QED
      BY <1>1, <1>2, <2>1, <2>2, <3>1, <3>2, OneWritten DEF Fires
  <2> QED
    BY <1>1, <1>4, <2>1, <2>2 DEF AppUpdate
<1>5. ASSUME NEW k \in Keys, AppDelete(k)
      PROVE  /\ t' \in Rows /\ t' # NoTable
             /\ new' \in [NewNames -> Rows \cup {NoTable}]
             /\ \A m \in NewNames : new'[m] = NoTable <=> new[m] = NoTable
  <2>1. t' \in Rows /\ t' # NoTable
    BY <1>1, <1>5, SetRow DEF AppDelete
  <2>2. CASE Fires("del")
    <3>1. new' = [new EXCEPT ![trig["del"]] = [new[trig["del"]] EXCEPT ![k] = Absent]]
      BY <1>1, <1>2, <1>5, <2>2 DEF AppDelete
    <3>2. /\ [new[trig["del"]] EXCEPT ![k] = Absent] \in Rows
          /\ [new[trig["del"]] EXCEPT ![k] = Absent] # NoTable
      BY <1>1, <1>2, <2>2, SetRow
    <3> QED
      BY <1>1, <1>2, <2>1, <2>2, <3>1, <3>2, OneWritten DEF Fires
  <2> QED
    BY <1>1, <1>5, <2>1, <2>2 DEF AppDelete
<1> QED
  BY <1>3, <1>4, <1>5 DEF AppWrite

LEMMA EmptyTable == Empty \in Rows /\ Empty # NoTable
BY ValuesAssumption DEF Empty, Rows

LEMMA AppWriteTypeInv == TypeInv /\ AppWrite => TypeInv'
BY AppWriteTables DEF TypeInv, TypeOK, ServerTypes, RunTypes, NibbleTypes, Tables, Outage, NewTableThere, AppWrite

LEMMA FirstTry == 1 \in 1..(MaxTries + 1)
BY JobsAssumption

LEMMA NextJob == ASSUME job \in 0..MaxJobs, job < MaxJobs
                 PROVE  job + 1 \in 1..MaxJobs /\ job + 1 \in 0..MaxJobs
                        /\ job + 1 \in 1..(MaxJobs + 1)
BY JobsAssumption

LEMMA NoJobType == NoJob \in [new : NewNames \cup {None}, ub : Keys \cup {None},
     done : BOOLEAN]
BY DEF NoJob

LEMMA OperatorTypeInv == TypeInv /\ Operator => TypeInv'
<1> SUFFICES ASSUME TypeInv, Operator PROVE TypeInv'
  OBVIOUS
<1>1. CASE StartJob
  <2>0. PICK o \in Options : Launch(o, "create")
    BY <1>1 DEF StartJob
  <2>1. ServerTypes'
    BY <1>1, <2>0, NoJobType, NextJob DEF StartJob, Launch, Histories, TypeInv, TypeOK,
         ServerTypes
  <2>2. RunTypes'
    BY <1>1, <2>0, NextJob DEF StartJob, Launch, TypeInv, TypeOK, RunTypes, PCs
  <2>3. NibbleTypes'
    BY <1>1, <2>0, EmptyTable, FirstTry DEF StartJob, Launch, TypeInv, TypeOK,
         NibbleTypes
  <2>4. Tables'
    BY <1>1, <2>0, NextJob DEF StartJob, Launch, TypeInv, TypeOK, ServerTypes,
         RunTypes, Tables, Outage, NewTableThere, Working
  <2> QED
    BY <2>1, <2>2, <2>3, <2>4 DEF TypeInv, TypeOK
<1>2. ASSUME NEW j \in 1..job, ResumeJob(j) PROVE TypeInv'
  <2>0. PICK o \in Options : Launch(o, "check_triggers")
    BY <1>2 DEF ResumeJob
  <2>a. hist[j].new \in NewNames /\ hist[j].ub \in Keys
    BY <1>2, JobsAssumption DEF ResumeJob, TypeInv, TypeOK, ServerTypes, RunTypes,
         Histories
  <2>b. [NoJob EXCEPT !.new = hist[j].new] \in [new : NewNames \cup {None},
       ub : Keys \cup {None}, done : BOOLEAN]
    BY <2>a DEF NoJob
  <2>1. ServerTypes'
    BY <1>2, <2>0, <2>a, <2>b, NextJob, NoJobType DEF ResumeJob, Launch, Histories,
         TypeInv, TypeOK, ServerTypes
  <2>2. RunTypes'
    BY <1>2, <2>0, <2>a, NextJob DEF ResumeJob, Launch, TypeInv, TypeOK, RunTypes, PCs
  <2>3. NibbleTypes'
    BY <1>2, <2>0, <2>a, EmptyTable, FirstTry DEF ResumeJob, Launch, TypeInv, TypeOK,
         NibbleTypes
  <2>4. Tables'
    BY <1>2, <2>0, <2>a, NextJob DEF ResumeJob, Launch, TypeInv, TypeOK, ServerTypes,
         RunTypes, Tables, Outage, NewTableThere, Working
  <2> QED
    BY <2>1, <2>2, <2>3, <2>4 DEF TypeInv, TypeOK
<1>3. ASSUME NEW e \in Events, DropTriggerByHand(e) PROVE TypeInv'
  BY <1>3 DEF DropTriggerByHand, TypeInv, TypeOK, ServerTypes, RunTypes, NibbleTypes,
       Tables, Outage, NewTableThere, Working, PCs
<1>4. ASSUME NEW m \in NewNames, DropNewByHand(m) PROVE TypeInv'
  BY <1>4 DEF DropNewByHand, TypeInv, TypeOK, ServerTypes, RunTypes, NibbleTypes,
       Tables, Outage, NewTableThere, Working, PCs
<1> QED
  BY <1>1, <1>2, <1>3, <1>4 DEF Operator

LEMMA PrepareTypeInv == TypeInv /\ Prepare => TypeInv'
<1> SUFFICES ASSUME TypeInv, Prepare PROVE TypeInv'
  OBVIOUS
<1>1. CASE CreateNewTable
  <2>1. ServerTypes'
    BY <1>1, EmptyTable DEF CreateNewTable, FirstOf, RunTypes, Tables, Histories,
         TypeInv, TypeOK, ServerTypes
  <2>2. RunTypes'
    BY <1>1 DEF CreateNewTable, FirstOf, TypeInv, TypeOK, RunTypes, PCs
  <2>3. NibbleTypes'
    BY <1>1 DEF CreateNewTable, TypeInv, TypeOK, NibbleTypes
  <2>4. Tables'
    BY <1>1, EmptyTable DEF CreateNewTable, FirstOf, TypeInv, TypeOK, ServerTypes,
         RunTypes, Tables, Outage, NewTableThere, Working
  <2> QED
    BY <2>1, <2>2, <2>3, <2>4 DEF TypeInv, TypeOK
<1>2. CASE NoNameLeft
  BY <1>2 DEF NoNameLeft, TypeInv, TypeOK, ServerTypes, RunTypes, NibbleTypes, Tables,
       Outage, NewTableThere, Working, PCs
<1>3. CASE AlterNewTable
  BY <1>3 DEF AlterNewTable, TypeInv, TypeOK, ServerTypes, RunTypes, NibbleTypes,
       Tables, Outage, NewTableThere, Working, PCs
<1>4. CASE CreateTrigger
  BY <1>4 DEF CreateTrigger, NextTrigger, Events, TypeInv, TypeOK, ServerTypes,
       RunTypes, NibbleTypes, Tables, Outage, NewTableThere, Working, PCs
<1>5. CASE CreateTriggerFails
  <2>1. ServerTypes'
    BY <1>5 DEF CreateTriggerFails, Die, TypeInv, TypeOK, ServerTypes
  <2>2. RunTypes'
    BY <1>5 DEF CreateTriggerFails, Die, TypeInv, TypeOK, RunTypes, PCs
  <2>3. NibbleTypes'
    BY <1>5 DEF CreateTriggerFails, Die, TypeInv, TypeOK, NibbleTypes
  <2>4. Tables'
    BY <1>5 DEF CreateTriggerFails, Die, TypeInv, TypeOK, ServerTypes, RunTypes,
         Tables, Outage, NewTableThere, Working
  <2> QED
    BY <2>1, <2>2, <2>3, <2>4 DEF TypeInv, TypeOK
<1>6. CASE TriggersCreated
  BY <1>6 DEF TriggersCreated, TypeInv, TypeOK, ServerTypes, RunTypes, NibbleTypes,
       Tables, Outage, NewTableThere, Working, PCs
<1>7. CASE CheckTriggers
  <2>1. ServerTypes'
    BY <1>7 DEF CheckTriggers, TypeInv, TypeOK, ServerTypes
  <2>2. RunTypes'
    BY <1>7 DEF CheckTriggers, Die, TypeInv, TypeOK, RunTypes, PCs
  <2>3. NibbleTypes'
    BY <1>7 DEF CheckTriggers, TypeInv, TypeOK, NibbleTypes
  <2>4. Tables'
    BY <1>7 DEF CheckTriggers, Die, TypeInv, TypeOK, ServerTypes, RunTypes, Tables,
         Outage, NewTableThere, Working
  <2> QED
    BY <2>1, <2>2, <2>3, <2>4 DEF TypeInv, TypeOK
<1> QED
  BY <1>1, <1>2, <1>3, <1>4, <1>5, <1>6, <1>7 DEF Prepare

LEMMA CopyTypeInv == TypeInv /\ Copy => TypeInv'
<1> SUFFICES ASSUME TypeInv, Copy PROVE TypeInv'
  OBVIOUS
<1>1. CASE GetBoundsOneNibble
  BY <1>1 DEF GetBoundsOneNibble, TypeInv, TypeOK, ServerTypes, RunTypes, NibbleTypes,
       Tables, Outage, NewTableThere, Working, PCs
<1>2. CASE GetBounds
  <2>1. ServerTypes'
    BY <1>2 DEF GetBounds, TypeInv, TypeOK, ServerTypes
  <2>2. RunTypes'
    BY <1>2 DEF GetBounds, TypeInv, TypeOK, RunTypes, PCs
  <2>3. NibbleTypes'
    BY <1>2 DEF GetBounds, FirstOf, AllRows, RowsAfter, TypeInv, TypeOK, NibbleTypes
  <2>4. Tables'
    BY <1>2 DEF GetBounds, TypeInv, TypeOK, ServerTypes, RunTypes, Tables, Outage,
         NewTableThere, Working
  <2> QED
    BY <2>1, <2>2, <2>3, <2>4 DEF TypeInv, TypeOK
<1>3. CASE NoMoreBoundaries
  BY <1>3 DEF NoMoreBoundaries, TypeInv, TypeOK, ServerTypes, RunTypes, NibbleTypes,
       Tables, Outage, NewTableThere, Working, PCs
<1>4. CASE OneNibble
  BY <1>4 DEF OneNibble, TypeInv, TypeOK, ServerTypes, RunTypes, NibbleTypes, Tables,
       Outage, NewTableThere, Working, PCs
<1>5. CASE StopNibbling
  BY <1>5 DEF StopNibbling, TypeInv, TypeOK, ServerTypes, RunTypes, NibbleTypes,
       Tables, Outage, NewTableThere, Working, PCs
<1>6. ASSUME NEW size \in 1..MaxChunk, NextBoundaries(size) PROVE TypeInv'
  <2>1. ServerTypes'
    BY <1>6 DEF NextBoundaries, TypeInv, TypeOK, ServerTypes
  <2>2. RunTypes'
    BY <1>6 DEF NextBoundaries, TypeInv, TypeOK, RunTypes, PCs
  <2>3. NibbleTypes'
    BY <1>6 DEF NextBoundaries, FirstOf, RowsFrom, RowsAfter, TypeInv, TypeOK, NibbleTypes
  <2>4. Tables'
    BY <1>6 DEF NextBoundaries, TypeInv, TypeOK, ServerTypes, RunTypes, Tables, Outage,
         NewTableThere, Working
  <2> QED
    BY <2>1, <2>2, <2>3, <2>4 DEF TypeInv, TypeOK
<1>7. CASE ExecNibble
  <2>1. ServerTypes'
    BY <1>7 DEF ExecNibble, TypeInv, TypeOK, ServerTypes
  <2>2. RunTypes'
    BY <1>7 DEF ExecNibble, TypeInv, TypeOK, RunTypes, PCs
  <2>3. NibbleTypes'
    BY <1>7 DEF ExecNibble, ServerTypes, Tables, Outage, Rows, TypeInv, TypeOK,
         NibbleTypes
  <2>4. Tables'
    BY <1>7 DEF ExecNibble, TypeInv, TypeOK, ServerTypes, RunTypes, Tables, Outage,
         NewTableThere, Working
  <2> QED
    BY <2>1, <2>2, <2>3, <2>4 DEF TypeInv, TypeOK
<1>8. CASE NoUpperBoundary
  BY <1>8 DEF NoUpperBoundary, Die, TypeInv, TypeOK, ServerTypes, RunTypes,
       NibbleTypes, Tables, Outage, NewTableThere, Working, PCs
<1>9. CASE InsertChunk
  <2>1. ServerTypes'
    BY <1>9, EmptyTable DEF InsertChunk, NibbleTypes, Tables, NewTableThere, Working,
         Rows, TypeInv, TypeOK, ServerTypes
  <2>2. RunTypes'
    BY <1>9 DEF InsertChunk, TypeInv, TypeOK, RunTypes, PCs
  <2>3. NibbleTypes'
    BY <1>9, EmptyTable DEF InsertChunk, TypeInv, TypeOK, NibbleTypes
  <2>4. Tables'
    BY <1>9, ValuesAssumption DEF InsertChunk, NibbleTypes, Rows, TypeInv, TypeOK,
         ServerTypes, RunTypes, Tables, Outage, NewTableThere, Working
  <2> QED
    BY <2>1, <2>2, <2>3, <2>4 DEF TypeInv, TypeOK
<1>10. CASE RetryNibble
  <2>1. ServerTypes'
    BY <1>10 DEF RetryNibble, TypeInv, TypeOK, ServerTypes
  <2>2. RunTypes'
    BY <1>10 DEF RetryNibble, TypeInv, TypeOK, RunTypes, PCs
  <2>3. NibbleTypes'
    BY <1>10, EmptyTable, JobsAssumption DEF RetryNibble, TypeInv, TypeOK, NibbleTypes
  <2>4. Tables'
    BY <1>10 DEF RetryNibble, TypeInv, TypeOK, ServerTypes, RunTypes, Tables, Outage,
         NewTableThere, Working
  <2> QED
    BY <2>1, <2>2, <2>3, <2>4 DEF TypeInv, TypeOK
<1>11. CASE NibbleFails
  <2>1. ServerTypes'
    BY <1>11 DEF NibbleFails, Die, TypeInv, TypeOK, ServerTypes
  <2>2. RunTypes'
    BY <1>11 DEF NibbleFails, Die, TypeInv, TypeOK, RunTypes, PCs
  <2>3. NibbleTypes'
    BY <1>11, EmptyTable DEF NibbleFails, Die, TypeInv, TypeOK, NibbleTypes
  <2>4. Tables'
    BY <1>11 DEF NibbleFails, Die, TypeInv, TypeOK, ServerTypes, RunTypes, Tables,
         Outage, NewTableThere, Working
  <2> QED
    BY <2>1, <2>2, <2>3, <2>4 DEF TypeInv, TypeOK
<1>12. CASE RecordChunk
  <2>1. ServerTypes'
    BY <1>12 DEF RecordChunk, RunTypes, NibbleTypes, Tables, Histories, TypeInv,
         TypeOK, ServerTypes
  <2>2. RunTypes'
    BY <1>12 DEF RecordChunk, TypeInv, TypeOK, RunTypes, PCs
  <2>3. NibbleTypes'
    BY <1>12, FirstTry DEF RecordChunk, TypeInv, TypeOK, NibbleTypes
  <2>4. Tables'
    BY <1>12 DEF RecordChunk, TypeInv, TypeOK, ServerTypes, RunTypes, Tables, Outage,
         NewTableThere, Working
  <2> QED
    BY <2>1, <2>2, <2>3, <2>4 DEF TypeInv, TypeOK
<1>13. CASE AfterNibble
  <2>1. ServerTypes'
    BY <1>13 DEF AfterNibble, TypeInv, TypeOK, ServerTypes
  <2>2. RunTypes'
    BY <1>13 DEF AfterNibble, TypeInv, TypeOK, RunTypes, PCs
  <2>3. NibbleTypes'
    BY <1>13 DEF AfterNibble, TypeInv, TypeOK, NibbleTypes
  <2>4. Tables'
    BY <1>13 DEF AfterNibble, TypeInv, TypeOK, ServerTypes, RunTypes, Tables, Outage,
         NewTableThere, Working
  <2> QED
    BY <2>1, <2>2, <2>3, <2>4 DEF TypeInv, TypeOK
<1>14. CASE CriticalLoad
  BY <1>14 DEF CriticalLoad, Die, TypeInv, TypeOK, ServerTypes, RunTypes, NibbleTypes,
       Tables, Outage, NewTableThere, Working, PCs
<1>15. CASE CopyDone
  <2>1. ServerTypes'
    BY <1>15 DEF CopyDone, RunTypes, Tables, Histories, TypeInv, TypeOK, ServerTypes
  <2>2. RunTypes'
    BY <1>15 DEF CopyDone, TypeInv, TypeOK, RunTypes, PCs
  <2>3. NibbleTypes'
    BY <1>15 DEF CopyDone, TypeInv, TypeOK, NibbleTypes
  <2>4. Tables'
    BY <1>15 DEF CopyDone, TypeInv, TypeOK, ServerTypes, RunTypes, Tables, Outage,
         NewTableThere, Working
  <2> QED
    BY <2>1, <2>2, <2>3, <2>4 DEF TypeInv, TypeOK
<1>16. CASE LastBoundary
  <2>1. ServerTypes'
    BY <1>16 DEF LastBoundary, TypeInv, TypeOK, ServerTypes
  <2>2. RunTypes'
    BY <1>16 DEF LastBoundary, TypeInv, TypeOK, RunTypes, PCs
  <2>3. NibbleTypes'
    BY <1>16 DEF LastBoundary, LastOf, AllRows, TypeInv, TypeOK, NibbleTypes
  <2>4. Tables'
    BY <1>16 DEF LastBoundary, TypeInv, TypeOK, ServerTypes, RunTypes, Tables, Outage,
         NewTableThere, Working
  <2> QED
    BY <2>1, <2>2, <2>3, <2>4 DEF TypeInv, TypeOK
<1> QED
  BY <1>1, <1>2, <1>3, <1>4, <1>5, <1>6, <1>7, <1>8, <1>9, <1>10, <1>11, <1>12, <1>13,
       <1>14, <1>15, <1>16 DEF Copy

LEMMA PutInPlaceTypeInv == TypeInv /\ PutInPlace => TypeInv'
<1> SUFFICES ASSUME TypeInv, PutInPlace PROVE TypeInv'
  OBVIOUS
<1>1. CASE Copied
  BY <1>1 DEF Copied, TypeInv, TypeOK, ServerTypes, RunTypes, NibbleTypes, Tables,
       Outage, NewTableThere, Working, PCs
<1>2. CASE SwapTables
  BY <1>2 DEF SwapTables, Rename, TypeInv, TypeOK, ServerTypes, RunTypes, NibbleTypes,
       Tables, Outage, NewTableThere, Working, PCs
<1>3. CASE SwapUnacknowledged
  BY <1>3 DEF SwapUnacknowledged, Rename, Die, TypeInv, TypeOK, ServerTypes, RunTypes,
       NibbleTypes, Tables, Outage, NewTableThere, Working, PCs
<1>4. CASE SwapFails
  BY <1>4 DEF SwapFails, Die, TypeInv, TypeOK, ServerTypes, RunTypes, NibbleTypes,
       Tables, Outage, NewTableThere, Working, PCs
<1>5. CASE NoSwap
  BY <1>5 DEF NoSwap, TypeInv, TypeOK, ServerTypes, RunTypes, NibbleTypes, Tables,
       Outage, NewTableThere, Working, PCs
<1>6. CASE DropOrig
  BY <1>6 DEF DropOrig, TypeInv, TypeOK, ServerTypes, RunTypes, NibbleTypes, Tables,
       Outage, NewTableThere, Working, PCs
<1>7. CASE RenameNew
  <2>1. ServerTypes'
    BY <1>7 DEF RenameNew, Tables, Outage, NewTableThere, TypeInv, TypeOK, ServerTypes
  <2>2. RunTypes'
    BY <1>7 DEF RenameNew, TypeInv, TypeOK, RunTypes, PCs
  <2>3. NibbleTypes'
    BY <1>7 DEF RenameNew, TypeInv, TypeOK, NibbleTypes
  <2>4. Tables'
    BY <1>7 DEF RenameNew, TypeInv, TypeOK, ServerTypes, RunTypes, Tables, Outage,
         NewTableThere, Working
  <2> QED
    BY <2>1, <2>2, <2>3, <2>4 DEF TypeInv, TypeOK
<1>8. CASE RenameNewUnacknowledged
  <2>1. ServerTypes'
    BY <1>8 DEF RenameNewUnacknowledged, Tables, Outage, NewTableThere, Die, TypeInv,
         TypeOK, ServerTypes
  <2>2. RunTypes'
    BY <1>8 DEF RenameNewUnacknowledged, Die, TypeInv, TypeOK, RunTypes, PCs
  <2>3. NibbleTypes'
    BY <1>8 DEF RenameNewUnacknowledged, Die, TypeInv, TypeOK, NibbleTypes
  <2>4. Tables'
    BY <1>8 DEF RenameNewUnacknowledged, Die, TypeInv, TypeOK, ServerTypes, RunTypes,
         Tables, Outage, NewTableThere, Working
  <2> QED
    BY <2>1, <2>2, <2>3, <2>4 DEF TypeInv, TypeOK
<1>9. CASE DropSwapFails
  <2>1. ServerTypes'
    BY <1>9 DEF DropSwapFails, Die, TypeInv, TypeOK, ServerTypes
  <2>2. RunTypes'
    BY <1>9 DEF DropSwapFails, Die, TypeInv, TypeOK, RunTypes, PCs
  <2>3. NibbleTypes'
    BY <1>9 DEF DropSwapFails, Die, TypeInv, TypeOK, NibbleTypes
  <2>4. Tables'
    BY <1>9 DEF DropSwapFails, Die, TypeInv, TypeOK, ServerTypes, RunTypes, Tables,
         Outage, NewTableThere, Working
  <2> QED
    BY <2>1, <2>2, <2>3, <2>4 DEF TypeInv, TypeOK
<1>10. CASE DropOldTable
  BY <1>10 DEF DropOldTable, Die, TypeInv, TypeOK, ServerTypes, RunTypes, NibbleTypes,
       Tables, Outage, NewTableThere, Working, PCs
<1>11. CASE DropOldFails
  BY <1>11 DEF DropOldFails, Die, TypeInv, TypeOK, ServerTypes, RunTypes, NibbleTypes,
       Tables, Outage, NewTableThere, Working, PCs
<1>12. CASE MarkSwapped
  BY <1>12 DEF MarkSwapped, TypeInv, TypeOK, ServerTypes, RunTypes, NibbleTypes, Tables,
       Outage, NewTableThere, Working, PCs
<1> QED
  BY <1>1, <1>2, <1>3, <1>4, <1>5, <1>6, <1>7, <1>8, <1>9, <1>10, <1>11, <1>12 DEF PutInPlace

LEMMA CleanUpTypeInv == TypeInv /\ CleanUp => TypeInv'
<1> SUFFICES ASSUME TypeInv, CleanUp PROVE TypeInv'
  OBVIOUS
<1>1. CASE DropTrigger
  BY <1>1 DEF DropTrigger, FirstCreated, Events, TypeInv, TypeOK, ServerTypes,
       RunTypes, NibbleTypes, Tables, Outage, NewTableThere, Working, PCs
<1>2. CASE DropTriggerFails
  BY <1>2 DEF DropTriggerFails, TypeInv, TypeOK, ServerTypes, RunTypes, NibbleTypes,
       Tables, Outage, NewTableThere, Working, PCs
<1>3. CASE TriggersCleaned
  BY <1>3 DEF TriggersCleaned, TypeInv, TypeOK, ServerTypes, RunTypes, NibbleTypes,
       Tables, Outage, NewTableThere, Working, PCs
<1>4. CASE CleanNewTable
  BY <1>4 DEF CleanNewTable, KeepNewTable, TypeInv, TypeOK, ServerTypes, RunTypes,
       NibbleTypes, Tables, Outage, NewTableThere, Working, PCs
<1>5. CASE Report
  <2>1. ServerTypes'
    BY <1>5 DEF Report, Quit, TypeInv, TypeOK, ServerTypes
  <2>2. RunTypes'
    BY <1>5 DEF Report, Quit, TypeInv, TypeOK, RunTypes, PCs
  <2>3. NibbleTypes'
    BY <1>5, EmptyTable, FirstTry DEF Report, Quit, TypeInv, TypeOK, NibbleTypes
  <2>4. Tables'
    BY <1>5 DEF Report, Quit, TypeInv, TypeOK, ServerTypes, RunTypes, Tables, Outage,
         NewTableThere, Working
  <2> QED
    BY <2>1, <2>2, <2>3, <2>4 DEF TypeInv, TypeOK
<1> QED
  BY <1>1, <1>2, <1>3, <1>4, <1>5 DEF CleanUp

LEMMA StopTypeInv == TypeInv /\ (SigInt \/ Crash) => TypeInv'
<1> SUFFICES ASSUME TypeInv, SigInt \/ Crash PROVE TypeInv'
  OBVIOUS
<1>1. CASE SigInt
  <2>1. ServerTypes'
    BY <1>1 DEF SigInt, Die, TypeInv, TypeOK, ServerTypes
  <2>2. RunTypes'
    BY <1>1 DEF SigInt, Die, TypeInv, TypeOK, RunTypes, PCs
  <2>3. NibbleTypes'
    BY <1>1 DEF SigInt, Die, TypeInv, TypeOK, NibbleTypes
  <2>4. Tables'
    BY <1>1 DEF SigInt, Die, Interruptible, TypeInv, TypeOK, ServerTypes, RunTypes,
         Tables, Outage, NewTableThere, Working
  <2> QED
    BY <2>1, <2>2, <2>3, <2>4 DEF TypeInv, TypeOK
<1>2. CASE Crash
  <2>1. ServerTypes'
    BY <1>2 DEF Crash, Quit, TypeInv, TypeOK, ServerTypes
  <2>2. RunTypes'
    BY <1>2 DEF Crash, Quit, TypeInv, TypeOK, RunTypes, PCs
  <2>3. NibbleTypes'
    BY <1>2, EmptyTable, FirstTry DEF Crash, Quit, TypeInv, TypeOK, NibbleTypes
  <2>4. Tables'
    BY <1>2 DEF Crash, Quit, TypeInv, TypeOK, ServerTypes, RunTypes, Tables, Outage,
         NewTableThere, Working
  <2> QED
    BY <2>1, <2>2, <2>3, <2>4 DEF TypeInv, TypeOK
<1> QED
  BY <1>1, <1>2

LEMMA TypeInvStep == TypeInv /\ [Next]_vars => TypeInv'
<1> SUFFICES ASSUME TypeInv, [Next]_vars PROVE TypeInv'
  OBVIOUS
<1>1. CASE UNCHANGED vars
  BY <1>1 DEF vars, TypeInv, TypeOK, ServerTypes, RunTypes, NibbleTypes, Tables, Outage, NewTableThere
<1> QED
  BY <1>1, AppWriteTypeInv, OperatorTypeInv, PrepareTypeInv, CopyTypeInv,
     PutInPlaceTypeInv, CleanUpTypeInv, StopTypeInv DEF Next, ToolStep

\* Every variable has its type in every reachable state, whatever the options,
\* the number of runs and the operator's choices.
THEOREM TypeCorrect == Spec => []TypeOK
<1>1. TypeInv => TypeOK
  BY DEF TypeInv
<1> QED
  BY <1>1, TypeInvInit, TypeInvStep, PTL DEF Spec

\* The rows are never lost: whenever no table named t exists, the new table does.
THEOREM RowsSomewhere == Spec => []NeverNoCopy
<1>1. TypeInv => NeverNoCopy
  BY NamesAssumption, ValuesAssumption
     DEF TypeInv, Tables, Outage, NewTableThere, NeverNoCopy
<1> QED
  BY <1>1, TypeInvInit, TypeInvStep, PTL DEF Spec

-----------------------------------------------------------------------------
(* Triggers and their table.                                                *)

\* What cleanup relies on: a trigger on the new table is one this run knows of,
\* and one that is still there once they are dropped could not or may not be.
Known ==
  /\ pc \in {"create", "alter_new_table"} => \A e \in Events : trig[e] = None
  /\ pc \notin {"idle", "check_triggers", "clean_triggers", "clean_new", "report"} =>
       \A e \in Events : trig[e] # None => e \in created
  /\ pc = "clean_triggers" =>
       \A e \in Events : trig[e] # None => e \in created \/ ~oktorun \/ notDropped
  /\ pc = "clean_new" =>
       \A e \in Events : trig[e] # None => ~oktorun \/ notDropped \/ ~opt.dropTriggers

\* The options of a run are among Options, and no set of options drops the new
\* table but keeps the triggers on it.
SafeOptions == \A o \in Options : o.dropNew => o.dropTriggers

TriggerInv == NoDanglingTrigger /\ Known /\ opt \in Options

LEMMA SameTables ==
  ASSUME TypeInv, NoDanglingTrigger, trig' = trig,
         \A m \in NewNames : new'[m] = NoTable => new[m] = NoTable
  PROVE  NoDanglingTrigger'
BY ValuesAssumption, NamesAssumption DEF TypeInv, TypeOK, ServerTypes, NoDanglingTrigger

LEMMA OperatorTriggers == TypeInv /\ TriggerInv /\ Operator => TriggerInv'
<1> SUFFICES ASSUME TypeInv, TriggerInv, Operator PROVE TriggerInv'
  OBVIOUS
<1>1. CASE StartJob \/ \E j \in 1..job : ResumeJob(j)
  BY <1>1 DEF StartJob, ResumeJob, Launch, TriggerInv, NoDanglingTrigger, Known
<1>2. CASE \E e \in Events : DropTriggerByHand(e)
  BY <1>2 DEF DropTriggerByHand, TriggerInv, NoDanglingTrigger, Known, TypeInv, TypeOK, ServerTypes
<1>3. CASE \E m \in NewNames : DropNewByHand(m)
  BY <1>3 DEF DropNewByHand, TriggerInv, NoDanglingTrigger, Known, TypeInv, TypeOK, ServerTypes
<1> QED
  BY <1>1, <1>2, <1>3 DEF Operator

LEMMA PrepareTriggers == TypeInv /\ TriggerInv /\ Prepare => TriggerInv'
<1> SUFFICES ASSUME TypeInv, TriggerInv, Prepare PROVE TriggerInv'
  OBVIOUS
<1>1. CASE CreateNewTable
  <2>1. NoDanglingTrigger' /\ \A e \in Events : trig[e] = None
    BY <1>1 DEF CreateNewTable, TriggerInv, Known, NoDanglingTrigger
  <2> QED
    BY <1>1, <2>1 DEF CreateNewTable, TriggerInv, Known
<1>2. CASE CreateTrigger
  <2>1. n \in NewNames /\ new[n] # NoTable /\ trig \in [Events -> NewNames \cup {None}]
    BY <1>2 DEF CreateTrigger, TypeInv, TypeOK, ServerTypes, Tables, NewTableThere, Working
  <2> QED
    BY <1>2, <2>1 DEF CreateTrigger, NextTrigger, Events, TriggerInv, Known, NoDanglingTrigger
<1>3. CASE NoNameLeft \/ AlterNewTable \/ CreateTriggerFails \/ TriggersCreated \/ CheckTriggers
  BY <1>3 DEF NoNameLeft, AlterNewTable, CreateTriggerFails, TriggersCreated, CheckTriggers, Die,
     TriggerInv, Known, NoDanglingTrigger
<1> QED
  BY <1>1, <1>2, <1>3 DEF Prepare

LEMMA CopyTriggers == TypeInv /\ TriggerInv /\ Copy => TriggerInv'
<1> SUFFICES ASSUME TypeInv, TriggerInv, Copy PROVE TriggerInv'
  OBVIOUS
<1>1. CASE InsertChunk
  <2>1. \A m \in NewNames : new'[m] = NoTable => new[m] = NoTable
    <3>1. n \in NewNames /\ new \in [NewNames -> Rows \cup {NoTable}]
      BY <1>1 DEF InsertChunk, TypeInv, TypeOK, ServerTypes, Tables, NewTableThere, Working
    <3>2. new[n] # NoTable /\ new[n] \in Rows /\ chunk \in Rows
      BY <1>1, <3>1 DEF InsertChunk, TypeInv, TypeOK, NibbleTypes, Tables, NewTableThere, Working
    <3>3. [k \in Keys |-> IF new[n][k] = Absent THEN chunk[k] ELSE new[n][k]] \in Rows
      BY <3>2 DEF Rows
    <3> QED
      BY <1>1, <3>1, <3>3, ValuesAssumption DEF InsertChunk, Rows
  <2>2. NoDanglingTrigger'
    BY <1>1, <2>1, SameTables DEF InsertChunk, TriggerInv
  <2> QED
    BY <1>1, <2>2 DEF InsertChunk, TriggerInv, Known
<1>2. CASE GetBoundsOneNibble \/ GetBounds \/ NoMoreBoundaries \/ OneNibble \/ StopNibbling
  BY <1>2 DEF GetBoundsOneNibble, GetBounds, NoMoreBoundaries, OneNibble, StopNibbling,
     TriggerInv, Known, NoDanglingTrigger
<1>3. CASE LastBoundary \/ \E size \in 1..MaxChunk : NextBoundaries(size)
  BY <1>3 DEF LastBoundary, NextBoundaries, TriggerInv, Known, NoDanglingTrigger
<1>4. CASE ExecNibble \/ NoUpperBoundary \/ RetryNibble \/ NibbleFails \/ RecordChunk
  BY <1>4 DEF ExecNibble, NoUpperBoundary, RetryNibble, NibbleFails, RecordChunk, Die,
     TriggerInv, Known, NoDanglingTrigger
<1>5. CASE AfterNibble \/ CriticalLoad \/ CopyDone
  BY <1>5 DEF AfterNibble, CriticalLoad, CopyDone, Die, TriggerInv, Known, NoDanglingTrigger
<1> QED
  BY <1>1, <1>2, <1>3, <1>4, <1>5 DEF Copy

LEMMA PutInPlaceTriggers == TypeInv /\ TriggerInv /\ PutInPlace => TriggerInv'
<1> SUFFICES ASSUME TypeInv, TriggerInv, PutInPlace PROVE TriggerInv'
  OBVIOUS
<1>1. CASE SwapTables \/ SwapUnacknowledged \/ DropOrig
  BY <1>1 DEF SwapTables, SwapUnacknowledged, Rename, DropOrig, Die, TriggerInv, Known,
     NoDanglingTrigger
<1>2. CASE RenameNew \/ RenameNewUnacknowledged
  <2>1. \A e \in Events : trig[e] = None
    BY <1>2 DEF RenameNew, RenameNewUnacknowledged, TypeInv, Tables, Outage
  <2> QED
    BY <1>2, <2>1 DEF RenameNew, RenameNewUnacknowledged, Die, TriggerInv, Known,
       NoDanglingTrigger
<1>3. CASE Copied \/ SwapFails \/ NoSwap \/ DropSwapFails \/ MarkSwapped \/ DropOldTable \/ DropOldFails
  BY <1>3 DEF Copied, SwapFails, NoSwap, DropSwapFails, MarkSwapped, DropOldTable, DropOldFails, Die,
     TriggerInv, Known, NoDanglingTrigger
<1> QED
  BY <1>1, <1>2, <1>3 DEF PutInPlace

LEMMA CleanUpTriggers == SafeOptions /\ TypeInv /\ TriggerInv /\ CleanUp => TriggerInv'
<1> SUFFICES ASSUME SafeOptions, TypeInv, TriggerInv, CleanUp PROVE TriggerInv'
  OBVIOUS
<1>1. CASE DropTrigger
  <2>1. trig \in [Events -> NewNames \cup {None}] /\ FirstCreated \in Events
    BY DEF TypeInv, TypeOK, ServerTypes, FirstCreated, Events
  <2> QED
    BY <1>1, <2>1 DEF DropTrigger, TriggerInv, Known, NoDanglingTrigger
<1>2. CASE DropTriggerFails
  BY <1>2 DEF DropTriggerFails, TriggerInv, Known, NoDanglingTrigger
<1>3. CASE TriggersCleaned
  BY <1>3 DEF TriggersCleaned, KeepTriggers, TriggerInv, Known, NoDanglingTrigger
<1>4. CASE CleanNewTable
  <2>1. CASE n = None \/ KeepNewTable
    BY <1>4, <2>1 DEF CleanNewTable, TriggerInv, Known, NoDanglingTrigger
  <2>2. CASE n # None /\ ~KeepNewTable
    <3>1. \A e \in Events : trig[e] = None
      BY <1>4, <2>2 DEF CleanNewTable, KeepNewTable, SafeOptions, TriggerInv, Known
    <3> QED
      BY <1>4, <3>1 DEF CleanNewTable, TriggerInv, Known, NoDanglingTrigger
  <2> QED
    BY <2>1, <2>2
<1>5. CASE Report
  BY <1>5 DEF Report, Quit, TriggerInv, Known, NoDanglingTrigger
<1> QED
  BY <1>1, <1>2, <1>3, <1>4, <1>5 DEF CleanUp

LEMMA TriggerInvStep == SafeOptions /\ TypeInv /\ TriggerInv /\ [Next]_vars => TriggerInv'
<1> SUFFICES ASSUME SafeOptions, TypeInv, TriggerInv, [Next]_vars PROVE TriggerInv'
  OBVIOUS
<1>1. CASE AppWrite
  <2>1. NoDanglingTrigger'
    BY <1>1, AppWriteTables, SameTables DEF AppWrite, TriggerInv, TypeInv
  <2> QED
    BY <1>1, <2>1 DEF AppWrite, TriggerInv, Known
<1>2. CASE SigInt \/ Crash
  BY <1>2 DEF SigInt, Crash, Quit, Die, TriggerInv, Known, NoDanglingTrigger
<1>3. CASE UNCHANGED vars
  BY <1>3 DEF vars, TriggerInv, Known, NoDanglingTrigger
<1> QED
  BY <1>1, <1>2, <1>3, OperatorTriggers, PrepareTriggers, CopyTriggers,
     PutInPlaceTriggers, CleanUpTriggers DEF Next, ToolStep

\* Unless the options ask for it, no trigger is left writing to a table that
\* the tool or the operator has dropped.
THEOREM TriggersHaveTheirTable ==
  ASSUME SafeOptions PROVE Spec => []NoDanglingTrigger
<1>1. Init => TriggerInv
  BY DEF Init, TriggerInv, Known, NoDanglingTrigger
<1>2. TypeInv /\ TriggerInv /\ [Next]_vars => TriggerInv'
  BY TriggerInvStep
<1>3. TriggerInv => NoDanglingTrigger
  BY DEF TriggerInv
<1> QED
  BY <1>1, <1>2, <1>3, TypeInvInit, TypeInvStep, PTL DEF Spec

-----------------------------------------------------------------------------
(* The chunks' boundaries.                                                  *)

\* The next lower boundary, once there is one, is a key beyond this one.
Ahead ==
  /\ bite => lower = None
  /\ pc \in {"create", "alter_new_table", "create_triggers", "check_triggers",
             "get_bounds"} => lower = None
  /\ pc \in {"next_boundaries", "exec_nibble", "insert", "history", "after_nibble"} =>
       noMore \/ bite \/ (nextLower \in Keys /\ (lower # None => lower < nextLower))

LEMMA NextIsAhead ==
  ASSUME TypeInv, Ahead, NEW size \in 1..MaxChunk, NextBoundaries(size)
  PROVE  /\ Ahead'
         /\ lower # None => lower < lower'
<1>1. nextLower \in Keys /\ ~bite /\ lower' = nextLower /\ bite' = bite
      /\ pc' \in {"exec_nibble", "last_boundary"} /\ (lower # None => lower < nextLower)
  BY DEF NextBoundaries, Ahead
<1>2. pc' = "last_boundary" \/ noMore' \/ (nextLower' \in Keys /\ nextLower < nextLower')
  <2> SUFFICES ASSUME pc' # "last_boundary", ~noMore' PROVE nextLower' \in Keys /\ nextLower < nextLower'
    BY DEF TypeInv
  <2>1. PICK u \in RowsFrom(nextLower) : nextLower' \in FirstOf(RowsAfter(u))
    BY DEF NextBoundaries
  <2>2. nextLower' \in Keys /\ u \in Keys /\ nextLower <= u /\ u < nextLower'
    BY <2>1 DEF FirstOf, RowsAfter, RowsFrom
  <2> QED
    BY <1>1, <2>2, KeysAssumption
<1> QED
  BY <1>1, <1>2 DEF Ahead

LEMMA AheadStep == TypeInv /\ Ahead /\ [Next]_vars => Ahead'
<1> SUFFICES ASSUME TypeInv, Ahead, [Next]_vars PROVE Ahead'
  OBVIOUS
<1>1. CASE AppWrite \/ UNCHANGED vars
  BY <1>1 DEF AppWrite, vars, Ahead
<1>2. CASE Operator
  <2>1. CASE StartJob \/ \E j \in 1..job : ResumeJob(j)
    BY <2>1 DEF StartJob, ResumeJob, Launch, Ahead
  <2>2. CASE (\E e \in Events : DropTriggerByHand(e)) \/ \E m \in NewNames : DropNewByHand(m)
    BY <2>2 DEF DropTriggerByHand, DropNewByHand, Ahead
  <2> QED
    BY <1>2, <2>1, <2>2 DEF Operator
<1>3. CASE Prepare
  BY <1>3 DEF Prepare, CreateNewTable, NoNameLeft, AlterNewTable, CreateTrigger,
     CreateTriggerFails, TriggersCreated, CheckTriggers, Die, Ahead
<1>4. CASE GetBounds
  BY <1>4 DEF GetBounds, FirstOf, AllRows, RowsAfter, Ahead
<1>5. CASE \E size \in 1..MaxChunk : NextBoundaries(size)
  BY <1>5, NextIsAhead
<1>6. CASE Copy /\ ~GetBounds /\ ~\E size \in 1..MaxChunk : NextBoundaries(size)
  <2>1. CASE GetBoundsOneNibble \/ NoMoreBoundaries \/ OneNibble \/ StopNibbling
    BY <2>1 DEF GetBoundsOneNibble, NoMoreBoundaries, OneNibble, StopNibbling, Ahead
  <2>2. CASE LastBoundary \/ ExecNibble \/ NoUpperBoundary \/ InsertChunk \/ RetryNibble \/ NibbleFails
    BY <2>2 DEF LastBoundary, ExecNibble, NoUpperBoundary, InsertChunk, RetryNibble, NibbleFails, Die, Ahead
  <2>3. CASE RecordChunk
    BY <2>3 DEF RecordChunk, Ahead
  <2>4. CASE AfterNibble
    BY <2>4 DEF AfterNibble, Ahead
  <2>5. CASE CriticalLoad \/ CopyDone
    BY <2>5 DEF CriticalLoad, CopyDone, Die, Ahead
  <2> QED
    BY <1>6, <2>1, <2>2, <2>3, <2>4, <2>5 DEF Copy
<1>7. CASE PutInPlace
  BY <1>7 DEF PutInPlace, Copied, SwapTables, SwapUnacknowledged, SwapFails,
     NoSwap, DropOrig, RenameNew, RenameNewUnacknowledged, DropSwapFails,
     MarkSwapped, DropOldTable, DropOldFails, Die, Ahead
<1>8. CASE CleanUp
  BY <1>8 DEF CleanUp, DropTrigger, DropTriggerFails, TriggersCleaned, CleanNewTable,
     Report, Quit, Ahead
<1>9. CASE SigInt \/ Crash
  BY <1>9 DEF SigInt, Crash, Quit, Die, Ahead
<1> QED
  BY <1>1, <1>2, <1>3, <1>4, <1>5, <1>6, <1>7, <1>8, <1>9 DEF Next, ToolStep

\* The lower boundary only grows, in a run from scratch and in a resumed one,
\* whatever is inserted and deleted between the boundary queries.
THEOREM ChunksGoForward == Spec => ChunksAdvance
<1>1. Init => Ahead
  BY DEF Init, Ahead
<1>2. ASSUME TypeInv, Ahead, [Next]_vars, pc = "next_boundaries",
             pc' \in {"exec_nibble", "last_boundary"}, lower # None
      PROVE  lower < lower'
  <2>1. OneNibble \/ \E size \in 1..MaxChunk : NextBoundaries(size)
    BY <1>2 DEF Next, vars, AppWrite, Operator, StartJob, ResumeJob, Launch, DropTriggerByHand,
       DropNewByHand, ToolStep, Prepare, CreateNewTable, NoNameLeft, AlterNewTable,
       CreateTrigger, CreateTriggerFails, TriggersCreated, CheckTriggers, Copy,
       GetBoundsOneNibble, GetBounds, NoMoreBoundaries, StopNibbling, LastBoundary, ExecNibble,
       NoUpperBoundary, InsertChunk, RetryNibble, NibbleFails, RecordChunk, AfterNibble,
       CriticalLoad, CopyDone, PutInPlace, Copied, SwapTables, SwapUnacknowledged,
       SwapFails, NoSwap, DropOrig, RenameNew, RenameNewUnacknowledged, DropSwapFails,
       MarkSwapped, DropOldTable, DropOldFails, CleanUp, DropTrigger, DropTriggerFails,
       TriggersCleaned, CleanNewTable, Report, SigInt, Crash, Quit, Die
  <2>2. CASE OneNibble
    BY <1>2, <2>2 DEF OneNibble, Ahead
  <2> QED
    BY <1>2, <2>1, <2>2, NextIsAhead
<1>3. TypeInv /\ Ahead /\ [Next]_vars =>
        [pc = "next_boundaries" /\ pc' \in {"exec_nibble", "last_boundary"} /\ lower # None
         => lower < lower']_vars
  BY <1>2
<1> QED
  BY <1>1, <1>3, AheadStep, TypeInvInit, TypeInvStep, PTL DEF Spec, ChunksAdvance
-----------------------------------------------------------------------------
(* What the report says.                                                    *)

\* Every run is to replace t, and is told when it did.
Acknowledged == ~LostAcks /\ \A o \in Options : o.swap # "none"

\* What the flag says of the table while a run lasts: it is set only of an altered
\* table, and an altered table without it is one whose run is between the RENAME
\* and the flag, or was cut short there.  Nothing is said before the end.
ReportInv ==
  pc # "idle" =>
    /\ said = "nothing" /\ (swapped \/ pc = "renamed" => altered)
    /\ altered /\ ~swapped =>
         pc = "renamed" \/ (pc \in {"clean_triggers", "clean_new", "report"} /\ ~oktorun)

LEMMA PutInPlaceReport ==
  Acknowledged /\ TypeInv /\ ReportInv /\ PutInPlace => ReportInv'
<1> SUFFICES ASSUME Acknowledged, TypeInv, ReportInv, PutInPlace PROVE ReportInv'
  OBVIOUS
<1> USE DEF ReportInv
<1>1. CASE SwapTables \/ RenameNew
  BY <1>1 DEF SwapTables, Rename, RenameNew
<1>2. CASE MarkSwapped
  <2>1. altered
    BY <1>2 DEF MarkSwapped
  <2> QED
    BY <1>2, <2>1 DEF MarkSwapped
<1>3. CASE Copied \/ SwapFails \/ DropOrig \/ DropSwapFails \/ DropOldTable \/ DropOldFails
  BY <1>3 DEF Copied, SwapFails, DropOrig, DropSwapFails, DropOldTable, DropOldFails, Die
<1>4. ~NoSwap /\ ~SwapUnacknowledged /\ ~RenameNewUnacknowledged
  BY DEF Acknowledged, NoSwap, SwapUnacknowledged, RenameNewUnacknowledged, TypeInv, TypeOK,
     RunTypes
<1> QED
  BY <1>1, <1>2, <1>3, <1>4 DEF PutInPlace

LEMMA ReportInvStep ==
  Acknowledged /\ TypeInv /\ ReportInv /\ [Next]_vars => ReportInv'
<1> SUFFICES ASSUME Acknowledged, TypeInv, ReportInv, [Next]_vars PROVE ReportInv'
  OBVIOUS
<1> USE DEF ReportInv
<1>1. CASE AppWrite
  BY <1>1 DEF AppWrite
<1>2. CASE Operator
  <2>1. altered \in BOOLEAN
    BY DEF TypeInv, TypeOK, ServerTypes
  <2>2. CASE StartJob \/ \E j \in 1..job : ResumeJob(j)
    <3>1. altered' = FALSE /\ swapped' = FALSE /\ said' = "nothing" /\ pc' # "renamed"
      BY <2>1, <2>2 DEF StartJob, ResumeJob, Launch
    <3> QED
      BY <3>1
  <2>3. CASE (\E e \in Events : DropTriggerByHand(e)) \/ \E m \in NewNames : DropNewByHand(m)
    BY <2>3 DEF DropTriggerByHand, DropNewByHand
  <2> QED
    BY <1>2, <2>2, <2>3 DEF Operator
<1>3. CASE Prepare
  BY <1>3 DEF Prepare, CreateNewTable, NoNameLeft, AlterNewTable, CreateTrigger,
     CreateTriggerFails, TriggersCreated, CheckTriggers, Die
<1>4. CASE Copy
  BY <1>4 DEF Copy, GetBoundsOneNibble, GetBounds, NoMoreBoundaries, OneNibble,
     StopNibbling, NextBoundaries, LastBoundary, ExecNibble, NoUpperBoundary, InsertChunk,
     RetryNibble, NibbleFails, RecordChunk, AfterNibble, CriticalLoad, CopyDone, Die
<1>5. CASE PutInPlace
  BY <1>5, PutInPlaceReport
<1>6. CASE DropTrigger \/ DropTriggerFails \/ TriggersCleaned \/ CleanNewTable
  BY <1>6 DEF DropTrigger, DropTriggerFails, TriggersCleaned, CleanNewTable
<1>7. CASE Report \/ Crash
  BY <1>7 DEF Report, Crash, Quit
<1>8. CASE SigInt
  BY <1>8 DEF SigInt, Die, Interruptible
<1>9. CASE UNCHANGED vars
  BY <1>9 DEF vars
<1> QED
  BY <1>1, <1>2, <1>3, <1>4, <1>5, <1>6, <1>7, <1>8, <1>9
     DEF Next, ToolStep, CleanUp

\* When every run is to replace t and no acknowledgement of a RENAME is lost, the
\* tool says "altered" of an altered table only, and a run that was not cut short
\* says "not altered" of an unaltered one only, whatever failed on the way.
THEOREM ReportIsTrue == ASSUME Acknowledged PROVE Spec => ReportTruthful
<1>1. Init => ReportInv
  BY DEF Init, ReportInv
<1>2. TypeInv /\ ReportInv /\ [Next]_vars => ReportInv'
  BY ReportInvStep
<1>3. ASSUME TypeInv, ReportInv, [Next]_vars, pc = "report", said' # "nothing"
      PROVE  IF said' = "altered" THEN altered ELSE oktorun => ~altered
  <2>1. said = "nothing" /\ pc # "idle"
    BY <1>3 DEF ReportInv
  <2>2. CASE Report
    BY <1>3, <2>1, <2>2 DEF Report, ReportInv, TypeInv, TypeOK, RunTypes, ServerTypes
  <2>3. CASE UNCHANGED vars \/ AppWrite \/ SigInt \/ Crash \/ Operator
    BY <1>3, <2>1, <2>3 DEF vars, AppWrite, SigInt, Interruptible, Crash, Quit, Operator, StartJob,
       ResumeJob, Launch, DropTriggerByHand, DropNewByHand
  <2>4. ~Prepare /\ ~Copy /\ ~PutInPlace
    BY <1>3 DEF Prepare, CreateNewTable, NoNameLeft, AlterNewTable, CreateTrigger,
       CreateTriggerFails, TriggersCreated, CheckTriggers, Copy, GetBoundsOneNibble, GetBounds,
       NoMoreBoundaries, OneNibble, StopNibbling, NextBoundaries, LastBoundary, ExecNibble,
       NoUpperBoundary, InsertChunk, RetryNibble, NibbleFails, RecordChunk, AfterNibble,
       CriticalLoad, CopyDone, PutInPlace, Copied, SwapTables, SwapUnacknowledged, SwapFails,
       NoSwap, DropOrig, RenameNew, RenameNewUnacknowledged, DropSwapFails, MarkSwapped,
       DropOldTable, DropOldFails
  <2>5. CASE CleanUp /\ ~Report
    BY <1>3, <2>5 DEF CleanUp, DropTrigger, DropTriggerFails, TriggersCleaned, CleanNewTable
  <2> QED
    BY <1>3, <2>2, <2>3, <2>4, <2>5 DEF Next, ToolStep
<1>4. TypeInv /\ ReportInv /\ [Next]_vars =>
        [pc = "report" /\ said' # "nothing" =>
           IF said' = "altered" THEN altered ELSE oktorun => ~altered]_vars
  BY <1>3
<1> QED
  BY <1>1, <1>2, <1>4, TypeInvInit, TypeInvStep, PTL DEF Spec, ReportTruthful
=============================================================================
