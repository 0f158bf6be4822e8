-------------------- MODULE OnlineSchemaChangeCopyProofs --------------------
(***************************************************************************)
(* The copy is right: what the chunks and the triggers leave in the new    *)
(* table is the original's rows, through any interleaving with the         *)
(* application's writes, any failure, interruption or crash, and any       *)
(* sequence of runs and resumes of the latest lineage.                     *)
(***************************************************************************)
EXTENDS OnlineSchemaChangeProofs

USE DEF server, flags, nibble, run, Tool

-----------------------------------------------------------------------------
(* The inductive invariant.                                                 *)

\* One lineage of jobs has one new table, and the triggers write to it.
Lineage ==
  /\ \A j \in fresh..job : hist[j].new \in {None, n}
  /\ \A e \in Events : trig[e] \in {None, n}
  /\ pc = "create" => n = None
  /\ pc \in {"create", "alter_new_table", "create_triggers"} =>
       \A j \in fresh..job : hist[j].ub = None
  /\ pc \in (Working \cup {"create"}) \ {"copied", "swap"} => ~hist[job].done

\* The triggers are created in order, and all are there during the copy.
Copying == {"get_bounds", "next_boundaries", "last_boundary", "exec_nibble", "insert",
            "history", "after_nibble", "done", "copied", "swap"}

Creation ==
  /\ pc \in {"create", "alter_new_table"} =>
       created = {} /\ \A e \in Events : trig[e] = None
  /\ pc = "alter_new_table" => new[n] = Empty
  /\ pc = "create_triggers" =>
       /\ \A e \in Events : trig[e] # None <=> e \in created
       /\ "upd" \in created => "del" \in created
       /\ "ins" \in created => "upd" \in created
       /\ "upd" \notin created => new[n] = Empty
  /\ pc \in Copying => AllTriggers /\ oktorun
  /\ pc \notin {"clean_triggers", "clean_new", "report"} => oktorun

\* With the delete and update triggers there, the new table holds no row that
\* t has not.
Agree ==
  trig["del"] # None /\ trig["upd"] # None /\ new[n] # NoTable =>
    \A k \in Keys : new[n][k] \in {t[k], Absent}

\* How far the copy is, at each step of the iterator.
Bounded ==
  /\ bite => noMore
  /\ ~bite => /\ lower \in Keys
              /\ \A k \in Keys : k < lower => Synced(n, k)
              /\ ~noMore => upper \in Keys /\ nextLower \in Keys
              /\ upper \in Keys => \A k \in Keys :
                   upper < k /\ (noMore \/ k < nextLower) => Synced(n, k)

Frontier ==
  /\ pc \in {"create", "alter_new_table", "create_triggers"} => from = None
  /\ pc = "check_triggers" => from # None
  /\ pc \in {"check_triggers", "get_bounds"} /\ AllTriggers /\ from # None =>
       \A k \in Keys : k <= from => Synced(n, k)
  /\ pc = "next_boundaries" =>
       IF noMore THEN \A k \in Keys : Synced(n, k)
       ELSE bite \/ (nextLower \in Keys /\ \A k \in Keys : k < nextLower => Synced(n, k))
  /\ pc = "last_boundary" => ~bite /\ lower \in Keys /\ \A k \in Keys : k < lower => Synced(n, k)
  /\ pc \in {"exec_nibble", "insert", "history", "after_nibble"} => Bounded
  /\ pc \in {"insert", "history", "after_nibble"} => bite \/ upper \in Keys
  /\ pc = "insert" => \A k \in Keys :
       /\ chunk[k] # Absent => chunk[k] = t[k]
       /\ InChunk(k) => Synced(n, k) \/ chunk[k] = t[k]
  /\ pc \in {"history", "after_nibble"} => \A k \in Keys : InChunk(k) => Synced(n, k)
  /\ pc \in {"done", "copied", "swap"} => \A k \in Keys : Synced(n, k)

\* What the history of the lineage says is still so.
Recorded ==
  AllTriggers /\ new[n] # NoTable =>
    \A j \in fresh..job : hist[j].ub # None =>
      \A k \in Keys : k <= hist[j].ub \/ hist[j].done => Synced(n, k)

CopyInv == Lineage /\ Creation /\ Agree /\ Frontier /\ Recorded

-----------------------------------------------------------------------------
(* The application's writes.                                                *)

\* What a write does to t and, through the trigger e, to the new table: it
\* leaves row k and, of an update, row l as r has them.
Same(a, b, except) == \A k \in Keys : k \notin except => a[k] = b[k]

LEMMA SetOne ==
  ASSUME NEW r \in Rows, NEW k \in Keys, NEW x \in Vals \cup {Absent}
  PROVE  [r EXCEPT ![k] = x][k] = x /\ Same([r EXCEPT ![k] = x], r, {k})
BY DEF Rows, Same

LEMMA MoveOne ==
  ASSUME NEW r \in Rows, NEW k \in Keys, NEW l \in Keys, NEW v \in Vals
  PROVE  /\ Moved(r, k, l, v)[l] = v
         /\ k # l => Moved(r, k, l, v)[k] = Absent
         /\ Same(Moved(r, k, l, v), r, {k, l})
BY DEF Rows, Same, Moved

\* The new table after a write is the one before with the same rows set, if
\* the write's trigger is there, and unchanged otherwise.
Inserted(k, v) ==
  /\ t[k] = Absent /\ t'[k] = v /\ Same(t', t, {k})
  /\ trig["ins"] = None => new'[n] = new[n]
  /\ trig["ins"] # None => new'[n][k] = v /\ Same(new'[n], new[n], {k})

Updated(k, l, v) ==
  /\ t[k] # Absent /\ ~Locked(k) /\ (l = k \/ t[l] = Absent)
  /\ t'[l] = v /\ (k # l => t'[k] = Absent) /\ Same(t', t, {k, l})
  /\ trig["upd"] = None => new'[n] = new[n]
  /\ trig["upd"] # None => /\ new'[n][l] = v /\ (k # l => new'[n][k] = Absent)
                           /\ Same(new'[n], new[n], {k, l})

Deleted(k) ==
  /\ t[k] # Absent /\ ~Locked(k)
  /\ t'[k] = Absent /\ Same(t', t, {k})
  /\ trig["del"] = None => new'[n] = new[n]
  /\ trig["del"] # None => new'[n] = [new[n] EXCEPT ![k] = Absent]

LEMMA WriteCases ==
  ASSUME TypeInv, Lineage, AppWrite, n \in NewNames, new[n] # NoTable
  PROVE  /\ t \in Rows /\ new[n] \in Rows /\ n' = n
         /\ \/ \E k \in Keys, v \in Vals : Inserted(k, v)
            \/ \E k, l \in Keys, v \in Vals : Updated(k, l, v)
            \/ \E k \in Keys : Deleted(k)
<1>1. /\ t \in Rows /\ new \in [NewNames -> Rows \cup {NoTable}] /\ new[n] \in Rows
      /\ n' = n
      /\ trig["ins"] \in {None, n} /\ trig["upd"] \in {None, n} /\ trig["del"] \in {None, n}
      /\ None # n
  <2>1. /\ t \in Rows /\ new \in [NewNames -> Rows \cup {NoTable}] /\ n' = n
    BY DEF TypeInv, TypeOK, ServerTypes, AppWrite
  <2>2. trig["ins"] \in {None, n} /\ trig["upd"] \in {None, n} /\ trig["del"] \in {None, n}
    BY DEF Lineage, Events
  <2> QED
    BY <2>1, <2>2, NamesAssumption, ValuesAssumption
<1>2. ASSUME NEW k \in Keys, NEW v \in Vals, AppInsert(k, v) PROVE Inserted(k, v)
  <2>1. t[k] = Absent /\ t'[k] = v /\ Same(t', t, {k})
    BY <1>1, <1>2 DEF AppInsert, Same, Rows
  <2>2. ASSUME trig["ins"] = None PROVE new'[n] = new[n]
    BY <1>2, <2>2 DEF AppInsert, Fires
  <2>3. ASSUME trig["ins"] # None PROVE new'[n][k] = v /\ Same(new'[n], new[n], {k})
    <3>1. new'[n] = [new[n] EXCEPT ![k] = v]
      BY <1>1, <1>2, <2>3 DEF AppInsert, Fires
    <3> QED
      BY <1>1, <3>1, SetOne
  <2> QED
    BY <2>1, <2>2, <2>3 DEF Inserted
<1>3. ASSUME NEW k \in Keys, NEW l \in Keys, NEW v \in Vals, AppUpdate(k, l, v) PROVE Updated(k, l, v)
  <2>1. /\ t[k] # Absent /\ ~Locked(k) /\ (l = k \/ t[l] = Absent)
        /\ t'[l] = v /\ (k # l => t'[k] = Absent) /\ Same(t', t, {k, l})
    BY <1>1, <1>3 DEF AppUpdate, Moved, Same, Rows
  <2>2. ASSUME trig["upd"] = None PROVE new'[n] = new[n]
    BY <1>3, <2>2 DEF AppUpdate, Fires
  <2>3. ASSUME trig["upd"] # None
        PROVE  /\ new'[n][l] = v /\ (k # l => new'[n][k] = Absent)
               /\ Same(new'[n], new[n], {k, l})
    <3>1. new'[n] = Moved(new[n], k, l, v)
      BY <1>1, <1>3, <2>3 DEF AppUpdate, Fires
    <3> QED
      BY <1>1, <3>1, MoveOne
  <2> QED
    BY <2>1, <2>2, <2>3 DEF Updated
<1>4. ASSUME NEW k \in Keys, AppDelete(k) PROVE Deleted(k)
  <2>1. /\ t[k] # Absent /\ ~Locked(k)
        /\ t'[k] = Absent /\ Same(t', t, {k})
    BY <1>1, <1>4 DEF AppDelete, Same, Rows
  <2>2. ASSUME trig["del"] = None PROVE new'[n] = new[n]
    BY <1>4, <2>2 DEF AppDelete, Fires
  <2>3. ASSUME trig["del"] # None PROVE new'[n] = [new[n] EXCEPT ![k] = Absent]
    BY <1>1, <1>4, <2>3 DEF AppDelete, Fires
  <2> QED
    BY <2>1, <2>2, <2>3 DEF Deleted
<1> QED
  BY <1>1, <1>2, <1>3, <1>4 DEF AppWrite

\* With all triggers there a write keeps rows that are in sync so, and the rows
\* it changes are in sync.
LEMMA WriteSync ==
  ASSUME TypeInv, Lineage, AppWrite, AllTriggers, n \in NewNames, new[n] # NoTable
  PROVE  /\ \A k \in Keys : Synced(n, k) => Synced(n, k)'
         /\ \A k \in Keys : t'[k] = t[k] \/ Synced(n, k)'
<1>1. trig["ins"] # None /\ trig["upd"] # None /\ trig["del"] # None
  BY DEF AllTriggers, Events
<1>2. n' = n
  BY WriteCases
<1> SUFFICES ASSUME NEW i \in Keys
             PROVE  /\ new[n][i] = t[i] => new'[n][i] = t'[i]
                    /\ t'[i] = t[i] \/ new'[n][i] = t'[i]
  BY <1>2 DEF Synced
<1>3. CASE \E k \in Keys, v \in Vals : Inserted(k, v)
  BY <1>1, <1>3 DEF Inserted, Same
<1>4. CASE \E k, l \in Keys, v \in Vals : Updated(k, l, v)
  BY <1>1, <1>4 DEF Updated, Same
<1>5. CASE \E k \in Keys : Deleted(k)
  BY <1>1, <1>5, WriteCases DEF Deleted, Same, Rows
<1> QED
  BY <1>3, <1>4, <1>5, WriteCases

\* The rows the chunk's read locked stay as they were read.
LEMMA WriteLocked ==
  ASSUME TypeInv, Lineage, AppWrite, n \in NewNames, new[n] # NoTable, pc = "insert",
         NEW k \in Keys, chunk[k] # Absent, chunk[k] = t[k]
  PROVE  t'[k] = t[k]
BY WriteCases DEF Inserted, Updated, Deleted, Same, Locked

LEMMA WriteAgree == TypeInv /\ Lineage /\ Agree /\ AppWrite => Agree'
<1> SUFFICES ASSUME TypeInv, Lineage, Agree, AppWrite,
                    trig["del"] # None, trig["upd"] # None, new[n]' # NoTable
             PROVE  \A k \in Keys : new'[n][k] \in {t'[k], Absent}
  BY DEF Agree, AppWrite
<1>1. n \in NewNames /\ new[n] # NoTable
  <2>1. trig["del"] = n /\ trig["del"] \in NewNames /\ n' = n
    BY DEF TypeInv, TypeOK, ServerTypes, Lineage, Events, AppWrite
  <2> QED
    BY <2>1, AppWriteTables DEF TypeInv
<1>2. \A k \in Keys : new[n][k] \in {t[k], Absent}
  BY <1>1 DEF Agree
<1> SUFFICES ASSUME NEW i \in Keys PROVE new'[n][i] \in {t'[i], Absent}
  OBVIOUS
<1>3. CASE \E k \in Keys, v \in Vals : Inserted(k, v)
  BY <1>2, <1>3 DEF Inserted, Same
<1>4. CASE \E k, l \in Keys, v \in Vals : Updated(k, l, v)
  BY <1>2, <1>4 DEF Updated, Same
<1>5. CASE \E k \in Keys : Deleted(k)
  BY <1>1, <1>2, <1>5, WriteCases DEF Deleted, Same, Rows
<1> QED
  BY <1>1, <1>3, <1>4, <1>5, WriteCases

\* An empty table with no update trigger yet stays empty.
LEMMA WriteEmpty ==
  ASSUME TypeInv, Lineage, AppWrite, n \in NewNames, new[n] = Empty,
         trig["ins"] = None, trig["upd"] = None
  PROVE  new'[n] = Empty
<1>1. \A k \in Keys : [Empty EXCEPT ![k] = Absent] = Empty
  BY DEF Empty
<1> QED
  BY <1>1, WriteCases, EmptyTable DEF Inserted, Updated, Deleted

LEMMA AppWriteCopyInv ==
  ASSUME TypeInv, CopyInv, AppWrite PROVE CopyInv'
<1>1. /\ UNCHANGED <<trig, hist, pc, job, fresh, n, oktorun, created, from, bite, lower,
                     upper, nextLower, noMore, chunk>>
      /\ \A m \in NewNames : new'[m] = NoTable <=> new[m] = NoTable
  BY AppWriteTables DEF TypeInv, AppWrite
<1>2. Lineage'
  BY <1>1 DEF CopyInv, Lineage
<1>3. ASSUME pc \in Working PROVE n \in NewNames /\ new[n] # NoTable
  BY <1>3 DEF TypeInv, Tables, NewTableThere
<1>4. ASSUME AllTriggers PROVE n \in NewNames /\ trig["del"] = n
  BY <1>4 DEF TypeInv, TypeOK, ServerTypes, CopyInv, Lineage, AllTriggers, Events
<1>5. Creation'
  <2>1. pc \in {"alter_new_table",
       "create_triggers"} /\ trig["upd"] = None /\ trig["ins"] = None
          /\ new[n] = Empty => new'[n] = Empty
    BY <1>3, WriteEmpty DEF Working, CopyInv
  <2> QED
    BY <1>1, <2>1 DEF CopyInv, Creation, AllTriggers, Events
<1>6. Agree'
  BY WriteAgree DEF CopyInv
<1>7. \A k \in Keys : AllTriggers /\ n \in NewNames /\ new[n] # NoTable =>
        /\ Synced(n, k) => Synced(n, k)'
        /\ t'[k] = t[k] \/ Synced(n, k)'
  BY WriteSync DEF CopyInv
<1>8. Recorded'
  <2> SUFFICES ASSUME AllTriggers, new'[n] # NoTable PROVE Recorded'
    BY <1>1 DEF Recorded, AllTriggers
  <2>1. n \in NewNames /\ new[n] # NoTable
    BY <1>1, <1>4
  <2> QED
    BY <1>1, <1>7, <2>1 DEF CopyInv, Recorded
<1>9. Frontier'
  <2> SUFFICES ASSUME pc \in Working, AllTriggers PROVE Frontier'
    BY <1>1 DEF CopyInv, Frontier, Creation, Copying, Working, AllTriggers
  <2>1. n \in NewNames /\ new[n] # NoTable
    BY <1>3
  <2>2. \A k \in Keys : /\ Synced(n, k) => Synced(n, k)'
                        /\ t'[k] = t[k] \/ Synced(n, k)'
    BY <1>7, <2>1
  <2>3. Bounded => Bounded'
    BY <1>1, <2>2 DEF Bounded
  <2>4. \A k \in Keys : InChunk(k)' <=> InChunk(k)
    BY <1>1 DEF InChunk
  <2>5. pc = "insert" => \A k \in Keys : chunk[k] # Absent /\ chunk[k] = t[k] => t'[k] = t[k]
    BY <2>1, WriteLocked DEF CopyInv
  <2> QED
    BY <1>1, <2>2, <2>3, <2>4, <2>5 DEF CopyInv, Frontier
<1> QED
  BY <1>2, <1>5, <1>6, <1>8, <1>9 DEF CopyInv

-----------------------------------------------------------------------------
(* The operator and the tool.                                               *)

\* The hypotheses of the copy's theorems: jobs older than the latest
\* from-scratch run are not resumed, a resumed job is not taken for one chunk,
\* and no plugin clears $oktorun.
Sound == CarefulOperator /\ ~ResumeBites /\ ~PluginStops

LEMMA CopyInvInit == Init => CopyInv
BY DEF Init, CopyInv, Lineage, Creation, Copying, Working, Agree, Frontier, Recorded,
     AllTriggers, NoJob, Events

\* The row a boundary query returns is the first: there is none before it.
LEMMA FirstIs ==
  ASSUME NEW S \in SUBSET Keys, NEW f \in FirstOf(S)
  PROVE  f \in S /\ f \in Keys /\ \A k \in Keys : k < f => k \notin S
<1>1. f \in S /\ f \in Nat /\ \A j \in S : j \in Nat /\ f <= j
  BY KeysAssumption DEF FirstOf
<1> QED
  BY <1>1

LEMMA WhileCopying ==
  ASSUME TypeInv, CopyInv, pc \in Copying
  PROVE  /\ n \in NewNames /\ t \in Rows /\ new[n] \in Rows
         /\ new \in [NewNames -> Rows \cup {NoTable}] /\ new[n] # NoTable
         /\ Keys \subseteq Nat /\ None \notin Keys
         /\ AllTriggers /\ oktorun
         /\ \A k \in Keys : new[n][k] \in {t[k], Absent}
<1>1. n \in NewNames /\ new[n] # NoTable
  BY DEF TypeInv, Tables, NewTableThere, Working, Copying
<1>2. t # NoTable
  BY DEF TypeInv, Tables, Outage, Copying
<1>3. AllTriggers /\ oktorun
  BY DEF CopyInv, Creation
<1>4. \A k \in Keys : new[n][k] \in {t[k], Absent}
  BY <1>1, <1>3 DEF CopyInv, Agree, AllTriggers, Events
<1> QED
  BY <1>1, <1>2, <1>3, <1>4, KeysAssumption, ValuesAssumption
     DEF TypeInv, TypeOK, ServerTypes

LEMMA OperatorCopyInv ==
  ASSUME Sound, TypeInv, CopyInv, Operator PROVE CopyInv'
<1>1. CASE StartJob
  <2>a. job \in 0..MaxJobs /\ hist \in Histories /\ job + 1 \in 1..MaxJobs /\ MaxJobs \in Nat
    BY <1>1, NextJob, JobsAssumption DEF StartJob, Launch, TypeInv, TypeOK,
         ServerTypes, RunTypes
  <2>b. /\ pc' = "create" /\ n' = None /\ fresh' = job + 1 /\ job' = job + 1
        /\ hist' = [hist EXCEPT ![job + 1] = NoJob]
        /\ trig' = trig /\ \A e \in Events : trig[e] = None
    BY <1>1 DEF StartJob, Launch
  <2>1. Lineage'
    BY <1>1, <2>a, <2>b DEF StartJob, Launch, NoJob, Histories, CopyInv, Lineage,
         Working
  <2>2. Creation'
    BY <1>1 DEF StartJob, Launch, NoJob, CopyInv, Creation, AllTriggers, Copying
  <2>3. Agree'
    BY <1>1, <2>b DEF StartJob, Launch, NoJob, Events, CopyInv, Agree
  <2>4. Frontier'
    BY <1>1 DEF StartJob, Launch, NoJob, CopyInv, Frontier, Bounded, InChunk, Synced,
         AllTriggers
  <2>5. Recorded'
    BY <1>1, <2>b DEF StartJob, Launch, NoJob, Events, CopyInv, Recorded, AllTriggers,
         Synced
  <2> QED
    BY <2>1, <2>2, <2>3, <2>4, <2>5 DEF CopyInv
<1>2. ASSUME NEW j \in 1..job, ResumeJob(j) PROVE CopyInv'
  <2>a. /\ job \in Nat /\ fresh \in Nat /\ j \in fresh..job /\ hist \in Histories
        /\ job + 1 \in 1..MaxJobs /\ MaxJobs \in Nat
        /\ hist[j].new = n /\ hist[j].ub # None /\ new[n] # NoTable
    BY <1>2, NextJob, JobsAssumption DEF ResumeJob, Launch, TypeInv, TypeOK,
         ServerTypes, RunTypes, Sound, CopyInv, Lineage
  <2>b. /\ pc' = "check_triggers" /\ n' = n /\ fresh' = fresh /\ job' = job + 1
        /\ UNCHANGED <<t, new, trig>> /\ from' = hist[j].ub
        /\ hist' = [hist EXCEPT ![job + 1] = [NoJob EXCEPT !.new = n]]
    BY <1>2, <2>a DEF ResumeJob, Launch
  <2>c. /\ [NoJob EXCEPT !.new = n].new = n
        /\ [NoJob EXCEPT !.new = n].ub = None
        /\ [NoJob EXCEPT !.new = n].done = FALSE
    BY DEF NoJob
  <2>1. Lineage'
    BY <2>a, <2>b, <2>c DEF CopyInv, Lineage, Histories, Working
  <2>2. Creation'
    BY <1>2 DEF ResumeJob, Launch, NoJob, Sound, CopyInv, Creation, AllTriggers, Copying
  <2>3. Agree'
    BY <2>b DEF CopyInv, Agree
  <2>4. Frontier'
    BY <2>a, <2>b DEF CopyInv, Frontier, Recorded, AllTriggers, Synced
  <2>5. Recorded'
    BY <2>a, <2>b, <2>c DEF CopyInv, Recorded, AllTriggers, Synced, Histories
  <2> QED
    BY <2>1, <2>2, <2>3, <2>4, <2>5 DEF CopyInv
<1>3. ASSUME NEW e \in Events, DropTriggerByHand(e) PROVE CopyInv'
  <2>1. Lineage'
    BY <1>3 DEF DropTriggerByHand, CopyInv, Lineage, Working
  <2>2. Creation'
    BY <1>3 DEF DropTriggerByHand, CopyInv, Creation, AllTriggers, Copying
  <2>3. Agree'
    BY <1>3 DEF DropTriggerByHand, CopyInv, Agree
  <2>4. Frontier'
    BY <1>3 DEF DropTriggerByHand, CopyInv, Frontier, Bounded, InChunk, Synced,
         AllTriggers
  <2>5. Recorded'
    BY <1>3 DEF DropTriggerByHand, CopyInv, Recorded, AllTriggers, Synced
  <2> QED
    BY <2>1, <2>2, <2>3, <2>4, <2>5 DEF CopyInv
<1>4. ASSUME NEW m \in NewNames, DropNewByHand(m) PROVE CopyInv'
  <2>1. Lineage'
    BY <1>4 DEF DropNewByHand, CopyInv, Lineage, Working
  <2>2. Creation'
    BY <1>4 DEF DropNewByHand, CopyInv, Creation, AllTriggers, Copying
  <2>3. Agree'
    BY <1>4 DEF DropNewByHand, CopyInv, Agree
  <2>4. Frontier'
    BY <1>4 DEF DropNewByHand, CopyInv, Frontier, Bounded, InChunk, Synced, AllTriggers
  <2>5. Recorded'
    BY <1>4 DEF DropNewByHand, CopyInv, Recorded, AllTriggers, Synced
  <2> QED
    BY <2>1, <2>2, <2>3, <2>4, <2>5 DEF CopyInv
<1> QED
  BY <1>1, <1>2, <1>3, <1>4 DEF Operator

LEMMA PrepareCopyInv ==
  ASSUME Sound, TypeInv, CopyInv, Prepare PROVE CopyInv'
<1>1. CASE CreateNewTable
  <2>a. /\ n' \in NewNames /\ new' = [new EXCEPT ![n'] = Empty] /\ new \in [NewNames -> Rows \cup {NoTable}]
        /\ trig' = trig /\ created' = created /\ oktorun' = oktorun /\ \A e \in Events : trig[e] = None
    BY <1>1 DEF CreateNewTable, FirstOf, TypeInv, TypeOK, ServerTypes, CopyInv, Creation
  <2>b. job \in 1..MaxJobs /\ MaxJobs \in Nat /\ hist \in Histories /\ fresh \in Nat
    BY <1>1, JobsAssumption DEF CreateNewTable, TypeInv, TypeOK, ServerTypes, RunTypes,
         Tables
  <2>1. Lineage'
    <3>a. /\ pc = "create" /\ pc' = "alter_new_table" /\ fresh' = fresh /\ job' = job
          /\ DOMAIN hist = 1..MaxJobs
      BY <1>1, <2>b DEF CreateNewTable, Histories
    <3>1. \A j \in fresh..job : hist'[j].new \in {None, n'} /\ hist'[j].ub = None
      BY <1>1, <2>b, <3>a DEF CreateNewTable, Histories, CopyInv, Lineage
    <3>2. \A e \in Events : trig'[e] \in {None, n'}
      BY <2>a
    <3>0. ~hist[job].done
      BY <3>a DEF CopyInv, Lineage, Working
    <3>3. ~hist'[job].done
      BY <1>1, <2>b, <3>0 DEF CreateNewTable, Histories
    <3> QED
      BY <3>a, <3>1, <3>2, <3>3 DEF Lineage, Working
  <2>2. Creation'
    BY <1>1, <2>a DEF CreateNewTable, CopyInv, Creation, AllTriggers, Copying
  <2>3. Agree'
    BY <1>1, <2>a DEF CreateNewTable, Events, CopyInv, Agree
  <2>4. Frontier'
    BY <1>1 DEF CreateNewTable, CopyInv, Frontier, Bounded, InChunk, Synced, AllTriggers
  <2>5. Recorded'
    BY <1>1, <2>a DEF CreateNewTable, Events, CopyInv, Recorded, AllTriggers, Synced
  <2> QED
    BY <2>1, <2>2, <2>3, <2>4, <2>5 DEF CopyInv
<1>2. CASE NoNameLeft
  <2>1. Lineage'
    BY <1>2 DEF NoNameLeft, CopyInv, Lineage, Working
  <2>2. Creation'
    BY <1>2 DEF NoNameLeft, CopyInv, Creation, AllTriggers, Copying
  <2>3. Agree'
    BY <1>2 DEF NoNameLeft, CopyInv, Agree
  <2>4. Frontier'
    BY <1>2 DEF NoNameLeft, CopyInv, Frontier, Bounded, InChunk, Synced, AllTriggers
  <2>5. Recorded'
    BY <1>2 DEF NoNameLeft, CopyInv, Recorded, AllTriggers, Synced
  <2> QED
    BY <2>1, <2>2, <2>3, <2>4, <2>5 DEF CopyInv
<1>3. CASE AlterNewTable
  <2>1. Lineage'
    BY <1>3 DEF AlterNewTable, CopyInv, Lineage, Working
  <2>2. Creation'
    BY <1>3 DEF AlterNewTable, CopyInv, Creation, AllTriggers, Copying
  <2>3. Agree'
    BY <1>3 DEF AlterNewTable, CopyInv, Agree
  <2>4. Frontier'
    BY <1>3 DEF AlterNewTable, CopyInv, Frontier, Bounded, InChunk, Synced, AllTriggers
  <2>5. Recorded'
    BY <1>3 DEF AlterNewTable, CopyInv, Recorded, AllTriggers, Synced
  <2> QED
    BY <2>1, <2>2, <2>3, <2>4, <2>5 DEF CopyInv
<1>4. CASE CreateTrigger
  <2>a. n \in NewNames /\ n # None /\ trig \in [Events -> NewNames \cup {None}] /\ created \subseteq Events
    BY <1>4, NamesAssumption, ValuesAssumption DEF CreateTrigger, TypeInv, TypeOK,
         ServerTypes, RunTypes, Tables, NewTableThere, Working
  <2>1. Lineage'
    BY <1>4 DEF CreateTrigger, NextTrigger, CopyInv, Lineage, Working
  <2>2. Creation'
    BY <1>4, <2>a DEF CreateTrigger, NextTrigger, Events, CopyInv, Creation,
         AllTriggers, Copying
  <2>3. Agree'
    BY <1>4, <2>a, EmptyTable DEF CreateTrigger, NextTrigger, Events, Creation, Empty,
         CopyInv, Agree
  <2>4. Frontier'
    BY <1>4 DEF CreateTrigger, NextTrigger, CopyInv, Frontier, Bounded, InChunk,
         Synced, AllTriggers
  <2>5. Recorded'
    BY <1>4 DEF CreateTrigger, NextTrigger, Lineage, CopyInv, Recorded, AllTriggers,
         Synced
  <2> QED
    BY <2>1, <2>2, <2>3, <2>4, <2>5 DEF CopyInv
<1>5. CASE CreateTriggerFails
  <2>1. Lineage'
    BY <1>5 DEF CreateTriggerFails, Die, CopyInv, Lineage, Working
  <2>2. Creation'
    BY <1>5 DEF CreateTriggerFails, Die, CopyInv, Creation, AllTriggers, Copying
  <2>3. Agree'
    BY <1>5 DEF CreateTriggerFails, Die, CopyInv, Agree
  <2>4. Frontier'
    BY <1>5 DEF CreateTriggerFails, Die, CopyInv, Frontier, Bounded, InChunk, Synced,
         AllTriggers
  <2>5. Recorded'
    BY <1>5 DEF CreateTriggerFails, Die, CopyInv, Recorded, AllTriggers, Synced
  <2> QED
    BY <2>1, <2>2, <2>3, <2>4, <2>5 DEF CopyInv
<1>6. CASE TriggersCreated
  <2>1. Lineage'
    BY <1>6 DEF TriggersCreated, CopyInv, Lineage, Working
  <2>2. Creation'
    BY <1>6 DEF TriggersCreated, CopyInv, Creation, AllTriggers, Copying
  <2>3. Agree'
    BY <1>6 DEF TriggersCreated, CopyInv, Agree
  <2>4. Frontier'
    BY <1>6 DEF TriggersCreated, CopyInv, Frontier, Bounded, InChunk, Synced,
         AllTriggers
  <2>5. Recorded'
    BY <1>6 DEF TriggersCreated, CopyInv, Recorded, AllTriggers, Synced
  <2> QED
    BY <2>1, <2>2, <2>3, <2>4, <2>5 DEF CopyInv
<1>7. CASE CheckTriggers
  <2>1. Lineage'
    BY <1>7 DEF CheckTriggers, Die, CopyInv, Lineage, Working
  <2>2. Creation'
    BY <1>7 DEF CheckTriggers, Die, CopyInv, Creation, AllTriggers, Copying
  <2>3. Agree'
    BY <1>7 DEF CheckTriggers, Die, CopyInv, Agree
  <2>4. Frontier'
    BY <1>7 DEF CheckTriggers, Die, CopyInv, Frontier, Bounded, InChunk, Synced,
         AllTriggers
  <2>5. Recorded'
    BY <1>7 DEF CheckTriggers, Die, CopyInv, Recorded, AllTriggers, Synced
  <2> QED
    BY <2>1, <2>2, <2>3, <2>4, <2>5 DEF CopyInv
<1> QED
  BY <1>1, <1>2, <1>3, <1>4, <1>5, <1>6, <1>7 DEF Prepare

LEMMA CopyCopyInv ==
  ASSUME Sound, TypeInv, CopyInv, Copy PROVE CopyInv'
<1>1. CASE GetBoundsOneNibble
  <2>1. Lineage'
    BY <1>1 DEF GetBoundsOneNibble, Sound, CopyInv, Lineage, Working
  <2>2. Creation'
    BY <1>1 DEF GetBoundsOneNibble, Sound, CopyInv, Creation, AllTriggers, Copying
  <2>3. Agree'
    BY <1>1 DEF GetBoundsOneNibble, Sound, CopyInv, Agree
  <2>4. Frontier'
    BY <1>1 DEF GetBoundsOneNibble, Sound, CopyInv, Frontier, Bounded, InChunk, Synced,
         AllTriggers
  <2>5. Recorded'
    BY <1>1 DEF GetBoundsOneNibble, Sound, CopyInv, Recorded, AllTriggers, Synced
  <2> QED
    BY <2>1, <2>2, <2>3, <2>4, <2>5 DEF CopyInv
<1>2. CASE GetBounds
  <2>a. /\ n \in NewNames /\ t \in Rows /\ new[n] \in Rows /\ Keys \subseteq Nat /\ None \notin Keys
        /\ new \in [NewNames -> Rows \cup {NoTable}] /\ new[n] # NoTable /\ AllTriggers
        /\ \A k \in Keys : new[n][k] \in {t[k], Absent}
    BY <1>2, WhileCopying DEF GetBounds, Copying
  <2>1. Lineage'
    BY <1>2 DEF GetBounds, CopyInv, Lineage, Working
  <2>2. Creation'
    BY <1>2 DEF GetBounds, CopyInv, Creation, AllTriggers, Copying
  <2>3. Agree'
    BY <1>2 DEF GetBounds, CopyInv, Agree
  <2>4. Frontier'
    <3>1. \A k \in Keys : t[k] = Absent => Synced(n, k)
      BY <2>a DEF Synced
    <3>2. pc' \in {"copied", "next_boundaries"} /\ UNCHANGED <<t, new, n>>
      BY <1>2 DEF GetBounds
    <3>3. CASE AllRows = {}
      BY <1>2, <3>1, <3>2, <3>3 DEF GetBounds, Frontier, AllRows, Synced
    <3>4. CASE AllRows # {} /\ from = None
      <4>1. /\ pc' = "next_boundaries" /\ noMore' = FALSE /\ nextLower' \in AllRows
            /\ \A k \in Keys : k < nextLower' => t[k] = Absent
        <5>1. /\ pc' = "next_boundaries" /\ noMore' = FALSE /\ nextLower' \in FirstOf(AllRows)
          BY <1>2, <3>4 DEF GetBounds
        <5> QED
          BY <5>1, FirstIs DEF AllRows
      <4> QED
        BY <3>1, <3>2, <4>1 DEF Frontier, Synced, AllRows
    <3>5. CASE AllRows # {} /\ from # None
      <4>1. pc' = "next_boundaries" /\ \A k \in Keys : k <= from => Synced(n, k)
        BY <1>2, <2>a, <3>5 DEF GetBounds, CopyInv, Frontier
      <4>2. \A k \in Keys : k <= from \/ k > from
        BY <2>a, <3>5 DEF TypeInv, TypeOK, NibbleTypes
      <4>3. CASE RowsAfter(from) = {}
        BY <1>2, <3>1, <3>2, <3>5, <4>1, <4>2, <4>3
           DEF GetBounds, Frontier, RowsAfter, Synced
      <4>4. CASE RowsAfter(from) # {}
        <5>1. /\ noMore' = FALSE /\ nextLower' \in Keys
              /\ \A k \in Keys : from < k /\ k < nextLower' => t[k] = Absent
          <6>1. noMore' = FALSE /\ nextLower' \in FirstOf(RowsAfter(from))
            BY <1>2, <3>5, <4>4 DEF GetBounds
          <6> QED
            BY <6>1, FirstIs DEF RowsAfter
        <5> QED
          BY <3>1, <3>2, <4>1, <4>2, <5>1 DEF Frontier, Synced
      <4> QED
        BY <4>3, <4>4
    <3> QED
      BY <3>3, <3>4, <3>5
  <2>5. Recorded'
    BY <1>2 DEF GetBounds, CopyInv, Recorded, AllTriggers, Synced
  <2> QED
    BY <2>1, <2>2, <2>3, <2>4, <2>5 DEF CopyInv
<1>3. CASE NoMoreBoundaries
  <2>1. Lineage'
    BY <1>3 DEF NoMoreBoundaries, CopyInv, Lineage, Working
  <2>2. Creation'
    BY <1>3 DEF NoMoreBoundaries, CopyInv, Creation, AllTriggers, Copying
  <2>3. Agree'
    BY <1>3 DEF NoMoreBoundaries, CopyInv, Agree
  <2>4. Frontier'
    BY <1>3 DEF NoMoreBoundaries, CopyInv, Frontier, Bounded, InChunk, Synced,
         AllTriggers
  <2>5. Recorded'
    BY <1>3 DEF NoMoreBoundaries, CopyInv, Recorded, AllTriggers, Synced
  <2> QED
    BY <2>1, <2>2, <2>3, <2>4, <2>5 DEF CopyInv
<1>4. CASE OneNibble
  <2>1. Lineage'
    BY <1>4 DEF OneNibble, CopyInv, Lineage, Working
  <2>2. Creation'
    BY <1>4 DEF OneNibble, CopyInv, Creation, AllTriggers, Copying
  <2>3. Agree'
    BY <1>4 DEF OneNibble, CopyInv, Agree
  <2>4. Frontier'
    BY <1>4 DEF OneNibble, CopyInv, Frontier, Bounded, InChunk, Synced, AllTriggers
  <2>5. Recorded'
    BY <1>4 DEF OneNibble, CopyInv, Recorded, AllTriggers, Synced
  <2> QED
    BY <2>1, <2>2, <2>3, <2>4, <2>5 DEF CopyInv
<1>5. CASE StopNibbling
  <2>1. Lineage'
    BY <1>5 DEF StopNibbling, CopyInv, Lineage, Working
  <2>2. Creation'
    BY <1>5 DEF StopNibbling, CopyInv, Creation, AllTriggers, Copying
  <2>3. Agree'
    BY <1>5 DEF StopNibbling, CopyInv, Agree
  <2>4. Frontier'
    BY <1>5 DEF StopNibbling, Creation, Copying, CopyInv, Frontier, Bounded, InChunk,
         Synced, AllTriggers
  <2>5. Recorded'
    BY <1>5 DEF StopNibbling, CopyInv, Recorded, AllTriggers, Synced
  <2> QED
    BY <2>1, <2>2, <2>3, <2>4, <2>5 DEF CopyInv
<1>6. ASSUME NEW size \in 1..MaxChunk, NextBoundaries(size) PROVE CopyInv'
  <2>a. /\ n \in NewNames /\ t \in Rows /\ new[n] \in Rows /\ Keys \subseteq Nat /\ None \notin Keys
        /\ new \in [NewNames -> Rows \cup {NoTable}] /\ new[n] # NoTable /\ AllTriggers
        /\ \A k \in Keys : new[n][k] \in {t[k], Absent}
    BY <1>6, WhileCopying DEF NextBoundaries, Copying
  <2>1. Lineage'
    BY <1>6 DEF NextBoundaries, CopyInv, Lineage, Working
  <2>2. Creation'
    BY <1>6 DEF NextBoundaries, CopyInv, Creation, AllTriggers, Copying
  <2>3. Agree'
    BY <1>6 DEF NextBoundaries, CopyInv, Agree
  <2>4. Frontier'
    <3>1. \A k \in Keys : t[k] = Absent => Synced(n, k)
      BY <2>a DEF Synced
    <3>2. /\ pc = "next_boundaries" /\ bite = FALSE /\ noMore = FALSE /\ nextLower \in Keys
          /\ \A k \in Keys : k < nextLower => Synced(n, k)
      BY <1>6 DEF NextBoundaries, CopyInv, Frontier, TypeInv, TypeOK, NibbleTypes
    <3>3. /\ bite' = FALSE /\ lower' = nextLower
          /\ UNCHANGED <<t, new, n>>
      BY <1>6, <3>2 DEF NextBoundaries
    <3>4. ASSUME NEW u \in RowsFrom(nextLower), upper' = u, pc' = "exec_nibble",
                 IF RowsAfter(u) = {}
                   THEN noMore' = TRUE /\ UNCHANGED nextLower
                   ELSE noMore' = FALSE /\ nextLower' \in FirstOf(RowsAfter(u))
          PROVE  Frontier'
      <4>1. u \in Keys
        BY DEF RowsFrom
      <4>2. CASE RowsAfter(u) = {}
        <5>1. \A k \in Keys : u < k => t[k] = Absent
          BY <4>2 DEF RowsAfter
        <5> QED
          BY <3>1, <3>2, <3>3, <3>4, <4>1, <4>2, <5>1 DEF Frontier, Bounded, Synced
      <4>3. CASE RowsAfter(u) # {}
        <5>1. /\ nextLower' \in Keys /\ noMore' = FALSE
              /\ \A k \in Keys : u < k /\ k < nextLower' => t[k] = Absent
          BY <3>4, <4>3, FirstIs DEF RowsAfter
        <5> QED
          BY <3>1, <3>2, <3>3, <3>4, <4>1, <5>1 DEF Frontier, Bounded, Synced
      <4> QED
        BY <4>2, <4>3
    <3>5. ASSUME pc' = "last_boundary" PROVE Frontier'
      BY <3>2, <3>3, <3>5 DEF Frontier, Synced
    <3> QED
      BY <1>6, <3>4, <3>5 DEF NextBoundaries
  <2>5. Recorded'
    BY <1>6 DEF NextBoundaries, CopyInv, Recorded, AllTriggers, Synced
  <2> QED
    BY <2>1, <2>2, <2>3, <2>4, <2>5 DEF CopyInv
<1>7. CASE ExecNibble
  <2>1. Lineage'
    BY <1>7 DEF ExecNibble, CopyInv, Lineage, Working
  <2>2. Creation'
    BY <1>7 DEF ExecNibble, CopyInv, Creation, AllTriggers, Copying
  <2>3. Agree'
    BY <1>7 DEF ExecNibble, CopyInv, Agree
  <2>4. Frontier'
    <3>1. /\ pc = "exec_nibble" /\ pc' = "insert" /\ (bite \/ upper \in Keys)
          /\ UNCHANGED <<t, new, n, bite, lower, upper, nextLower, noMore>>
      BY <1>7 DEF ExecNibble, TypeInv, TypeOK, NibbleTypes
    <3>2. Bounded /\ Bounded'
      BY <3>1 DEF CopyInv, Frontier, Bounded, Synced
    <3>3. \A k \in Keys : /\ InChunk(k) => chunk'[k] = t[k]
                          /\ ~InChunk(k) => chunk'[k] = Absent
      BY <1>7 DEF ExecNibble
    <3>4. \A k \in Keys : InChunk(k)' <=> InChunk(k)
      BY <3>1 DEF InChunk
    <3> QED
      BY <3>1, <3>2, <3>3, <3>4 DEF Frontier
  <2>5. Recorded'
    BY <1>7 DEF ExecNibble, CopyInv, Recorded, AllTriggers, Synced
  <2> QED
    BY <2>1, <2>2, <2>3, <2>4, <2>5 DEF CopyInv
<1>8. CASE NoUpperBoundary
  <2>1. Lineage'
    BY <1>8 DEF NoUpperBoundary, Die, CopyInv, Lineage, Working
  <2>2. Creation'
    BY <1>8 DEF NoUpperBoundary, Die, CopyInv, Creation, AllTriggers, Copying
  <2>3. Agree'
    BY <1>8 DEF NoUpperBoundary, Die, CopyInv, Agree
  <2>4. Frontier'
    BY <1>8 DEF NoUpperBoundary, Die, CopyInv, Frontier, Bounded, InChunk, Synced,
         AllTriggers
  <2>5. Recorded'
    BY <1>8 DEF NoUpperBoundary, Die, CopyInv, Recorded, AllTriggers, Synced
  <2> QED
    BY <2>1, <2>2, <2>3, <2>4, <2>5 DEF CopyInv
<1>9. CASE InsertChunk
  <2>a. /\ n \in NewNames /\ t \in Rows /\ new[n] \in Rows /\ Keys \subseteq Nat /\ None \notin Keys
        /\ new \in [NewNames -> Rows \cup {NoTable}] /\ new[n] # NoTable /\ AllTriggers
        /\ \A k \in Keys : new[n][k] \in {t[k], Absent}
    BY <1>9, WhileCopying DEF InsertChunk, Copying
  <2>b. /\ pc = "insert" /\ pc' = "history" /\ n' = n /\ t' = t
        /\ UNCHANGED <<trig, hist, job, fresh, bite, lower, upper, nextLower, noMore>>
        /\ new'[n] = [k \in Keys |-> IF new[n][k] = Absent THEN chunk[k] ELSE new[n][k]]
    BY <1>9, <2>a DEF InsertChunk, Rows
  <2>c. \A k \in Keys : /\ chunk[k] \in {t[k], Absent}
                        /\ InChunk(k) => Synced(n, k) \/ chunk[k] = t[k]
    BY <2>b DEF CopyInv, Frontier
  <2>d. \A k \in Keys : /\ new'[n][k] \in {t[k], Absent}
                        /\ Synced(n, k) => Synced(n, k)'
                        /\ InChunk(k) => Synced(n, k)'
    <3> TAKE k \in Keys
    <3>1. new'[n][k] = IF new[n][k] = Absent THEN chunk[k] ELSE new[n][k]
      BY <2>b
    <3>2. new[n][k] \in {t[k], Absent}
      BY <2>a
    <3> QED
      BY <2>b, <2>c, <3>1, <3>2 DEF Synced
  <2>1. Lineage'
    BY <1>9 DEF InsertChunk, CopyInv, Lineage, Working
  <2>2. Creation'
    BY <1>9 DEF InsertChunk, CopyInv, Creation, AllTriggers, Copying
  <2>3. Agree'
    BY <2>b, <2>d DEF Agree
  <2>4. Frontier'
    <3>1. Bounded /\ (bite \/ upper \in Keys)
      BY <2>b DEF CopyInv, Frontier
    <3>2. Bounded'
      BY <2>b, <2>d, <3>1 DEF Bounded
    <3>3. \A k \in Keys : InChunk(k)' <=> InChunk(k)
      BY <2>b DEF InChunk
    <3> QED
      BY <2>b, <2>d, <3>1, <3>2, <3>3 DEF Frontier
  <2>5. Recorded'
    BY <2>a, <2>b, <2>d DEF CopyInv, Recorded
  <2> QED
    BY <2>1, <2>2, <2>3, <2>4, <2>5 DEF CopyInv
<1>10. CASE RetryNibble
  <2>1. Lineage'
    BY <1>10 DEF RetryNibble, CopyInv, Lineage, Working
  <2>2. Creation'
    BY <1>10 DEF RetryNibble, CopyInv, Creation, AllTriggers, Copying
  <2>3. Agree'
    BY <1>10 DEF RetryNibble, CopyInv, Agree
  <2>4. Frontier'
    BY <1>10 DEF RetryNibble, CopyInv, Frontier, Bounded, InChunk, Synced, AllTriggers
  <2>5. Recorded'
    BY <1>10 DEF RetryNibble, CopyInv, Recorded, AllTriggers, Synced
  <2> QED
    BY <2>1, <2>2, <2>3, <2>4, <2>5 DEF CopyInv
<1>11. CASE NibbleFails
  <2>1. Lineage'
    BY <1>11 DEF NibbleFails, Die, CopyInv, Lineage, Working
  <2>2. Creation'
    BY <1>11 DEF NibbleFails, Die, CopyInv, Creation, AllTriggers, Copying
  <2>3. Agree'
    BY <1>11 DEF NibbleFails, Die, CopyInv, Agree
  <2>4. Frontier'
    BY <1>11 DEF NibbleFails, Die, CopyInv, Frontier, Bounded, InChunk, Synced,
         AllTriggers
  <2>5. Recorded'
    BY <1>11 DEF NibbleFails, Die, CopyInv, Recorded, AllTriggers, Synced
  <2> QED
    BY <2>1, <2>2, <2>3, <2>4, <2>5 DEF CopyInv
<1>12. CASE RecordChunk
  <2>a. /\ n \in NewNames /\ t \in Rows /\ new[n] \in Rows /\ Keys \subseteq Nat /\ None \notin Keys
        /\ new \in [NewNames -> Rows \cup {NoTable}] /\ new[n] # NoTable /\ AllTriggers
        /\ \A k \in Keys : new[n][k] \in {t[k], Absent}
    BY <1>12, WhileCopying DEF RecordChunk, Copying
  <2>1. Lineage'
    BY <1>12 DEF RecordChunk, CopyInv, Lineage, Working
  <2>2. Creation'
    BY <1>12 DEF RecordChunk, CopyInv, Creation, AllTriggers, Copying
  <2>3. Agree'
    BY <1>12 DEF RecordChunk, CopyInv, Agree
  <2>4. Frontier'
    BY <1>12 DEF RecordChunk, CopyInv, Frontier, Bounded, InChunk, Synced, AllTriggers
  <2>5. Recorded'
    <3> SUFFICES ASSUME NEW j \in fresh..job, hist'[j].ub # None, NEW k \in Keys,
                        k <= hist'[j].ub \/ hist'[j].done
                 PROVE  Synced(n, k)
      BY <1>12 DEF RecordChunk, Recorded, Synced
    <3>1. /\ job \in 1..MaxJobs /\ MaxJobs \in Nat /\ fresh \in Nat /\ hist \in Histories
          /\ ~hist[job].done /\ Bounded /\ (bite \/ upper \in Keys)
          /\ \A i \in Keys : InChunk(i) => Synced(n, i)
      BY <1>12, JobsAssumption DEF RecordChunk, TypeInv, TypeOK, ServerTypes, RunTypes,
           Tables,
         CopyInv, Lineage, Frontier, Working
    <3>2. CASE j = job
      <4>1. hist'[job].ub = (IF bite THEN None ELSE upper) /\ hist'[job].done = hist[job].done
        BY <1>12, <3>1 DEF RecordChunk, Histories
      <4>2. ~bite /\ upper \in Keys /\ lower \in Keys /\ k <= upper
        BY <3>1, <3>2, <4>1 DEF Bounded
      <4>3. k < lower \/ InChunk(k)
        BY <2>a, <4>2 DEF InChunk
      <4> QED
        BY <3>1, <4>2, <4>3 DEF Bounded
    <3>3. CASE j # job
      BY <1>12, <2>a, <3>1, <3>3 DEF RecordChunk, Histories, CopyInv, Recorded
    <3> QED
      BY <3>2, <3>3
  <2> QED
    BY <2>1, <2>2, <2>3, <2>4, <2>5 DEF CopyInv
<1>13. CASE AfterNibble
  <2>a. /\ n \in NewNames /\ t \in Rows /\ new[n] \in Rows /\ Keys \subseteq Nat /\ None \notin Keys
        /\ new \in [NewNames -> Rows \cup {NoTable}] /\ new[n] # NoTable /\ AllTriggers
        /\ \A k \in Keys : new[n][k] \in {t[k], Absent}
    BY <1>13, WhileCopying DEF AfterNibble, Copying
  <2>1. Lineage'
    BY <1>13 DEF AfterNibble, Sound, CopyInv, Lineage, Working
  <2>2. Creation'
    BY <1>13 DEF AfterNibble, Sound, CopyInv, Creation, AllTriggers, Copying
  <2>3. Agree'
    BY <1>13 DEF AfterNibble, Sound, CopyInv, Agree
  <2>4. Frontier'
    <3>1. /\ pc = "after_nibble" /\ pc' = "next_boundaries"
          /\ UNCHANGED <<t, new, n, bite, lower, upper, nextLower, noMore>>
      BY <1>13 DEF AfterNibble
    <3>2. /\ Bounded /\ (bite \/ upper \in Keys)
          /\ \A k \in Keys : InChunk(k) => Synced(n, k)
      BY <3>1 DEF CopyInv, Frontier
    <3>3. CASE bite
      BY <3>1, <3>2, <3>3 DEF Bounded, InChunk, Frontier, Synced
    <3>4. CASE ~bite
      <4>1. \A k \in Keys : k < lower \/ InChunk(k) \/ upper < k
        <5>1. lower \in Nat /\ upper \in Nat /\ \A k \in Keys : k \in Nat
          BY <2>a, <3>2, <3>4 DEF Bounded
        <5> QED
          BY <5>1 DEF InChunk
      <4> QED
        BY <3>1, <3>2, <3>4, <4>1 DEF Bounded, Frontier, Synced
    <3> QED
      BY <3>3, <3>4
  <2>5. Recorded'
    BY <1>13 DEF AfterNibble, Sound, CopyInv, Recorded, AllTriggers, Synced
  <2> QED
    BY <2>1, <2>2, <2>3, <2>4, <2>5 DEF CopyInv
<1>14. CASE CriticalLoad
  <2>1. Lineage'
    BY <1>14 DEF CriticalLoad, Die, CopyInv, Lineage, Working
  <2>2. Creation'
    BY <1>14 DEF CriticalLoad, Die, CopyInv, Creation, AllTriggers, Copying
  <2>3. Agree'
    BY <1>14 DEF CriticalLoad, Die, CopyInv, Agree
  <2>4. Frontier'
    BY <1>14 DEF CriticalLoad, Die, CopyInv, Frontier, Bounded, InChunk, Synced,
         AllTriggers
  <2>5. Recorded'
    BY <1>14 DEF CriticalLoad, Die, CopyInv, Recorded, AllTriggers, Synced
  <2> QED
    BY <2>1, <2>2, <2>3, <2>4, <2>5 DEF CopyInv
<1>15. CASE CopyDone
  <2>1. Lineage'
    BY <1>15 DEF CopyDone, CopyInv, Lineage, Working
  <2>2. Creation'
    BY <1>15 DEF CopyDone, CopyInv, Creation, AllTriggers, Copying
  <2>3. Agree'
    BY <1>15 DEF CopyDone, CopyInv, Agree
  <2>4. Frontier'
    BY <1>15 DEF CopyDone, CopyInv, Frontier, Bounded, InChunk, Synced, AllTriggers
  <2>5. Recorded'
    <3>1. /\ \A k \in Keys : Synced(n, k)
          /\ UNCHANGED <<t, new, n, trig, job, fresh>>
          /\ \A j \in fresh..job : hist'[j].ub # None => hist[j].ub # None
      BY <1>15, JobsAssumption DEF CopyDone, CopyInv, Frontier, TypeInv, TypeOK,
           ServerTypes,
         RunTypes, Histories
    <3> QED
      BY <3>1 DEF Recorded, Synced
  <2> QED
    BY <2>1, <2>2, <2>3, <2>4, <2>5 DEF CopyInv
<1>16. CASE LastBoundary
  <2>a. /\ n \in NewNames /\ t \in Rows /\ new[n] \in Rows /\ Keys \subseteq Nat /\ None \notin Keys
        /\ new \in [NewNames -> Rows \cup {NoTable}] /\ new[n] # NoTable /\ AllTriggers
        /\ \A k \in Keys : new[n][k] \in {t[k], Absent}
    BY <1>16, WhileCopying DEF LastBoundary, Copying
  <2>1. Lineage'
    BY <1>16 DEF LastBoundary, CopyInv, Lineage, Working
  <2>2. Creation'
    BY <1>16 DEF LastBoundary, CopyInv, Creation, AllTriggers, Copying
  <2>3. Agree'
    BY <1>16 DEF LastBoundary, CopyInv, Agree
  <2>4. Frontier'
    <3>1. \A k \in Keys : t[k] = Absent => Synced(n, k)
      BY <2>a DEF Synced
    <3>2. /\ pc' = "exec_nibble" /\ noMore' = TRUE /\ UNCHANGED <<t, new, n, bite, lower>>
          /\ ~bite /\ lower \in Keys /\ \A k \in Keys : k < lower => Synced(n, k)
      BY <1>16 DEF LastBoundary, CopyInv, Frontier
    <3>3. \A k \in Keys : upper' \in Keys /\ upper' < k => t[k] = Absent
      BY <1>16, <2>a DEF LastBoundary, AllRows, LastOf
    <3> QED
      BY <3>1, <3>2, <3>3 DEF Frontier, Bounded, Synced
  <2>5. Recorded'
    BY <1>16 DEF LastBoundary, CopyInv, Recorded, AllTriggers, Synced
  <2> QED
    BY <2>1, <2>2, <2>3, <2>4, <2>5 DEF CopyInv
<1> QED
  BY <1>1, <1>2, <1>3, <1>4, <1>5, <1>6, <1>7, <1>8, <1>9, <1>10, <1>11, <1>12, <1>13,
       <1>14, <1>15, <1>16 DEF Copy

LEMMA PutInPlaceCopyInv ==
  ASSUME Sound, TypeInv, CopyInv, PutInPlace PROVE CopyInv'
<1>1. CASE Copied
  <2>1. Lineage'
    BY <1>1 DEF Copied, CopyInv, Lineage, Working
  <2>2. Creation'
    BY <1>1 DEF Copied, CopyInv, Creation, AllTriggers, Copying
  <2>3. Agree'
    BY <1>1 DEF Copied, CopyInv, Agree
  <2>4. Frontier'
    BY <1>1 DEF Copied, CopyInv, Frontier, Bounded, InChunk, Synced, AllTriggers
  <2>5. Recorded'
    BY <1>1 DEF Copied, CopyInv, Recorded, AllTriggers, Synced
  <2> QED
    BY <2>1, <2>2, <2>3, <2>4, <2>5 DEF CopyInv
<1>2. CASE SwapTables
  <2>1. Lineage'
    BY <1>2 DEF SwapTables, Rename, CopyInv, Lineage, Working
  <2>2. Creation'
    BY <1>2 DEF SwapTables, Rename, CopyInv, Creation, AllTriggers, Copying
  <2>3. Agree'
    BY <1>2 DEF SwapTables, Rename, CopyInv, Agree
  <2>4. Frontier'
    BY <1>2 DEF SwapTables, Rename, CopyInv, Frontier, Bounded, InChunk, Synced,
         AllTriggers
  <2>5. Recorded'
    BY <1>2 DEF SwapTables, Rename, CopyInv, Recorded, AllTriggers, Synced
  <2> QED
    BY <2>1, <2>2, <2>3, <2>4, <2>5 DEF CopyInv
<1>3. CASE SwapUnacknowledged
  <2>1. Lineage'
    BY <1>3 DEF SwapUnacknowledged, Rename, Die, CopyInv, Lineage, Working
  <2>2. Creation'
    BY <1>3 DEF SwapUnacknowledged, Rename, Die, CopyInv, Creation, AllTriggers, Copying
  <2>3. Agree'
    BY <1>3 DEF SwapUnacknowledged, Rename, Die, CopyInv, Agree
  <2>4. Frontier'
    BY <1>3 DEF SwapUnacknowledged, Rename, Die, CopyInv, Frontier, Bounded, InChunk,
         Synced, AllTriggers
  <2>5. Recorded'
    BY <1>3 DEF SwapUnacknowledged, Rename, Die, CopyInv, Recorded, AllTriggers, Synced
  <2> QED
    BY <2>1, <2>2, <2>3, <2>4, <2>5 DEF CopyInv
<1>4. CASE SwapFails
  <2>1. Lineage'
    BY <1>4 DEF SwapFails, Die, CopyInv, Lineage, Working
  <2>2. Creation'
    BY <1>4 DEF SwapFails, Die, CopyInv, Creation, AllTriggers, Copying
  <2>3. Agree'
    BY <1>4 DEF SwapFails, Die, CopyInv, Agree
  <2>4. Frontier'
    BY <1>4 DEF SwapFails, Die, CopyInv, Frontier, Bounded, InChunk, Synced, AllTriggers
  <2>5. Recorded'
    BY <1>4 DEF SwapFails, Die, CopyInv, Recorded, AllTriggers, Synced
  <2> QED
    BY <2>1, <2>2, <2>3, <2>4, <2>5 DEF CopyInv
<1>5. CASE NoSwap
  <2>1. Lineage'
    BY <1>5 DEF NoSwap, CopyInv, Lineage, Working
  <2>2. Creation'
    BY <1>5 DEF NoSwap, CopyInv, Creation, AllTriggers, Copying
  <2>3. Agree'
    BY <1>5 DEF NoSwap, CopyInv, Agree
  <2>4. Frontier'
    BY <1>5 DEF NoSwap, CopyInv, Frontier, Bounded, InChunk, Synced, AllTriggers
  <2>5. Recorded'
    BY <1>5 DEF NoSwap, CopyInv, Recorded, AllTriggers, Synced
  <2> QED
    BY <2>1, <2>2, <2>3, <2>4, <2>5 DEF CopyInv
<1>6. CASE DropOrig
  <2>1. Lineage'
    BY <1>6 DEF DropOrig, CopyInv, Lineage, Working
  <2>2. Creation'
    BY <1>6 DEF DropOrig, CopyInv, Creation, AllTriggers, Copying
  <2>3. Agree'
    BY <1>6 DEF DropOrig, Events, CopyInv, Agree
  <2>4. Frontier'
    BY <1>6 DEF DropOrig, CopyInv, Frontier, Bounded, InChunk, Synced, AllTriggers
  <2>5. Recorded'
    BY <1>6 DEF DropOrig, Events, CopyInv, Recorded, AllTriggers, Synced
  <2> QED
    BY <2>1, <2>2, <2>3, <2>4, <2>5 DEF CopyInv
<1>7. CASE RenameNew
  <2>1. Lineage'
    BY <1>7 DEF RenameNew, CopyInv, Lineage, Working
  <2>2. Creation'
    BY <1>7 DEF RenameNew, CopyInv, Creation, AllTriggers, Copying
  <2>3. Agree'
    BY <1>7 DEF RenameNew, CopyInv, Agree
  <2>4. Frontier'
    BY <1>7 DEF RenameNew, CopyInv, Frontier, Bounded, InChunk, Synced, AllTriggers
  <2>5. Recorded'
    BY <1>7 DEF RenameNew, CopyInv, Recorded, AllTriggers, Synced
  <2> QED
    BY <2>1, <2>2, <2>3, <2>4, <2>5 DEF CopyInv
<1>8. CASE RenameNewUnacknowledged
  <2>1. Lineage'
    BY <1>8 DEF RenameNewUnacknowledged, Die, CopyInv, Lineage, Working
  <2>2. Creation'
    BY <1>8 DEF RenameNewUnacknowledged, Die, CopyInv, Creation, AllTriggers, Copying
  <2>3. Agree'
    BY <1>8 DEF RenameNewUnacknowledged, Die, CopyInv, Agree
  <2>4. Frontier'
    BY <1>8 DEF RenameNewUnacknowledged, Die, CopyInv, Frontier, Bounded, InChunk,
         Synced, AllTriggers
  <2>5. Recorded'
    BY <1>8 DEF RenameNewUnacknowledged, Die, CopyInv, Recorded, AllTriggers, Synced
  <2> QED
    BY <2>1, <2>2, <2>3, <2>4, <2>5 DEF CopyInv
<1>9. CASE DropSwapFails
  <2>1. Lineage'
    BY <1>9 DEF DropSwapFails, Die, CopyInv, Lineage, Working
  <2>2. Creation'
    BY <1>9 DEF DropSwapFails, Die, CopyInv, Creation, AllTriggers, Copying
  <2>3. Agree'
    BY <1>9 DEF DropSwapFails, Die, CopyInv, Agree
  <2>4. Frontier'
    BY <1>9 DEF DropSwapFails, Die, CopyInv, Frontier, Bounded, InChunk, Synced,
         AllTriggers
  <2>5. Recorded'
    BY <1>9 DEF DropSwapFails, Die, CopyInv, Recorded, AllTriggers, Synced
  <2> QED
    BY <2>1, <2>2, <2>3, <2>4, <2>5 DEF CopyInv
<1>10. CASE DropOldTable
  <2>1. Lineage'
    BY <1>10 DEF DropOldTable, Die, CopyInv, Lineage, Working
  <2>2. Creation'
    BY <1>10 DEF DropOldTable, Die, CopyInv, Creation, AllTriggers, Copying
  <2>3. Agree'
    BY <1>10 DEF DropOldTable, Die, CopyInv, Agree
  <2>4. Frontier'
    BY <1>10 DEF DropOldTable, Die, CopyInv, Frontier, Bounded, InChunk, Synced,
         AllTriggers
  <2>5. Recorded'
    BY <1>10 DEF DropOldTable, Die, CopyInv, Recorded, AllTriggers, Synced
  <2> QED
    BY <2>1, <2>2, <2>3, <2>4, <2>5 DEF CopyInv
<1>11. CASE DropOldFails
  <2>1. Lineage'
    BY <1>11 DEF DropOldFails, Die, CopyInv, Lineage, Working
  <2>2. Creation'
    BY <1>11 DEF DropOldFails, Die, CopyInv, Creation, AllTriggers, Copying
  <2>3. Agree'
    BY <1>11 DEF DropOldFails, Die, CopyInv, Agree
  <2>4. Frontier'
    BY <1>11 DEF DropOldFails, Die, CopyInv, Frontier, Bounded, InChunk, Synced,
         AllTriggers
  <2>5. Recorded'
    BY <1>11 DEF DropOldFails, Die, CopyInv, Recorded, AllTriggers, Synced
  <2> QED
    BY <2>1, <2>2, <2>3, <2>4, <2>5 DEF CopyInv
<1>12. CASE MarkSwapped
  <2>1. Lineage'
    BY <1>12 DEF MarkSwapped, CopyInv, Lineage, Working
  <2>2. Creation'
    BY <1>12 DEF MarkSwapped, CopyInv, Creation, AllTriggers, Copying
  <2>3. Agree'
    BY <1>12 DEF MarkSwapped, CopyInv, Agree
  <2>4. Frontier'
    BY <1>12 DEF MarkSwapped, CopyInv, Frontier, Bounded, InChunk, Synced, AllTriggers
  <2>5. Recorded'
    BY <1>12 DEF MarkSwapped, CopyInv, Recorded, AllTriggers, Synced
  <2> QED
    BY <2>1, <2>2, <2>3, <2>4, <2>5 DEF CopyInv
<1> QED
  BY <1>1, <1>2, <1>3, <1>4, <1>5, <1>6, <1>7, <1>8, <1>9, <1>10, <1>11, <1>12 DEF PutInPlace

LEMMA CleanUpCopyInv ==
  ASSUME Sound, TypeInv, CopyInv, CleanUp PROVE CopyInv'
<1>1. CASE DropTrigger
  <2>1. Lineage'
    BY <1>1 DEF DropTrigger, CopyInv, Lineage, Working
  <2>2. Creation'
    BY <1>1 DEF DropTrigger, CopyInv, Creation, AllTriggers, Copying
  <2>3. Agree'
    BY <1>1 DEF DropTrigger, CopyInv, Agree
  <2>4. Frontier'
    BY <1>1 DEF DropTrigger, CopyInv, Frontier, Bounded, InChunk, Synced, AllTriggers
  <2>5. Recorded'
    BY <1>1 DEF DropTrigger, CopyInv, Recorded, AllTriggers, Synced
  <2> QED
    BY <2>1, <2>2, <2>3, <2>4, <2>5 DEF CopyInv
<1>2. CASE DropTriggerFails
  <2>1. Lineage'
    BY <1>2 DEF DropTriggerFails, CopyInv, Lineage, Working
  <2>2. Creation'
    BY <1>2 DEF DropTriggerFails, CopyInv, Creation, AllTriggers, Copying
  <2>3. Agree'
    BY <1>2 DEF DropTriggerFails, CopyInv, Agree
  <2>4. Frontier'
    BY <1>2 DEF DropTriggerFails, CopyInv, Frontier, Bounded, InChunk, Synced,
         AllTriggers
  <2>5. Recorded'
    BY <1>2 DEF DropTriggerFails, CopyInv, Recorded, AllTriggers, Synced
  <2> QED
    BY <2>1, <2>2, <2>3, <2>4, <2>5 DEF CopyInv
<1>3. CASE TriggersCleaned
  <2>1. Lineage'
    BY <1>3 DEF TriggersCleaned, CopyInv, Lineage, Working
  <2>2. Creation'
    BY <1>3 DEF TriggersCleaned, CopyInv, Creation, AllTriggers, Copying
  <2>3. Agree'
    BY <1>3 DEF TriggersCleaned, CopyInv, Agree
  <2>4. Frontier'
    BY <1>3 DEF TriggersCleaned, CopyInv, Frontier, Bounded, InChunk, Synced,
         AllTriggers
  <2>5. Recorded'
    BY <1>3 DEF TriggersCleaned, CopyInv, Recorded, AllTriggers, Synced
  <2> QED
    BY <2>1, <2>2, <2>3, <2>4, <2>5 DEF CopyInv
<1>4. CASE CleanNewTable
  <2>1. Lineage'
    BY <1>4 DEF CleanNewTable, CopyInv, Lineage, Working
  <2>2. Creation'
    BY <1>4 DEF CleanNewTable, CopyInv, Creation, AllTriggers, Copying
  <2>3. Agree'
    BY <1>4 DEF CleanNewTable, CopyInv, Agree
  <2>4. Frontier'
    BY <1>4 DEF CleanNewTable, CopyInv, Frontier, Bounded, InChunk, Synced, AllTriggers
  <2>5. Recorded'
    BY <1>4 DEF CleanNewTable, CopyInv, Recorded, AllTriggers, Synced
  <2> QED
    BY <2>1, <2>2, <2>3, <2>4, <2>5 DEF CopyInv
<1>5. CASE Report
  <2>1. Lineage'
    BY <1>5 DEF Report, Quit, CopyInv, Lineage, Working
  <2>2. Creation'
    BY <1>5 DEF Report, Quit, CopyInv, Creation, AllTriggers, Copying
  <2>3. Agree'
    BY <1>5 DEF Report, Quit, CopyInv, Agree
  <2>4. Frontier'
    BY <1>5 DEF Report, Quit, CopyInv, Frontier, Bounded, InChunk, Synced, AllTriggers
  <2>5. Recorded'
    BY <1>5 DEF Report, Quit, CopyInv, Recorded, AllTriggers, Synced
  <2> QED
    BY <2>1, <2>2, <2>3, <2>4, <2>5 DEF CopyInv
<1> QED
  BY <1>1, <1>2, <1>3, <1>4, <1>5 DEF CleanUp

LEMMA StopCopyInv ==
  ASSUME Sound, TypeInv, CopyInv, SigInt \/ Crash PROVE CopyInv'
<1>1. CASE SigInt
  <2>1. Lineage'
    BY <1>1 DEF SigInt, Die, CopyInv, Lineage, Working
  <2>2. Creation'
    BY <1>1 DEF SigInt, Die, CopyInv, Creation, AllTriggers, Copying
  <2>3. Agree'
    BY <1>1 DEF SigInt, Die, CopyInv, Agree
  <2>4. Frontier'
    BY <1>1 DEF SigInt, Die, CopyInv, Frontier, Bounded, InChunk, Synced, AllTriggers
  <2>5. Recorded'
    BY <1>1 DEF SigInt, Die, CopyInv, Recorded, AllTriggers, Synced
  <2> QED
    BY <2>1, <2>2, <2>3, <2>4, <2>5 DEF CopyInv
<1>2. CASE Crash
  <2>1. Lineage'
    BY <1>2 DEF Crash, Quit, CopyInv, Lineage, Working
  <2>2. Creation'
    BY <1>2 DEF Crash, Quit, CopyInv, Creation, AllTriggers, Copying
  <2>3. Agree'
    BY <1>2 DEF Crash, Quit, CopyInv, Agree
  <2>4. Frontier'
    BY <1>2 DEF Crash, Quit, CopyInv, Frontier, Bounded, InChunk, Synced, AllTriggers
  <2>5. Recorded'
    BY <1>2 DEF Crash, Quit, CopyInv, Recorded, AllTriggers, Synced
  <2> QED
    BY <2>1, <2>2, <2>3, <2>4, <2>5 DEF CopyInv
<1> QED
  BY <1>1, <1>2

LEMMA CopyInvStep ==
  ASSUME Sound, TypeInv, CopyInv, [Next]_vars PROVE CopyInv'
<1>1. CASE UNCHANGED vars
  BY <1>1 DEF vars, CopyInv, Lineage, Creation, Agree, Frontier, Recorded, Bounded,
     InChunk, AllTriggers, Synced
<1> QED
  BY <1>1, AppWriteCopyInv, OperatorCopyInv, PrepareCopyInv, CopyCopyInv,
     PutInPlaceCopyInv, CleanUpCopyInv, StopCopyInv DEF Next, ToolStep

LEMMA CopyInvariant == ASSUME Sound PROVE Spec => [](TypeInv /\ CopyInv)
<1>1. TypeInv /\ CopyInv /\ [Next]_vars => (TypeInv /\ CopyInv)'
  BY CopyInvStep, TypeInvStep
<1> QED
  BY <1>1, TypeInvInit, CopyInvInit, PTL DEF Spec

-----------------------------------------------------------------------------
(* The theorems.                                                            *)

\* While the triggers are there, every row of the new table is the row of t.
THEOREM TriggersInSync == ASSUME Sound PROVE Spec => []InSync
<1>1. TypeInv /\ CopyInv => InSync
  <2> SUFFICES ASSUME TypeInv, CopyInv, AllTriggers, n # None, new[n] # NoTable,
                      NEW k \in Keys, new[n][k] # Absent
               PROVE  Synced(n, k)
    BY DEF InSync
  <2> QED
    BY DEF CopyInv, Agree, AllTriggers, Events, Synced
<1> QED
  BY <1>1, CopyInvariant, PTL

\* When the tool goes on to swap, the new table holds exactly the rows of t.
THEOREM SwapIsComplete == ASSUME Sound PROVE Spec => []SwapComplete
<1>1. TypeInv /\ CopyInv => SwapComplete
  BY DEF CopyInv, Frontier, SwapComplete
<1> QED
  BY <1>1, CopyInvariant, PTL

\* What the history records is enough to resume from.
THEOREM ResumePointHolds == ASSUME Sound PROVE Spec => []ResumePoint
<1>1. TypeInv /\ CopyInv => ResumePoint
  BY DEF CopyInv, Lineage, Recorded, ResumePoint
<1> QED
  BY <1>1, CopyInvariant, PTL
-----------------------------------------------------------------------------
(* The tool implements OnlineAlter: each of its steps is a step of the      *)
(* atomic alter or changes nothing the application can see.                 *)

\* What the application sees: Alter's two variables.
seen == <<IF t = NoTable THEN new[n] ELSE t,
          IF t = NoTable THEN "gone" ELSE IF altered THEN "new" ELSE "old">>

\* The table is not altered twice by one run.
Unaltered == pc \in Working \cup {"create", "drop_swap"} => ~altered

LEMMA UnalteredStep == Unaltered /\ [Next]_vars => Unaltered'
<1> SUFFICES ASSUME Unaltered, [Next]_vars PROVE Unaltered'
  OBVIOUS
<1> USE DEF Unaltered, Working
<1>1. CASE AppWrite
  BY <1>1 DEF AppWrite
<1>2. CASE Operator
  BY <1>2 DEF Operator, StartJob, ResumeJob, Launch, DropTriggerByHand, DropNewByHand
<1>3. CASE Prepare
  BY <1>3 DEF Prepare, CreateNewTable, NoNameLeft, AlterNewTable, CreateTrigger,
     CreateTriggerFails, TriggersCreated, CheckTriggers, Die
<1>4. CASE Copy
  BY <1>4 DEF Copy, GetBoundsOneNibble, GetBounds, NoMoreBoundaries, OneNibble,
     StopNibbling, NextBoundaries, LastBoundary, ExecNibble, NoUpperBoundary, InsertChunk,
     RetryNibble, NibbleFails, RecordChunk, AfterNibble, CriticalLoad, CopyDone, Die
<1>5. CASE PutInPlace
  BY <1>5 DEF PutInPlace, Copied, SwapTables, Rename, SwapUnacknowledged, SwapFails,
     NoSwap, DropOrig, RenameNew, RenameNewUnacknowledged, DropSwapFails,
     MarkSwapped, DropOldTable, DropOldFails, Die
<1>6. CASE CleanUp
  BY <1>6 DEF CleanUp, DropTrigger, DropTriggerFails, TriggersCleaned, CleanNewTable,
     Report, Quit
<1>7. CASE SigInt \/ Crash \/ UNCHANGED vars
  BY <1>7 DEF SigInt, Crash, Quit, Die, vars
<1> QED
  BY <1>1, <1>2, <1>3, <1>4, <1>5, <1>6, <1>7 DEF Next, ToolStep

\* A step that leaves t alone, and in an outage the new table too, is not seen.
LEMMA Silent ==
  ASSUME t' = t, altered' = altered, t = NoTable => new'[n'] = new[n]
  PROVE  UNCHANGED seen
BY DEF seen

LEMMA NoRows == ASSUME TypeInv PROVE t = NoTable <=> t \notin Rows
BY ValuesAssumption DEF TypeInv, TypeOK, ServerTypes, Rows

LEMMA AppWriteSeen == ASSUME TypeInv, AppWrite PROVE Alter!Next
<1>1. t \in Rows /\ t # NoTable
  BY NoRows DEF AppWrite
<1>2. t' \in Rows
  BY <1>1 DEF AppWrite, AppInsert, AppUpdate, AppDelete, Moved, Rows
<1>3. t' # NoTable
  BY <1>2, ValuesAssumption DEF Rows
<1>4. CASE \E k \in Keys, v \in Vals : AppInsert(k, v)
  <2>1. \E k \in Keys, v \in Vals : Alter!Insert(k, v)
    BY <1>1, <1>3, <1>4 DEF AppInsert, Alter!Insert
  <2> QED
    BY <2>1, <1>1, <1>3 DEF AppWrite, Alter!Write, Alter!Next
<1>5. CASE \E k, l \in Keys, v \in Vals : AppUpdate(k, l, v)
  <2>1. \E k, l \in Keys, v \in Vals : Alter!Update(k, l, v)
    BY <1>1, <1>3, <1>5 DEF AppUpdate, Moved, Alter!Update, Alter!Moved
  <2> QED
    BY <2>1, <1>1, <1>3 DEF AppWrite, Alter!Write, Alter!Next
<1>6. CASE \E k \in Keys : AppDelete(k)
  <2>1. \E k \in Keys : Alter!Delete(k)
    BY <1>1, <1>3, <1>6 DEF AppDelete, Alter!Delete
  <2> QED
    BY <2>1, <1>1, <1>3 DEF AppWrite, Alter!Write, Alter!Next
<1> QED
  BY <1>4, <1>5, <1>6 DEF AppWrite

\* At the swap the two tables are the same function.
LEMMA SameRows ==
  ASSUME TypeInv, CopyInv, pc = "swap" PROVE t \in Rows /\ new[n] = t
<1>1. t \in Rows
  BY NoRows DEF TypeInv, Tables, Outage
<1>2. new[n] \in Rows
  BY DEF TypeInv, TypeOK, ServerTypes, Tables, Working, NewTableThere
<1>3. \A k \in Keys : new[n][k] = t[k]
  BY DEF CopyInv, Frontier, Synced
<1> QED
  BY <1>1, <1>2, <1>3 DEF Rows

LEMMA PutInPlaceSeen ==
  ASSUME TypeInv, CopyInv, Unaltered, PutInPlace PROVE Alter!Next \/ UNCHANGED seen
<1>1. CASE SwapTables \/ SwapUnacknowledged
  <2>1. pc = "swap" /\ ~altered /\ Rename
    BY <1>1 DEF SwapTables, SwapUnacknowledged, Unaltered, Working
  <2>2. t \in Rows /\ t # NoTable /\ t' = t /\ altered'
    BY <2>1, SameRows, NoRows DEF Rename
  <2> QED
    BY <2>1, <2>2 DEF Alter!Swap, Alter!Next
<1>2. CASE DropOrig
  <2>1. pc = "swap" /\ ~altered /\ t' = NoTable /\ new'[n'] = new[n]
    BY <1>2 DEF DropOrig, Unaltered, Working
  <2>2. t \in Rows /\ t # NoTable /\ new[n] = t
    BY <2>1, SameRows, NoRows
  <2> QED
    BY <2>1, <2>2 DEF Alter!Vanish, Alter!Next
<1>3. CASE RenameNew \/ RenameNewUnacknowledged
  <2>1. pc = "drop_swap" /\ t' = new[n] /\ altered'
    BY <1>3 DEF RenameNew, RenameNewUnacknowledged
  <2>2. t = NoTable /\ new[n] # NoTable
    BY <2>1 DEF TypeInv, Tables, Outage, NewTableThere
  <2> QED
    BY <2>1, <2>2 DEF Alter!Return, Alter!Next
<1>4. CASE Copied \/ SwapFails \/ NoSwap \/ DropSwapFails \/ MarkSwapped \/ DropOldTable \/ DropOldFails
  BY <1>4, Silent DEF Copied, SwapFails, NoSwap, DropSwapFails, MarkSwapped, DropOldTable, DropOldFails
<1> QED
  BY <1>1, <1>2, <1>3, <1>4 DEF PutInPlace

\* Neither the copy nor the preparations run in an outage, and what runs then
\* leaves the new table alone.
LEMMA OthersSilent ==
  ASSUME TypeInv, Operator \/ Prepare \/ Copy \/ CleanUp \/ SigInt \/ Crash
  PROVE  UNCHANGED seen
<1>1. CASE Operator
  BY <1>1, Silent DEF Operator, StartJob, ResumeJob, Launch, DropTriggerByHand, DropNewByHand
<1>2. CASE Prepare
  <2>1. t # NoTable
    BY <1>2 DEF TypeInv, Tables, Outage, Prepare, CreateNewTable, NoNameLeft,
       AlterNewTable, CreateTrigger, CreateTriggerFails, TriggersCreated, CheckTriggers
  <2> QED
    BY <1>2, <2>1, Silent DEF Prepare, CreateNewTable, NoNameLeft,
       AlterNewTable, CreateTrigger, CreateTriggerFails, TriggersCreated, CheckTriggers
<1>3. CASE Copy
  <2>1. t # NoTable
    BY <1>3 DEF TypeInv, Tables, Outage, Copy, GetBoundsOneNibble, GetBounds,
       NoMoreBoundaries, OneNibble, StopNibbling, NextBoundaries, LastBoundary, ExecNibble,
       NoUpperBoundary, InsertChunk, RetryNibble, NibbleFails, RecordChunk,
       AfterNibble, CriticalLoad, CopyDone
  <2>2. t' = t /\ altered' = altered
    BY <1>3 DEF Copy, GetBoundsOneNibble, GetBounds, NoMoreBoundaries, OneNibble,
       StopNibbling, NextBoundaries, LastBoundary, ExecNibble, NoUpperBoundary, InsertChunk,
       RetryNibble, NibbleFails, RecordChunk, AfterNibble, CriticalLoad, CopyDone
  <2> QED
    BY <2>1, <2>2, Silent
<1>4. CASE CleanNewTable
  <2>1. t = NoTable => ~oktorun
    BY <1>4 DEF CleanNewTable, TypeInv, Tables, Outage
  <2> QED
    BY <1>4, <2>1, Silent DEF CleanNewTable, KeepNewTable
<1>5. CASE DropTrigger \/ DropTriggerFails \/ TriggersCleaned \/ Report
  BY <1>5, Silent DEF DropTrigger, DropTriggerFails, TriggersCleaned, Report, Quit
<1>6. CASE SigInt \/ Crash
  BY <1>6, Silent DEF SigInt, Crash, Quit
<1> QED
  BY <1>1, <1>2, <1>3, <1>4, <1>5, <1>6 DEF CleanUp

LEMMA AtomicStep ==
  ASSUME TypeInv, CopyInv, Unaltered, [Next]_vars PROVE [Alter!Next]_seen
<1>1. CASE AppWrite
  BY <1>1, AppWriteSeen
<1>2. CASE PutInPlace
  BY <1>2, PutInPlaceSeen
<1>3. CASE Operator \/ Prepare \/ Copy \/ CleanUp \/ SigInt \/ Crash
  BY <1>3, OthersSilent
<1>4. CASE UNCHANGED vars
  BY <1>4, Silent DEF vars
<1> QED
  BY <1>1, <1>2, <1>3, <1>4 DEF Next, ToolStep

LEMMA AtomicInit == Init => Alter!Init
<1> SUFFICES ASSUME Init PROVE Alter!Init
  OBVIOUS
<1>1. t \in Rows /\ t # NoTable
  BY ValuesAssumption DEF Init, Rows
<1> QED
  BY <1>1 DEF Init, Alter!Init, Alter!Rows, Rows

\* The application sees one atomic alter, whatever the tool, its failures and
\* the operator do between its writes.
THEOREM ImplementsAlter == ASSUME Sound PROVE Spec => Atomic
<1>1. Init => Unaltered
  BY DEF Init, Unaltered, Working
<1>2. Spec => []Unaltered
  BY <1>1, UnalteredStep, PTL DEF Spec
<1>3. TypeInv /\ CopyInv /\ Unaltered /\ [Next]_vars => [Alter!Next]_seen
  BY AtomicStep
<1>4. Spec => Alter!Init /\ [][Alter!Next]_seen
  BY <1>2, <1>3, AtomicInit, CopyInvariant, PTL DEF Spec
<1> QED
  BY <1>4, PTL DEF Atomic, Alter!Spec, seen
=============================================================================
