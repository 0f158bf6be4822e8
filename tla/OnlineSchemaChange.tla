------------------------ MODULE OnlineSchemaChange ------------------------
(***************************************************************************)
(* bin/pt-online-schema-change: one table altered through a shadow copy.   *)
(*                                                                         *)
(* The server keeps the table the application uses (t), the shadow tables  *)
(* the tool created (new), the renamed original (old), the tool's three    *)
(* triggers on t (trig) and the --history rows (hist).  The application    *)
(* writes to t at any moment; every write and the trigger it fires are one *)
(* InnoDB statement.  The tool is one process at a time: it creates the    *)
(* new table, the triggers, copies t in chunks (NibbleIterator), renames   *)
(* and cleans up.  It may fail at each statement, be interrupted (SIGINT)  *)
(* or die, and be started again, from scratch or with --resume.            *)
(*                                                                         *)
(* A chunk's INSERT ... SELECT is two steps, the locking read and the      *)
(* write; a statement that fails is rolled back.  Keys are unique.         *)
(***************************************************************************)
EXTENDS Integers, FiniteSets

CONSTANTS Keys, Vals,      \* keys (chunk index values) and the rest of a row
          NewNames,        \* shadow table names: 1 is _t_new, 2 is __t_new ...
          MaxJobs,         \* bound: runs of the tool
          MaxChunk,        \* bound: --chunk-size, which --chunk-time varies
          MaxTries,        \* --tries copy_rows
          Options,         \* the option combinations a run may be given
          Absent, NoTable, None,
          CarefulOperator, \* only jobs of the latest from-scratch run are resumed
          ResumeBites,     \* a resumed job may fit in one chunk by row estimate
          PluginStops,     \* the plugin's get_replica_lag clears $oktorun
          LostAcks         \* a RENAME may succeed although the client sees an error

ASSUME KeysAssumption == Keys \subseteq Nat /\ IsFiniteSet(Keys)
ASSUME NamesAssumption == NewNames \subseteq Nat
ASSUME JobsAssumption == MaxJobs \in Nat /\ MaxTries \in Nat
ASSUME ValuesAssumption == /\ Absent \notin Vals
                           /\ NoTable \notin [Keys -> Vals \cup {Absent}]
                           /\ None \notin Nat

\* What option parsing leaves: how the new table takes t's place (swap), and
\* --[no]drop-new-table, --[no]drop-triggers and --[no]drop-old-table.
LegalOptions ==
  {o \in [swap : {"rename", "drop_swap", "none"}, dropNew : BOOLEAN,
          dropTriggers : BOOLEAN, dropOld : BOOLEAN] :
     /\ o.dropOld => o.dropTriggers /\ o.swap = "rename"
     /\ o.swap = "none" /\ ~o.dropTriggers => ~o.dropNew}

ASSUME OptionsAssumption == Options \subseteq LegalOptions

VARIABLES
  t, altered,      \* the table named t (or NoTable); does it have the new definition
  new, old,        \* the shadow tables by name; does the renamed original exist
  trig,            \* event -> shadow table the trigger on t writes to, or None
  hist,            \* pt_osc_history
  pc, job, fresh,  \* the tool's next step, its job id, the latest from-scratch job
  opt, n,          \* this run's options; its $new_tbl
  oktorun, copied, swapped, notDropped, created, said,
  from, bite, lower, upper, nextLower, noMore, chunk, tryno

server == <<t, altered, new, old, trig>>
flags  == <<oktorun, copied, swapped, notDropped, said>>
nibble == <<from, bite, lower, upper, nextLower, noMore, chunk, tryno>>
run    == <<job, fresh, opt, n>>
vars   == <<server, hist, pc, run, flags, created, nibble>>

Events == {"del", "upd", "ins"}
Rows   == [Keys -> Vals \cup {Absent}]
Empty  == [k \in Keys |-> Absent]

Moved(r, k, l, v) == [r EXCEPT ![k] = Absent, ![l] = v]

RowsFrom(k)  == {j \in Keys : t[j] # Absent /\ k <= j}
RowsAfterMutant(k) == RowsFrom(k)   \* mutant: >= for >
RowsAfter(k) == {j \in Keys : t[j] # Absent /\ k < j}
AllRows      == {j \in Keys : t[j] # Absent}

\* ORDER BY key LIMIT 1 and its descending form: at most one row.
FirstOf(S) == {k \in S : \A j \in S : k <= j}
LastOf(S)  == {k \in S : \A j \in S : j <= k}

-----------------------------------------------------------------------------
(* The application.  A trigger whose table is missing does nothing (its     *)
(* handler for error 1146); the chunk being copied is locked in share mode. *)

Fires(e) == trig[e] # None /\ new[trig[e]] # NoTable
LockedMutant(k) == FALSE   \* mutant: no LOCK IN SHARE MODE
Locked(k) == pc = "insert" /\ chunk[k] # Absent
Tool == <<hist, pc, run, flags, created, nibble>>

AppInsert(k, v) ==
  /\ t[k] = Absent
  /\ t' = [t EXCEPT ![k] = v]
  /\ new' = IF Fires("ins") THEN [new EXCEPT ![trig["ins"]] = [@ EXCEPT ![k] = v]]
                            ELSE new

\* Mutant: the update trigger only replaces, the row's old key stays behind.
AppUpdateMutant(k, l, v) ==
  /\ t[k] # Absent /\ ~Locked(k)
  /\ l = k \/ t[l] = Absent
  /\ t' = Moved(t, k, l, v)
  /\ new' = IF Fires("upd") THEN [new EXCEPT ![trig["upd"]] = [@ EXCEPT ![l] = v]]
                            ELSE new

AppUpdate(k, l, v) ==
  /\ t[k] # Absent /\ ~Locked(k)
  /\ l = k \/ t[l] = Absent
  /\ t' = Moved(t, k, l, v)
  /\ new' = IF Fires("upd") THEN [new EXCEPT ![trig["upd"]] = Moved(@, k, l, v)]
                            ELSE new

AppDelete(k) ==
  /\ t[k] # Absent /\ ~Locked(k)
  /\ t' = [t EXCEPT ![k] = Absent]
  /\ new' = IF Fires("del") THEN [new EXCEPT ![trig["del"]] = [@ EXCEPT ![k] = Absent]]
                            ELSE new

AppWrite == /\ t # NoTable
            /\ \/ \E k \in Keys, v \in Vals : AppInsert(k, v)
               \/ \E k, l \in Keys, v \in Vals : AppUpdate(k, l, v)
               \/ \E k \in Keys : AppDelete(k)
            /\ UNCHANGED <<altered, old, trig, Tool>>
-----------------------------------------------------------------------------
(* The operator, between runs.                                              *)

NoJob == [new |-> None, ub |-> None, done |-> FALSE]

\* A new process: globals and locals at their initial values.
Launch(o, next) ==
  /\ pc = "idle" /\ job < MaxJobs
  /\ job' = job + 1 /\ opt' = o /\ pc' = next
  /\ oktorun' = TRUE /\ said' = "nothing" /\ created' = {}
  /\ copied' = FALSE /\ swapped' = FALSE /\ notDropped' = FALSE
  /\ bite' = FALSE /\ lower' = None /\ upper' = None /\ nextLower' = None
  /\ noMore' = FALSE /\ chunk' = Empty /\ tryno' = 1
  /\ UNCHANGED server

\* check_orig_table: t must exist and have no triggers, unless --resume.
StartJob ==
  /\ t # NoTable /\ ~altered /\ \A e \in Events : trig[e] = None
  /\ \E o \in Options : Launch(o, "create")
  /\ fresh' = job + 1 /\ n' = None /\ from' = None
  /\ hist' = [hist EXCEPT ![job + 1] = NoJob]

\* --resume=j: the job has boundaries, is not done, its new table exists.
ResumeJob(j) ==
  /\ t # NoTable /\ ~altered
  /\ hist[j].new # None /\ hist[j].ub # None /\ ~hist[j].done
  /\ new[hist[j].new] # NoTable
  /\ CarefulOperator => j >= fresh
  /\ \E o \in Options : Launch(o, "check_triggers")
  /\ n' = hist[j].new /\ from' = hist[j].ub /\ UNCHANGED fresh
  /\ hist' = [hist EXCEPT ![job + 1] = [NoJob EXCEPT !.new = hist[j].new]]

\* The statements the interrupted tool printed: triggers, then new table.
DropTriggerByHand(e) ==
  /\ pc = "idle" /\ trig[e] # None
  /\ trig' = [trig EXCEPT ![e] = None]
  /\ UNCHANGED <<t, altered, new, old, Tool>>

DropNewByHand(m) ==
  /\ pc = "idle" /\ t # NoTable /\ new[m] # NoTable
  /\ \A e \in Events : trig[e] # m
  /\ new' = [new EXCEPT ![m] = NoTable]
  /\ UNCHANGED <<t, altered, old, trig, Tool>>

Operator == \/ StartJob
            \/ \E j \in 1..job : ResumeJob(j)
            \/ \E e \in Events : DropTriggerByHand(e)
            \/ \E m \in NewNames : DropNewByHand(m)
-----------------------------------------------------------------------------
(* Steps 1 to 3: new table and triggers.                                    *)

\* A die or _die with the process's flags as they are: run the cleanup tasks.
Die == pc' = "clean_triggers"

\* The first name, one more underscore each, that does not exist yet.
CreateNewTable ==
  /\ pc = "create"
  /\ n' \in FirstOf({m \in NewNames : new[m] = NoTable})
  /\ new' = [new EXCEPT ![n'] = Empty]
  /\ hist' = [hist EXCEPT ![job].new = n']
  /\ pc' = "alter_new_table"
  /\ UNCHANGED <<t, altered, old, trig, job, fresh, opt, flags, created, nibble>>

\* Every candidate name is taken.
NoNameLeft ==
  /\ pc = "create" /\ \A m \in NewNames : new[m] # NoTable
  /\ pc' = "report"
  /\ UNCHANGED <<server, hist, run, flags, created, nibble>>

\* ALTER TABLE new: bad alter statements die here, with nothing to lose.
AlterNewTable ==
  /\ pc = "alter_new_table"
  /\ pc' \in {"create_triggers", "clean_new"}
  /\ UNCHANGED <<server, hist, run, flags, created, nibble>>

\* Mutant: the insert trigger first.
NextTriggerMutant == IF "ins" \notin created THEN "ins"
                     ELSE IF "upd" \notin created THEN "upd" ELSE "del"

\* The triggers are created in the order del, upd, ins.
NextTrigger == IF "del" \notin created THEN "del"
               ELSE IF "upd" \notin created THEN "upd" ELSE "ins"

CreateTrigger ==
  /\ pc = "create_triggers" /\ created # Events
  /\ trig' = [trig EXCEPT ![NextTrigger] = n]
  /\ created' = created \cup {NextTrigger}
  /\ UNCHANGED <<t, altered, new, old, hist, pc, run, flags, nibble>>

\* CREATE TRIGGER fails for good: $oktorun = undef, so nothing is undone.
CreateTriggerFails ==
  /\ pc = "create_triggers" /\ created # Events
  /\ oktorun' = FALSE /\ Die
  /\ UNCHANGED <<server, hist, run, copied, swapped, notDropped, said,
                 created, nibble>>

TriggersCreated ==
  /\ pc = "create_triggers" /\ created = Events
  /\ pc' = "get_bounds"
  /\ UNCHANGED <<server, hist, run, flags, created, nibble>>

\* --resume creates no trigger but requires all three, by name.
CheckTriggers ==
  /\ pc = "check_triggers"
  /\ created' = Events
  /\ IF \A e \in Events : trig[e] # None
       THEN pc' = "get_bounds" /\ UNCHANGED oktorun
       ELSE oktorun' = FALSE /\ Die
  /\ UNCHANGED <<server, hist, run, copied, swapped, notDropped, said, nibble>>
-----------------------------------------------------------------------------
(* Step 4: NibbleIterator.                                                  *)

\* can_nibble and _get_bounds: the whole table in one chunk.
GetBoundsOneNibble ==
  /\ pc = "get_bounds"
  /\ from # None => ResumeBites
  /\ bite' = TRUE /\ noMore' = (from # None)
  /\ pc' = "next_boundaries"
  /\ UNCHANGED <<server, hist, run, flags, created, from, lower, upper, nextLower,
                 chunk, tryno>>

GetBounds ==
  /\ pc = "get_bounds"
  /\ LET rest == IF from = None THEN AllRows ELSE RowsAfter(from)
     IN IF rest = {} THEN noMore' = TRUE /\ UNCHANGED nextLower
                     ELSE noMore' = FALSE /\ nextLower' \in FirstOf(rest)
  /\ pc' = IF AllRows = {} THEN "copied" ELSE "next_boundaries"
  /\ UNCHANGED <<server, hist, run, flags, created, from, bite, lower, upper, chunk,
                 tryno>>

NoMoreBoundaries ==
  /\ pc = "next_boundaries" /\ noMore
  /\ pc' = "done"
  /\ UNCHANGED <<server, hist, run, flags, created, nibble>>

OneNibble ==
  /\ pc = "next_boundaries" /\ ~noMore /\ bite
  /\ noMore' = TRUE /\ pc' = "exec_nibble"
  /\ UNCHANGED <<server, hist, run, flags, created, from, bite, lower, upper,
                 nextLower, chunk, tryno>>

\* The next_boundaries callback returns $oktorun; false ends the iteration.
StopNibbling ==
  /\ pc = "next_boundaries" /\ ~noMore /\ ~bite /\ ~oktorun
  /\ lower' = nextLower /\ noMore' = TRUE /\ pc' = "done"
  /\ UNCHANGED <<server, hist, run, flags, created, from, bite, upper, nextLower,
                 chunk, tryno>>

\* _next_boundaries: LIMIT size - 1, 2 from the lower boundary gives this
\* chunk's last row and the next chunk's first; with fewer rows ahead, the last
\* row of t is asked for next.
NextBoundaries(size) ==
  /\ pc = "next_boundaries" /\ ~noMore /\ ~bite /\ oktorun
  /\ lower' = nextLower
  /\ LET ahead == RowsFrom(nextLower)
     IN IF Cardinality(ahead) >= size
        THEN /\ \E u \in ahead :
                  /\ Cardinality({k \in ahead : k <= u}) = size
                  /\ upper' = u
                  /\ IF RowsAfter(u) = {}
                       THEN noMore' = TRUE /\ UNCHANGED nextLower
                       ELSE noMore' = FALSE /\ nextLower' \in FirstOf(RowsAfter(u))
             /\ pc' = "exec_nibble"
        ELSE pc' = "last_boundary" /\ UNCHANGED <<upper, nextLower, noMore>>
  /\ UNCHANGED <<server, hist, run, flags, created, from, bite, chunk, tryno>>

\* The last row of t, as it is by now: the application has gone on writing.
LastBoundary ==
  /\ pc = "last_boundary"
  /\ IF AllRows = {} THEN upper' = None ELSE upper' \in LastOf(AllRows)
  /\ noMore' = TRUE /\ pc' = "exec_nibble"
  /\ UNCHANGED <<server, hist, run, flags, created, from, bite, lower, nextLower,
                 chunk, tryno>>

InChunkMutant(k) == bite \/ (lower < k /\ k <= upper)   \* mutant: > for >=
InChunk(k) == bite \/ (lower <= k /\ k <= upper)

\* INSERT IGNORE INTO new SELECT ... LOCK IN SHARE MODE: the locking read.
ExecNibble ==
  /\ pc = "exec_nibble" /\ (bite \/ upper # None)
  /\ chunk' = [k \in Keys |-> IF InChunk(k) THEN t[k] ELSE Absent]
  /\ pc' = "insert"
  /\ UNCHANGED <<server, hist, run, flags, created, from, bite, lower, upper,
                 nextLower, noMore, tryno>>

\* t lost its last row before the boundary query: no upper boundary to bind.
NoUpperBoundary ==
  /\ pc = "exec_nibble" /\ ~bite /\ upper = None
  /\ Die
  /\ UNCHANGED <<server, hist, run, flags, created, nibble>>

\* The write: rows whose key is already in new are ignored.
InsertChunk ==
  /\ pc = "insert"
  /\ new' = [new EXCEPT ![n] = [k \in Keys |-> IF @[k] = Absent THEN chunk[k] ELSE @[k]]]
  /\ chunk' = Empty /\ pc' = "history"
  /\ UNCHANGED <<t, altered, old, trig, hist, run, flags, created, from, bite, lower,
                 upper, nextLower, noMore, tryno>>

\* Mutants: tries do not count, or are not limited.
RetryNibbleMutant ==
  /\ pc \in {"insert", "history"}
  /\ chunk' = Empty /\ pc' = "exec_nibble"
  /\ UNCHANGED <<server, hist, run, flags, created, from, bite, lower, upper,
                 nextLower, noMore, tryno>>

RetryNibbleMutant2 ==
  /\ pc \in {"insert", "history"}
  /\ tryno' = tryno + 1 /\ chunk' = Empty /\ pc' = "exec_nibble"
  /\ UNCHANGED <<server, hist, run, flags, created, from, bite, lower, upper,
                 nextLower, noMore>>

\* osc_retry: a lock wait timeout, a deadlock, ... in the chunk or after its
\* commit runs the whole try again; other errors and the last try die.
RetryNibble ==
  /\ pc \in {"insert", "history"} /\ tryno < MaxTries
  /\ tryno' = tryno + 1 /\ chunk' = Empty /\ pc' = "exec_nibble"
  /\ UNCHANGED <<server, hist, run, flags, created, from, bite, lower, upper,
                 nextLower, noMore>>

NibbleFails ==
  /\ pc \in {"insert", "history"}
  /\ chunk' = Empty /\ Die
  /\ UNCHANGED <<server, hist, run, flags, created, from, bite, lower, upper,
                 nextLower, noMore, tryno>>

\* Mutant: the next chunk's lower boundary is recorded for this one's upper.
RecordChunkMutant ==
  /\ pc = "history"
  /\ hist' = [hist EXCEPT ![job].ub = IF bite THEN None
                                     ELSE IF noMore THEN upper ELSE nextLower]
  /\ tryno' = 1 /\ pc' = "after_nibble"
  /\ UNCHANGED <<server, run, flags, created, from, bite, lower, upper, nextLower,
                 noMore, chunk>>

\* The history row gets the chunk's boundaries, empty ones for one nibble.
RecordChunk ==
  /\ pc = "history"
  /\ hist' = [hist EXCEPT ![job].ub = IF bite THEN None ELSE upper]
  /\ tryno' = 1 /\ pc' = "after_nibble"
  /\ UNCHANGED <<server, run, flags, created, from, bite, lower, upper, nextLower,
                 noMore, chunk>>

\* Replica lag and load are back to normal; a plugin may have cleared oktorun.
AfterNibble ==
  /\ pc = "after_nibble"
  /\ pc' = "next_boundaries"
  /\ oktorun' \in IF PluginStops THEN {TRUE, FALSE} ELSE {oktorun}
  /\ UNCHANGED <<server, hist, run, copied, swapped, notDropped, said,
                 created, nibble>>

\* --critical-load is reached.
CriticalLoad ==
  /\ pc = "after_nibble"
  /\ Die
  /\ UNCHANGED <<server, hist, run, flags, created, nibble>>

\* The done callback.
CopyDone ==
  /\ pc = "done"
  /\ hist' = [hist EXCEPT ![job].done = TRUE]
  /\ pc' = "copied"
  /\ UNCHANGED <<server, run, flags, created, nibble>>
-----------------------------------------------------------------------------
(* Steps 5 to 7: put the new table in place.                                *)

Copied ==
  /\ pc = "copied"
  /\ copied' = TRUE /\ pc' = "swap"
  /\ UNCHANGED <<server, hist, run, oktorun, swapped, notDropped, said,
                 created, nibble>>

\* RENAME TABLE t TO _t_old, new TO t: atomic; t's triggers leave with it.
Rename ==
  /\ t' = new[n] /\ old' = TRUE /\ altered' = TRUE
  /\ new' = [new EXCEPT ![n] = NoTable]
  /\ trig' = [e \in Events |-> None]

SwapTables ==
  /\ pc = "swap" /\ opt.swap = "rename"
  /\ Rename
  /\ pc' = "renamed"
  /\ UNCHANGED <<hist, run, flags, created, nibble>>

\* The server did rename but the connection broke: the retries fail on names
\* that exist or are gone, and swap_tables dies.
SwapUnacknowledged ==
  /\ pc = "swap" /\ opt.swap = "rename" /\ LostAcks
  /\ Rename /\ Die
  /\ UNCHANGED <<hist, run, flags, created, nibble>>

\* Mutant: the flag is set before the statement is known to have worked.
SwapFailsMutant ==
  /\ pc = "swap" /\ opt.swap = "rename"
  /\ swapped' = TRUE /\ Die
  /\ UNCHANGED <<server, hist, run, oktorun, copied, notDropped, said, created, nibble>>

SwapFails ==
  /\ pc = "swap" /\ opt.swap = "rename"
  /\ Die
  /\ UNCHANGED <<server, hist, run, flags, created, nibble>>

\* --no-swap-tables: the flag is set all the same.
NoSwap ==
  /\ pc = "swap" /\ opt.swap = "none"
  /\ swapped' = TRUE /\ pc' = "drop_old"
  /\ UNCHANGED <<server, hist, run, oktorun, copied, notDropped, said,
                 created, nibble>>

\* drop_swap drops t and its triggers first ($dont_interrupt_now = 1) ...
DropOrig ==
  /\ pc = "swap" /\ opt.swap = "drop_swap"
  /\ t' = NoTable /\ trig' = [e \in Events |-> None]
  /\ pc' = "drop_swap"
  /\ UNCHANGED <<altered, new, old, hist, run, flags, created, nibble>>

\* ... and then renames the new table.
RenameNew ==
  /\ pc = "drop_swap"
  /\ t' = new[n] /\ altered' = TRUE /\ new' = [new EXCEPT ![n] = NoTable]
  /\ pc' = "renamed"
  /\ UNCHANGED <<old, trig, hist, run, flags, created, nibble>>

RenameNewUnacknowledged ==
  /\ pc = "drop_swap" /\ LostAcks
  /\ t' = new[n] /\ altered' = TRUE /\ new' = [new EXCEPT ![n] = NoTable]
  /\ oktorun' = FALSE /\ Die
  /\ UNCHANGED <<old, trig, hist, run, copied, swapped, notDropped, said,
                 created, nibble>>

DropSwapFails ==
  /\ (pc = "swap" /\ opt.swap = "drop_swap") \/ pc = "drop_swap"
  /\ oktorun' = FALSE /\ Die
  /\ UNCHANGED <<server, hist, run, copied, swapped, notDropped, said,
                 created, nibble>>

\* $orig_tbl->{swapped}, for the report: back in main, well after the RENAME.
MarkSwapped ==
  /\ pc = "renamed"
  /\ swapped' = TRUE /\ pc' = "drop_old"
  /\ UNCHANGED <<server, hist, run, oktorun, copied, notDropped, said,
                 created, nibble>>

DropOldTable ==
  /\ pc = "drop_old"
  /\ old' = (old /\ ~opt.dropOld) /\ Die
  /\ UNCHANGED <<t, altered, new, trig, hist, run, oktorun, copied, swapped,
                 notDropped, said, created, nibble>>

DropOldFails ==
  /\ pc = "drop_old" /\ opt.dropOld
  /\ Die
  /\ UNCHANGED <<server, hist, run, flags, created, nibble>>
-----------------------------------------------------------------------------
(* The cleanup tasks, in reverse order of their creation.                   *)

KeepTriggers == ~oktorun \/ ~opt.dropTriggers \/ created = {}

FirstCreated == IF "del" \in created THEN "del"
                ELSE IF "upd" \in created THEN "upd" ELSE "ins"

DropTrigger ==
  /\ pc = "clean_triggers" /\ ~KeepTriggers
  /\ trig' = [trig EXCEPT ![FirstCreated] = None]
  /\ created' = created \ {FirstCreated}
  /\ UNCHANGED <<t, altered, new, old, hist, pc, run, flags, nibble>>

DropTriggerFails ==
  /\ pc = "clean_triggers" /\ ~KeepTriggers
  /\ created' = created \ {FirstCreated}
  /\ notDropped' = TRUE
  /\ UNCHANGED <<server, hist, pc, run, oktorun, copied, swapped, said, nibble>>

TriggersCleaned ==
  /\ pc = "clean_triggers" /\ KeepTriggers
  /\ pc' = "clean_new"
  /\ UNCHANGED <<server, hist, run, flags, created, nibble>>

\* Mutants: one keeps the new table only when told to, one forgets triggers
\* that could not be dropped.
KeepNewTableMutant  == ~opt.dropNew
KeepNewTableMutant2 == ~oktorun \/ (copied /\ ~swapped) \/ ~opt.dropNew

KeepNewTable == \/ ~oktorun
                \/ copied /\ ~swapped
                \/ ~opt.dropNew
                \/ notDropped

CleanNewTable ==
  /\ pc = "clean_new"
  /\ new' = IF n = None \/ KeepNewTable THEN new ELSE [new EXCEPT ![n] = NoTable]
  /\ pc' = "report"
  /\ UNCHANGED <<t, altered, old, trig, hist, run, flags, created, nibble>>

\* The process is gone; what it knew is gone with it.
Quit ==
  /\ pc' = "idle" /\ opt' = opt /\ created' = {}
  /\ copied' = FALSE /\ notDropped' = FALSE
  /\ from' = None /\ bite' = FALSE /\ lower' = None /\ upper' = None
  /\ nextLower' = None /\ noMore' = FALSE /\ chunk' = Empty /\ tryno' = 1
  /\ UNCHANGED <<server, hist, job, fresh, n>>

Report ==
  /\ pc = "report"
  /\ said' = IF swapped THEN "altered" ELSE "not_altered"
  /\ oktorun' = TRUE /\ swapped' = FALSE
  /\ Quit

\* SIGINT: sig_int exits and the cleanup tasks run with $oktorun = 0, except
\* in drop_swap; a running statement is finished first.
Interruptible ==
  {"create", "alter_new_table", "create_triggers", "check_triggers", "get_bounds", "next_boundaries",
   "last_boundary", "exec_nibble", "history", "after_nibble", "done", "copied", "swap",
   "renamed", "drop_old"}

SigInt ==
  /\ pc \in Interruptible
  /\ oktorun' = FALSE /\ Die
  /\ UNCHANGED <<server, hist, run, copied, swapped, notDropped, said,
                 created, nibble>>

\* The process is killed, at any step, its cleanup included.
Crash ==
  /\ pc # "idle"
  /\ oktorun' = TRUE /\ swapped' = FALSE /\ said' = "nothing"
  /\ Quit
-----------------------------------------------------------------------------
Init ==
  /\ t \in Rows /\ altered = FALSE
  /\ new = [m \in NewNames |-> NoTable] /\ old = FALSE
  /\ trig = [e \in Events |-> None]
  /\ hist = [j \in 1..MaxJobs |-> NoJob]
  /\ pc = "idle" /\ job = 0 /\ fresh = 1 /\ opt \in Options /\ n = None
  /\ oktorun = TRUE /\ copied = FALSE /\ swapped = FALSE
  /\ notDropped = FALSE /\ created = {} /\ said = "nothing"
  /\ from = None /\ bite = FALSE /\ lower = None /\ upper = None
  /\ nextLower = None /\ noMore = FALSE /\ chunk = Empty /\ tryno = 1

Prepare == \/ CreateNewTable \/ NoNameLeft \/ AlterNewTable \/ CreateTrigger
           \/ CreateTriggerFails \/ TriggersCreated \/ CheckTriggers

Copy == \/ GetBoundsOneNibble \/ GetBounds \/ NoMoreBoundaries \/ OneNibble
        \/ StopNibbling \/ (\E size \in 1..MaxChunk : NextBoundaries(size))
        \/ LastBoundary \/ ExecNibble \/ NoUpperBoundary \/ InsertChunk \/ RetryNibble
        \/ NibbleFails \/ RecordChunk \/ AfterNibble \/ CriticalLoad \/ CopyDone

PutInPlace == \/ Copied \/ SwapTables \/ SwapUnacknowledged \/ SwapFails \/ NoSwap
              \/ DropOrig \/ RenameNew \/ RenameNewUnacknowledged \/ DropSwapFails
              \/ MarkSwapped \/ DropOldTable \/ DropOldFails

CleanUp == \/ DropTrigger \/ DropTriggerFails \/ TriggersCleaned \/ CleanNewTable
           \/ Report

ToolStep == Prepare \/ Copy \/ PutInPlace \/ CleanUp

Next == AppWrite \/ Operator \/ ToolStep \/ SigInt \/ Crash

Spec == Init /\ [][Next]_vars

\* The tool keeps running: replicas and load eventually let it go on.
FairSpec == Spec /\ WF_vars(ToolStep)
-----------------------------------------------------------------------------
PCs == {"idle", "create", "alter_new_table", "create_triggers", "check_triggers",
        "get_bounds", "next_boundaries", "last_boundary", "exec_nibble", "insert",
        "history", "after_nibble", "done", "copied", "swap", "drop_swap", "renamed", "drop_old",
        "clean_triggers", "clean_new", "report"}

Histories == [1..MaxJobs -> [new : NewNames \cup {None}, ub : Keys \cup {None},
                             done : BOOLEAN]]

ServerTypes ==
  /\ t \in Rows \cup {NoTable} /\ new \in [NewNames -> Rows \cup {NoTable}]
  /\ trig \in [Events -> NewNames \cup {None}] /\ hist \in Histories
  /\ altered \in BOOLEAN /\ old \in BOOLEAN

RunTypes ==
  /\ pc \in PCs /\ job \in 0..MaxJobs /\ fresh \in 1..(MaxJobs + 1)
  /\ opt \in Options /\ n \in NewNames \cup {None}
  /\ oktorun \in BOOLEAN /\ copied \in BOOLEAN /\ swapped \in BOOLEAN
  /\ notDropped \in BOOLEAN /\ created \subseteq Events
  /\ said \in {"nothing", "altered", "not_altered"}

NibbleTypes ==
  /\ from \in Keys \cup {None} /\ lower \in Keys \cup {None}
  /\ upper \in Keys \cup {None} /\ nextLower \in Keys \cup {None}
  /\ bite \in BOOLEAN /\ noMore \in BOOLEAN
  /\ chunk \in Rows /\ tryno \in 1..(MaxTries + 1)

\* Every variable has its type.
TypeOK == ServerTypes /\ RunTypes /\ NibbleTypes

AllTriggers == \A e \in Events : trig[e] # None

\* Key k is in m as it is in t, or in neither.
Synced(m, k) == new[m][k] = t[k]

\* The triggers never let the copy run ahead of t or behind it: while all three
\* exist, every row of the new table is the row of t with that key, whoever
\* wrote it last, chunk copy or trigger, and however the two were interleaved.
InSync ==
  (AllTriggers /\ n # None) =>
     (new[n] # NoTable => \A k \in Keys : new[n][k] # Absent => Synced(n, k))

\* When the tool goes on to swap, the new table holds exactly the rows of t.
SwapComplete ==
  pc \in {"done", "copied", "swap"} => \A k \in Keys : Synced(n, k)

\* What --resume relies on: as long as a job's triggers and its new table are
\* there, every row up to its recorded upper boundary is in the new table as it
\* is in t now, and every row once the job is done.
ResumePoint ==
  \A j \in fresh..job :
    (AllTriggers /\ t # NoTable /\ hist[j].new # None /\ hist[j].ub # None) =>
      (new[hist[j].new] # NoTable =>
         \A k \in Keys : k <= hist[j].ub \/ hist[j].done => Synced(hist[j].new, k))

\* Rows exist somewhere at every moment: when t is gone, between drop_swap's
\* two statements or for good because the second one failed, the new table is
\* there and no cleanup drops it.
NeverNoCopy == t = NoTable => n # None /\ new[n] # NoTable

\* No trigger is left writing to a table the tool has dropped (the tool's own
\* rule, stated in its "Not dropping the new table" message).
NoDanglingTrigger == \A e \in Events : trig[e] # None => new[trig[e]] # NoTable

\* The last line of a run says "altered" of an altered table only, and "not
\* altered" of an altered one only if the run was cut short ($oktorun is false),
\* whatever failed or crashed in it and before it.
ReportTruthful ==
  [][pc = "report" /\ said' # "nothing" =>
       IF said' = "altered" THEN altered ELSE oktorun => ~altered]_vars

\* What the comment on the report says of it: it tells whether or not the
\* original table was altered.
ReportTellsWhether == said # "nothing" => (said = "altered") = altered

\* The chunk boundaries move forward: no chunk starts again where one started
\* (the "Possible infinite loop detected" check never fires on a unique index).
ChunksAdvance ==
  [][pc = "next_boundaries" /\ pc' \in {"exec_nibble", "last_boundary"} /\ lower # None
       => lower < lower']_vars

\* Every run of the tool ends, in success or in failure, whatever is done to
\* rows within the range of Keys: retries are bounded, and rows that are
\* rewritten, moved ahead of the copy or deleted and inserted again do not keep
\* it going.  An application that adds keys past the last one for ever could:
\* the boundary queries have no upper limit.
RunEnds == pc # "idle" ~> pc = "idle"

\* The application's table, whatever name and definition it currently has.
Alter == INSTANCE OnlineAlter WITH
           rows  <- IF t = NoTable THEN new[n] ELSE t,
           shape <- IF t = NoTable THEN "gone" ELSE IF altered THEN "new" ELSE "old"

\* The tool implements the atomic alter: its steps change no row the
\* application can see, and swap definitions at one instant (or around an
\* outage, for drop_swap).
Atomic == Alter!Spec
=============================================================================
