# A verification project for Percona Toolkit

TLA+ models of the parts of Percona Toolkit that have state, concurrency and
failure to get wrong, checked with TLC on small instances and proved with TLAPS
where the result matters for every instance. Paths below are relative to the
repository root (`bin/...`, `lib/...`, `src/go/...`).

The repository is a toolbox: about forty independent command-line programs, most
of them one Perl file that embeds the libraries of `lib/`, and a family of Go
programs around MongoDB, Galera, PostgreSQL and Kubernetes. No program talks to
another one; each talks to a database server that other clients use at the same
time. What can be wrong in them beyond plain bugs lies there: statements that
interleave with the application's, connections and processes that die half-way,
recorded progress that is trusted later, and, in Go, goroutines.

## 1. Inventory

### pt-online-schema-change (`bin/pt-online-schema-change`) - modelled

Alters a table that is in use. *State on the server*: the table, the new table
`_t_new`, the renamed original `_t_old`, three triggers on the original, and with
`--history` one row per run in `pt_osc_history` (new table name, boundaries of
the last chunk, done). *State in the process*: the flags `$oktorun`,
`$orig_tbl->{copied}`, `$orig_tbl->{swapped}`, `@triggers_not_dropped`,
`$dont_interrupt_now`, the list of cleanup tasks, and the nibble iterator's
boundaries. *Operations*: create, alter, create triggers, copy in chunks, swap
(RENAME, `drop_swap` or none), drop the old table, cleanup tasks, SIGINT handler,
`--resume`. *Interactions*: statements against the server, through the plugin's
callbacks, Retry, the waiters (lag, load, flow control) and CleanupTask.
*Hard*: the application writes between any two statements and the triggers fire
inside its statements; a chunk is read and written while rows move; every
statement may fail, be retried after it worked, or be the last one before a
crash; a later run trusts what an earlier one recorded. *Correct when*: copy and
original agree, the swap finds a complete copy, the rows exist somewhere at every
moment, triggers do not outlive their table, a recorded boundary may be resumed
from, the report is true, a run ends whatever is done to the rows of a given range.

### NibbleIterator (`lib/NibbleIterator.pm`) - modelled as this tool uses it

Walks a table in chunks of an index. *State*: `lower`, `upper`, `next_lower`,
`no_more_boundaries`, `have_rows`, `nibbleno`. *Operations*: `can_nibble`,
`_get_bounds`, `_next_boundaries`, `next` with its callbacks. *Hard*: each
boundary is a query of its own against a table that changes. *Correct when*:
chunks advance, and chunk by chunk no row that stays put is skipped.

### mongolib profiler and stats (`src/go/mongolib`) - modelled

*State*: the counters map and its lock, the cursor, the ticker, the channels
`queriesChan` and `stopChan`, `stopWaitGroup`, `running` and the lock around
`Start` and `Stop`. *Operations*: `Start`, `Stop`, `FlushQueries`, the goroutines
`getData` and `getDocs`, `Stats.Add`, `Stats.Reset`, `Stats.Queries`. *Hard*: a
flush is a snapshot, a blocking send and a reset, and two goroutines flush; `Add`
takes the lock three times and counts outside it; `Stop` signals without blocking
and then waits under the lock; the wait group is raised inside the goroutine it
counts. *Correct when*: every document is counted in exactly one report, a
report's counts, samples and queries fit together, the last report arrives, and
`Stop` returns when the profiler has stopped.

### pt-galera-log-explainer (`src/go/pt-galera-log-explainer`) - modelled

Reads the logs of the nodes of a Galera cluster and shows what happened in columns,
one per node. *State*: the context of the log being read (own names, addresses,
hashes, states by kind of file, SSTs, conflicts), the translation database (hash to
IP, hash to name, IP to name, IP to method), the timelines by node. *Operations*: a
handler per regex, `AddOwnName` and its kin, `AddHashToIP` and its kin, the lookups,
`Add`, the three merges, `MergeTimeline`, `CutTimelineAt`, `IterateNode`, `Dequeue`,
the column display, `Whois`. *Interactions*: grep writes to a pipe, a scanning
goroutine hands its lines over an unbuffered channel, the reader may leave early; the
handlers write to the database the display reads. *Hard*: a line matches several
regexes that are tried in the order of a Go map; files of a node overlap, are read in
any order, lack dates; names and addresses are reused, so the maps refer to each
other in circles. *Correct when*: what a log says of its own node is of that node,
a lookup gives what was true at that time, no event of a file kept is lost or shown
twice, rows are in order, and the search finds exactly what is linked.

### pt-mongodb-summary and mongolib/util - modelled

*State*: what `main` keeps between questions (host names, node type), the sections
collected, the warnings, and the locals of `GetReplicasetMembers`,
`getOpCountersStats`, `GetOplogInfo`, `getClusterwideInfo`. *Operations*: one per
question to a server. *Interactions*: with servers that fail, restart and change
role between any two questions. *Hard*: almost every failure is logged and passed
over; the members describe each other. *Correct when*: nothing is missing from the
report without a complaint, and what is there fits together.

### pt-k8s-debug-collector - modelled

*State*: the archive and its lock, the context, the channel of jobs, the semaphores, the map
of used ports. *Operations*: discovery, `exportGeneric`, `dumpSSLInfo`, the workers' logs,
summary and files, `DumpToArchive`. *Interactions*: goroutines that share one archive;
workers fed through a buffered channel; forwarders on local ports; a cancel that stops the
others. *Hard*: a failure of one goroutine and what the rest does meanwhile, who closes what
when. *Correct when*: a collection that says it is complete is, no entry is written over
another, no volume of a redacted secret is exported, the program ends.

### pt-mongodb-query-digest, pt-mongodb-index-check

The digest drives the profiler without a ticker (section 7), then sorts and prints. The index
check compares the keys of a collection's indexes and prints; sequential.

### Replication and copying tools - planned

* **pt-table-checksum** (`bin/pt-table-checksum`): checksums chunks by statement
  replication, waits for replicas, resumes from its results table. State: the
  checksum rows on each server, the iterator, oversized-chunk decisions. Hard:
  replica lag, chunk-size differences, resume. Correct when: a difference is
  reported exactly if the replica's chunk differed at that replication position.
* **pt-table-sync** (`bin/pt-table-sync`): RowDiff merges two ordered row streams
  and ChangeHandler turns the result into statements. Correct when: applying them
  makes the destination equal to the source.
* **pt-archiver** (`bin/pt-archiver`): select, insert on the destination, delete
  on the source, two transactions committed in turn, retries. Correct when: a row
  is deleted only when its copy is committed, and none is archived twice.
* **pt-slave-delay, pt-replica-restart, pt-heartbeat, pt-slave-find/pt-replica-find,
  MasterSlave.pm**: polling loops around replication positions.

### Libraries with state - partly modelled, rest planned

* **Retry, CleanupTask** (`lib/`): as pt-online-schema-change drives them.
* **Daemon**: PID file protocol (check, write, remove). Hard: two starts at once.
* **ReplicaLagWaiter, MySQLStatusWaiter, FlowControlWaiter, WeightedAvgRate**:
  waits that must end or die, and the chunk size they feed back.

### Components left aside

Log analysis (pt-query-digest, pt-upgrade, pt-table-usage, pt-index-usage),
configuration and schema reports, pt-pg-summary, pt-secure-collect, the Go support
libraries and the shell tools read, rewrite and print text once. Their few decisions
worth a reference definition (pt-duplicate-key-checker's and pt-mongodb-index-check's
prefix rules, pt-kill's selection of victims, pt-stalk's trigger counter) are at the
end of the plan.

## 2. Plan

Order: what loses data first, then what loses observations, then algorithms.

1. `OnlineAlter`, `OnlineSchemaChange` - **done** (sections 3 to 6).
2. `DocumentCounter`, `MongoProfiler` - **done** (section 7).
3. `GaleraTranslate`, `GaleraWhois`, `GaleraLogCtx`, `GaleraLog`, `GaleraTimeline`,
   `GaleraList` - **done** (section 8).
4. `MongoSummary` - **done** (section 9).
5. `K8sResources`, `K8sCollector` - **done** (section 10).
6. `Waiters` (replica lag, status, flow control), `Retry`, `DaemonPid`.
7. `TableChecksum`: master and replicas, the results table, resume.
8. `Archiver`: two servers, two commits, retries; abstract: a row moves once.
9. `RowDiff`/`TableSync`, `SlaveDelay`, `ReplicaRestart`.
10. Prefix rules, pt-kill, pt-stalk.

What pt-online-schema-change has left: `--preserve-triggers`, `--reverse-triggers`,
`rebuild_constraints`.

### Runs

Nine runs pass and three show a disagreement. Each property has a mutant of the code
that breaks it.

| run | module | section |
|---|---|---|
| `osc_copy`, `osc_resume`, `osc_swap`; `osc_resume_older`, `osc_report` (violations) | `MCOnlineSchemaChange` | 4, 5 |
| `prof_ticker` | `MCMongoProfiler` | 7 |
| `galera_whois` | `MCGaleraWhois` | 8 |
| `galera_log` | `MCGaleraLog` | 8 |
| `galera_list` | `MCGaleraList` | 8 |
| `mongo_summary` | `MCMongoSummary` | 9 |
| `k8s_collect`; `k8s_forward` (violation) | `MCK8sCollector` | 10 |

## 3. pt-online-schema-change

| module | what it is |
|---|---|
| `OnlineAlter` | what the tool promises: one table, written at any time, takes its new definition at one instant and loses no row |
| `OnlineSchemaChange` | the tool, the server's tables and triggers, the application and the operator |
| `MCOnlineSchemaChange` | the option sets of the runs |
| `OnlineSchemaChangeProofs` | types, that a copy of the rows always exists, triggers and their table, chunks, the report |
| `OnlineSchemaChangeCopyProofs` | triggers in sync, the swap complete, resume points right; that the tool implements `OnlineAlter` |

### State

`t` is the table with the original's name (`NoTable` inside drop_swap's outage),
a function from keys to a row or `Absent`; `new` holds the shadow tables by name,
`old` whether the renamed original exists, `altered` whether `t` has the new
definition, `trig` the shadow table each trigger writes to, `hist` the history
rows. `pc` is the tool's next statement, `idle` between runs; `job` counts runs
and `fresh` is the latest one that was not a resume. `oktorun`, `copied`,
`swapped`, `notDropped` and `created` are the Perl variables of those roles,
`said` is the last line printed, and `from`, `bite`, `lower`, `upper`,
`nextLower`, `noMore` belong to the iterator (`from` is the recorded boundary of
the resumed job, `bite` is `one_nibble`). `chunk` holds the rows that the
running INSERT ... SELECT has read and locked.

### Actions

One action per statement of the tool that changes the server or the flags, with a
failing variant where the code handles failure: `CreateNewTable`, `AlterNewTable`,
`CreateTrigger`, the iterator (`GetBounds`, `NextBoundaries`, `ExecNibble` and
`InsertChunk` for the two halves of a chunk, `RecordChunk` for the history row,
`RetryNibble` for `osc_retry`), `SwapTables`, `DropOrig` and `RenameNew` for
drop_swap, `MarkSwapped`, the cleanup tasks in the reverse order of their creation,
`Report`. The two queries of `_next_boundaries` are two steps, the second one
(`LastBoundary`) only when fewer rows than a chunk are ahead. `MarkSwapped` is the
assignment of `$orig_tbl->{swapped}` back in `main` (line 10813): between the RENAME
(11615, or the end of drop_swap, where interrupts are allowed again, 11998) and it
the tool is in the place `renamed`, where a signal may reach it.
`Die` is a `die`: it leads to the cleanup tasks with the flags as they are.
`SigInt` is the signal handler (between statements, not within drop_swap),
`Crash` is the process's death at any step. `AppWrite` is one statement of the
application together with the trigger it fires. `Operator` starts and resumes
runs and follows the instructions that an interrupted run printed, except that it
does not drop the new table while that is the only copy (drop_swap failed between its
two statements; the tool prints the DROP even then, line 9876).

A chunk is two steps because `INSERT ... SELECT ... LOCK IN SHARE MODE` reads
rows before it writes them; the rows read are locked, others are not.

### Constants, and the four switches

`MaxJobs` bounds runs, `MaxChunk` the chunk sizes `--chunk-time` may choose and
`MaxTries` the tries. A table that took its new definition is not altered again
(`~altered` in `StartJob`): another alter is another instance of the model.
The switches say which environment a run has:

* `CarefulOperator`: only jobs of the latest from-scratch run are resumed.
* `ResumeBites`: a resumed job may be found to fit one chunk by row estimate.
* `PluginStops`: a plugin may clear `$oktorun` through the reference it is given.
* `LostAcks`: a RENAME may work although the client sees an error.

The first three are three ways in which the code as written swaps an incomplete
copy in (section 5), and the properties of the copy
are checked and proved without them. `Sound` in the proofs names exactly that.

### Properties

* `TypeOK`: the type invariant.
* `InSync`: while all triggers exist, every row of the new table is the row of `t`
  with that key, whoever wrote it last.
* `SwapComplete`: when the tool goes on to swap, the copy is exact.
* `ResumePoint`: what a history row says was copied is in the new table as it is
  in `t` now, while its triggers and table are there.
* `NeverNoCopy`: when no table `t` exists the new table does.
* `NoDanglingTrigger`: no trigger writes to a table the tool dropped.
* `ReportTruthful` (action property): "Successfully altered" is printed of an altered table
  only, "was not altered" of an altered one only when the run was cut short (`$oktorun`
  is off), whatever failed on the way.
* `ReportTellsWhether`: the report says "altered" exactly of an altered table, as the comment
  on it has it. False of the code (section 5).
* `ChunksAdvance` (action property): no chunk starts where an earlier one did, so
  the code's "infinite loop" check is never what stops the copy.
* `Atomic`: the whole implements `OnlineAlter`, with `t` (or, in drop_swap's
  outage, the new table) as the rows. The tool changes no row the application
  sees, at any step, under any interleaving.
* `RunEnds`: every started run ends, whatever the application does to rows within `Keys`:
  rows rewritten, moved ahead of the copy, deleted and inserted again do not keep it
  going. The range is what ends it: the boundary queries have no upper limit
  (lines 6430-6457), so an application that adds keys past the last one for ever, faster
  than they are copied, could keep it going.

### Fairness

`FairSpec` adds weak fairness of the tool's steps taken together. The tool is one
process that always has a next statement; where the code waits (replica lag,
load, flow control) it waits for the environment to recover, which is assumed,
and every other statement returns or fails. Nothing is assumed about the
application, the operator, signals or crashes: the application may write for
ever, and no step of the tool is required to succeed.

## 4. pt-online-schema-change: passing runs

| run | instance | what it shows |
|---|---|---|
| `osc_copy` | 3 keys, 2 values, chunks of 1 or 2, 2 tries, one run | copy, triggers and swap against every write, chunks inserted again; report; chunk boundaries; refinement of `OnlineAlter` |
| `osc_resume` | 3 keys, 2 runs, rename with and without cleanup and drop_swap, lost acknowledgements | every crash or interruption followed by a resume or a new run: resume points, triggers, refinement of `OnlineAlter` |
| `osc_swap` | 2 keys, every safe option set, lost acknowledgements, 2 tries, a plugin that stops | a copy of the rows always exists, the run ends |

Three keys are the fewest with a first, a middle and a last row: a chunk of two and one of
one, a row moving from a copied to an uncopied chunk and back, the last row deleted under
the iterator. Two values tell a row from its older version (`osc_resume` and `osc_swap` make
do with one: there what counts is whether a row is present, and `osc_copy` covers values).
Two runs give one resume; a third run matters only when an older job is resumed, which
`osc_resume_older` shows. Two tries give one retry of a chunk, inserted again over what the
first try wrote. One shadow name makes a left-over new table stop a new run (`NoNameLeft`),
since the names tried are finite. Deadlock is not checked: the instance stops once the runs
are used up and the table is full or gone. `osc_copy` uses the symmetry of the values, which
no definition orders or names. `PluginStops` is on in `osc_swap` alone, which does not ask
whether the copy is complete.

## 5. pt-online-schema-change: where code and text disagree

`osc_resume_older` is a violation run of `SwapComplete`: resuming a job older than the
last from-scratch run passes the trigger check, which looks at names only, and skips
rows the recreated table lacks.

`osc_report` is a violation run of `ReportTellsWhether`. The comment on the last cleanup task
(lines 9698-9699) says that it reports whether or not the original table was altered. It
looks at `$orig_tbl->{swapped}` (9715), which `main` sets after `swap_tables` has returned and
a hook has run (10813). A SIGINT between the RENAME and that line runs the cleanup
tasks with the flag off: the tool says "was not altered" of the table it altered.

TLC refutes the properties of the copy and the triggers under three other settings, which
the passing runs therefore leave out. They have no run; the switch or option that brings
each back is in the second column.

| what happens | set | refutes |
|---|---|---|
| A plugin that clears `$oktorun` ends the copy early; `main` sets `copied` without looking at it and swaps the partial copy in. | `PluginStops = TRUE` | `SwapComplete` |
| A resumed job whose row estimate fits one chunk gets an iterator without boundaries, copies nothing, and swaps. | `ResumeBites = TRUE` | `SwapComplete` |
| `--nodrop-triggers` with the default `--drop-new-table` drops the new table under live triggers when the copy fails. Writes go on, since the triggers have a handler for the missing table, but the tool's own message says the triggers must go first. | an option set with both | `NoDanglingTrigger` |

`ReportTruthful` leaves the interrupted run out, and `osc_copy` two cases more. With
`--no-swap-tables` the report says the table was altered (the option sets leave it
out). When the acknowledgement of RENAME is lost the tool reports a failure although
the table was altered (`LostAcks = FALSE`): it cannot know, and leaves both tables.

## 6. pt-online-schema-change: what is proved

For every set of keys and values, every number of runs, chunk size and tries, and
every option set; the constants' assumptions (named in `OnlineSchemaChange`) only
say that keys are natural numbers, finitely many, and that the markers are no rows.

* `TypeCorrect`: `Spec => []TypeOK`.
* `RowsSomewhere`: `Spec => []NeverNoCopy`, with all four switches in any position.
  `NeverNoCopy` is not inductive: that the new table survives cleanup follows from
  `Outage` (only drop_swap's second half, or what comes after its failure, runs
  while `t` is gone, and then `$oktorun` is off), and that it exists at all from the
  steps at which the tool relies on it (`Tables`). `TypeInv` is both with the types.
* `TriggersInSync`, `SwapIsComplete`, `ResumePointHolds`: `ASSUME Sound PROVE Spec =>
  []P` for `InSync`, `SwapComplete` and `ResumePoint`. The invariant `CopyInv` has
  five parts. `Lineage`: the jobs since the last fresh run share one new table.
  `Creation`: triggers are created in the order delete, update, insert, so that
  no row can come into the new table before there is a trigger to take it out.
  `Agree`: with the first two there, the new table has no row `t` has not.
  `Frontier`: what each step of the iterator may rely on - rows below the lower
  boundary are in sync, rows between this chunk and the next do not exist or are in
  sync, rows in the chunk are in sync or just read and locked. `Recorded`: what
  the history says. Each part needs the others: a chunk's `INSERT IGNORE` is
  right because of `Agree`, a recorded boundary because of `Frontier`, `Frontier`
  after a resume because of `Recorded`, and that the resumed job's table is the
  triggers' table because of `Lineage`.

* `TriggersHaveTheirTable`: `ASSUME SafeOptions PROVE Spec => []NoDanglingTrigger`,
  where `SafeOptions` leaves out `--nodrop-triggers` with `--drop-new-table`
  (section 5). The invariant, `Known`, says that triggers on a table
  that is about to be dropped are in `@triggers_not_dropped`, where the cleanup
  task looks before it drops.
* `ChunksGoForward`: `Spec => ChunksAdvance`, from `Ahead`: the next lower boundary
  lies beyond the upper one, whatever was inserted between the two queries.
* `ReportIsTrue`: `ASSUME Acknowledged PROVE Spec => ReportTruthful`. `Acknowledged`
  leaves out the last two cases of section 5, a lost acknowledgement of a RENAME and
  `--no-swap-tables`. `ReportInv`: while a run lasts nothing is said, the `swapped` flag is
  set only of an altered table, and an altered table without it means that the run is
  between the RENAME and the flag, or was cut short there.
* `ImplementsAlter`: `ASSUME Sound PROVE Spec => Atomic`, the step simulation under
  the mapping of `OnlineSchemaChange`. Every step but the application's, the swap
  and drop_swap's two halves is a stutter; that the swap replaces the rows by equal
  rows is `CopyInv`'s doing, that it does so once is `Unaltered`'s.

There is one lemma per group of actions (the application, the operator, preparing,
copying, putting in place, cleaning up, stopping), one step per action in it and
one per part of the invariant.

### Model-checked only

`RunEnds`, liveness under fairness, which TLAPS does not prove. `ReportTellsWhether` is
false, and `osc_report` shows it.

### Not modelled

`--preserve-triggers`, `--reverse-triggers`, rebuilding foreign keys
(`rebuild_constraints`), `--dry-run`, `--statistics`, multi-column and nullable
keys, renamed columns, the safety checks on the ALTER text, table names and quoting;
the waiters beyond "goes on" and "dies at --critical-load"; connections (a failing
statement stands for a lost one). The application does not rename or drop the table.

## 7. mongolib profiler

| module | what it is |
|---|---|
| `DocumentCounter` | what the profiler promises: each document is in exactly one report |
| `MongoProfiler` | the two goroutines, the counters, the user of the channel and the callers of `Stop` |
| `MCMongoProfiler` | the documents' groups in the runs |
| `MongoProfilerProofs` | types and wait group, coherent and disjoint snapshots, the refinement |

### State and actions

`groups` are the keys of `queryInfoAndCounters`; of its values the module keeps
which documents were counted (`counted`) and which had their samples appended
(`sampled`), which is what can come apart. `held` is the `qiac` pointer of `Add`:
`mapped` while it is in the map, `gone` when a reset has replaced the map under
it. `next` is the cursor, `added` the documents whose `Add` returned. `dataPc` and
`docsPc` are where the goroutines are, `snap` what each is sending. `running`,
`lock` and `wg` are `Profile`'s fields, `call` where each call of `Stop` is.

One action per critical section or channel operation. `Add` is four: `GetEntry`
(read lock), `SetEntry` (lock), `CountDoc` (`Count++`, no lock), `SampleDoc`
(lock). A flush is three: `Queries`, `Receive` (the channel has no buffer, so
sending and receiving are one step) and `Reset`. `Stop` is `LockStop`, `Signal`
(the `select` with a `default`: received only if `getData` waits in its own
`select`, that is after `Park`) and `WaitStop`. A document that a filter or the
fingerprinter refuses is passed over (`NextDoc`); `NoMoreDocs` is the end of the
cursor for any of its reasons.

### Properties and runs

| run | instance | properties |
|---|---|---|
| `prof_ticker` | 3 documents in 2 groups, 2 ticks, one `Stop` | `TypeOK` (the wait group is never negative); `SamplesMatch`: a snapshot has no sample without a count, no count without a query, and misses one document's samples at most; `TicksDisjoint`: two of the ticker's snapshots share no document; `Exact`: until the first tick the profiler implements `DocumentCounter`; `ReportArrives`: the last report comes; `SignalledStopReturns`: a `Stop` whose signal was taken returns |

pt-mongodb-query-digest gives the profiler a nil ticker, so for it `Exact` holds for ever: it
says so of every behaviour of `prof_ticker` up to its first tick. `TicksDisjoint` is half of
what one would like of the ticker; the other half, that nothing is lost between a
snapshot and its reset or shown in both a tick's report and the last, is false (below).

Three documents put two in one group, so that an entry found in the map and one
made anew both occur, across a reset too. With two ticks a reset falls before,
within or after an `Add`, and the next snapshot after it; the user receives one
report more than there are ticks, so no run stops for want of a receiver. The
user's `Stop` competes for the lock with `getDocs`'s own.

Fairness: weak, for each goroutine, for the user's receiving and for each call of
`Stop`. Go's scheduler runs every goroutine that can run; both users of the
channel receive what the profiler sends them. The ticker and the user's `Start`
and `Stop` may never come.

### Where code and comments disagree

The module states two more properties, which the code does not have and no run
therefore lists:

* `CountedOnce`: a document added between a flush's snapshot and its reset
  (`profiler.go:167`) is in no report, and when a tick's flush overlaps the last one
  the same documents are in two.
* `StopReturns`: a `Stop` while `getData` flushes has its signal dropped and waits, with
  the lock, for a `Done` that only a signal would bring (`profiler.go:106`); `getDocs`'s
  own `Stop` waits for the lock.

A `Stop` before `getData` has raised the wait group returns at once, its signal
dropped, with both goroutines running: the step is in the model (`WaitStop` while
`dataPc` is `spawn` or `add`), no property forbids it.

### Proved

For every number of documents, groups, ticks, receives and callers of `Stop`
(none of whom is called `data`, `docs` or `nobody`):

* `TypeCorrect`: `Spec => []TypeOK`, from `TypeInv`: the wait group is 1 exactly
  between `getData`'s `Add` and its `Done`.
* `SnapshotsCoherent`: `Spec => []SamplesMatch`. Inductive with `MapInv` (the map is
  coherent but for the document in hand, whose entry `getDocs` then holds) and
  `Phases` (`getDocs` does not run before it is spawned, and adds nothing while in
  `Stop`).

* `TicksShareNothing`: `Spec => []TicksDisjoint`, with `Fresh` (what is counted, about
  to be sent or sent is older than the document `CountDoc` counts next) and `Apart`
  (what the ticker has sent is neither counted any more nor about to be sent by it).
* `DigestCountsOnce`: `Spec => Exact`. `NoTick`: before the first tick only `getDocs` flushes,
  after its last document. `Whole`: until then the map counts
  exactly the documents that were added. `SampleDoc` is then `Add`, `Receive` is
  `Report`, every other step a stutter.

Model-checked only: the two liveness properties.

Not modelled: `FlushQueries` called by the user, cancelling the context,
`lastError`, `TimeoutsChan`, `docsChan` and `countersMapLock` (unused), and what is
computed from the samples.

## 8. pt-galera-log-explainer

| module | what it is |
|---|---|
| `GaleraTranslate` | the translation maps: recording and looking up (pure) |
| `GaleraWhois` | reading facts in any order, then the search |
| `GaleraLogCtx` | the context of a log and the handler of each kind of line (pure) |
| `GaleraLog` | one node's log, line by line, against what is true of the cluster |
| `GaleraTimeline` | events, merging, choosing the next row, transitions (pure) |
| `GaleraList` | the whole program: files, grep, merging, showing |
| `GaleraWhoisProofs` | the maps' types, that the search is exact, that lookups answer what was said |
| `GaleraLogProofs` | what a log's context holds is true of the cluster; the order of regexes |
| `GaleraListProofs` | a file yields the events asked for; of two files of a log none is lost; each event is shown once, in the order of time; each change of a column is announced once |
| `MCGaleraWhois`, `MCGaleraLog`, `MCGaleraList` | instances |

### State and actions

`db` is `translationsDB`, a record of four functions. `GaleraWhois` adds `tree`, the
`WhoisNode` values with the value each is under, and `stack`, the recursion of
`filter`: `todo` are the values whose links are still to be added (`FilterDB`), `kids`
those whose sub nodes are still to be visited (`Descend`); values are taken in any
order, as from a Go map. `facts`, `clock` and `files` stand for the reading: time does
not go back within a file, and may in the next one.

`m` is a context (`LogCtx`) with the maps. `Handle` in `GaleraLogCtx` gives, for an
event, the set of contexts its handler may leave (a set, since some handlers walk over
a map). A line of a log is a set of events, one per regex that matches, handled in any
order.

In `GaleraLog` the lines tell the truth about a cluster that changes. A member has one
address and two uuids, `HashOf` and, after a `Restart`, `Reborn`; `uuid` is the one it has
now. A view is a sequence of members, and the index of a member is that of its place in it
(`Idxs`), so it differs from view to view; the node may be out of a view. `View` is the
lines of one, read in their order: own index, count, a line per member, any of whose names
may be cut at 31 characters. Around it come, told in any order, components ahead of their
views (the group's thread does not wait for the printing), connections, changes of identity,
the node's own name and address (`Identity`, `OwnName`, `OwnAddress`). A log may begin in
the middle of a view. `topic` is what a log is about, so that each can be of some length:
views, the operator's views, transfers, votes. `selected`, `won` and `voting` are what
really happened to transfers and votes. The constraints on the lines are the assumptions the
program itself makes: transfers begin more than a hundredth of a second apart, votes come
one at a time on growing sequence numbers.

A line that matches two regexes is handled in both orders (`HandleBoth`). The operator prints
a view on one line, which matches up to four: `RegexOperatorMemberAssociations`,
`RegexOwnIndexFromView`, `RegexMemberCount`, and `RegexMemberAssociations` for its first member.
They are handled in every order (`OperatorView`, `HandleEach`).

In `GaleraList` a file is a window of its node's log (`held`, the numbers of its first and
last line), which is what rotation or copying leaves. `pos` is the number of the last line
handed over. A node writes its log in the order of time, and a regex matches a line once
(`HistoryAssumption`). `Open`, `ReadLine`, `EndOfFile` and `Merge` are `timelineFromPaths`
and `iterateOnGrepResults`; grep and the scanning goroutine are in `EndOfFile`, which can
happen only if what grep has still to write fits in its pipe (`PipeRoom`). `ListHeader`,
`Row` (with `TransitionSeparator`) and `Footer` are `TimelineCLI`, `Conflicts` and `Ctx` the
other commands. The regular expressions' text is left out: which regexes match a line is
part of the line. The one expression built by the program itself, the filter on dates of
`--since`, is modelled digit by digit (`BetweenDateRegex`); a calendar gives each time its
date, later times no earlier dates (`CalendarsAssumption`).

### Properties and runs

| run | instance | properties |
|---|---|---|
| `galera_whois` | 2 hashes, 2 addresses, 3 names (one long), 3 facts in 2 files, 2 times | `LookupsRight`: in whatever order the lines came, a hash's first address with the time of its earliest line, an address's latest hash, and a name or method that was said by then or is the first read; the one in force only where the lines about the key came in the order of time, no two at one instant. `FoundExactly`: the search finds what is linked, all of it, nothing else, once. `WhoisEnds` |
| `galera_log` | 3 members, one printed long, two reborn under new uuids; 4 views, one empty; a log of 3 lines or whole views, with the operator or without, of 5 lines about transfers, of 6 about votes | `OwnIdentity`: own names, hashes and addresses are the node's own. `Propagated`: what got into the maps is true, and a known address has its known name. `WinnerIsOwn`: a vote is kept once with the winner announced for it. `OrderFree`: of lines that match two regexes the order does not matter. These but `WinnerIsOwn` are about logs outside the operator. `ViewOrderFree`: of the four regexes that the operator's view matches the order does not matter either, when the index and the count it tells are known already |
| `galera_list` | 3 files of 2 nodes, a file being any window of a log of 6 lines; 10 command lines | `FoundAsAsked`: a file yields the events between `--since` and `--until`, counted with their repetitions. `NoneLost`: merging keeps every dated event, but at the instant where a file starts or ends. `ShownOnceInOrder`, `TransitionsOnce`: the column display. `FilesRead` |

Two addresses and two hashes are enough for a circle that goes through a reused address;
three facts make one. Two files are enough for any order between two lines; six lines of a
log give windows that are apart, touch, overlap, contain each other, start or end together.
The node's place is the first, the second or none in the four views, so an index
learnt from one belongs to another member in the next; three are a component, the view before it
that is printed late, and what comes of them. The log of node `a` has a repeated event, an event without a
date and a change of version; that of `b` a recovery log's line, a conflict, a line its
handler rejects and one that is too long. The calendars have changes of day, ten, month,
year and decade for the date filter. `Horizon` is the last time, so that an event lies on
it. Deadlock is not checked: the program ends.

Fairness: weak fairness of the search (`Filter`), a recursion that nothing interrupts, and
of reading (`Reading`): grep, the scanner and the reader each run when they can. No
fairness is needed for the display, of which only safety is claimed.

### Proved

For all sets of hashes, addresses, names, methods, times, facts and files:

* `DBTypeCorrect`: `Spec => []DBTypeOK`. It is inductive; the lemmas are about `Upsert`,
  `Sooner` and `AddHashToIP`, which change an entry of a map in place.
* `FoundExactlyTheorem`: `Spec => []FoundExactly`. The invariant `WalkInv` says where the rest
  of the work is: a value found is `Linked` (all it leads to is in the tree), or it
  `Waits` in a node of the stack, or it is under a value that is `Above`, still to be
  descended into (`Pending`). With an empty stack only the first is left, and the tree is
  closed under links. That everything found is linked to the search is `OnlyLinked`,
  inductive because nodes of the stack hold values that were found (`StackInv`); that a
  value is found once is `FoundOnce`, from `LinkShape`: a value's links are one entry per
  value. Nothing in it depends on the order of the walk.

* `LookupsRightTheorem`: `Spec => []LookupsRight`, with the four parts as above: what a
  lookup may rely on in any order of reading, and what only in the order of time. The
  invariant `LookInv` keeps for each key what its slice owes to the lines about it. In any
  order (`Told`): each value kept was said at its time, and the first one first. In order
  (`Kept`): the last value is the last line's, no time is later, and a lookup at any time
  gives the line in force then. For a hash (`First`): the first line's address with the
  earliest time. `ValueAppended` and `ValueTaken` say what the scan of `ValueAt`, a
  recursive function, gives after one value more and which value it takes at all; they are
  proved by a least counterexample, since the induction theorems cannot be used. The sort of
  the hashes of a reused address enters as what it is, an arrangement in order of time.

For every cluster, set of views and log of a member, however long (`GaleraLogProofs`),
outside the operator, where `OwnIdentity` is false (below):

* `TypeCorrect`: `Spec => [](topic # "operator" => TypeOK)`; `OwnIdentityTheorem` and
  `PropagatedTheorem`: `Spec => []P`. The invariant is `LogInv`. Its first part, `Good`, is about
  the program alone: the context names only the own node (names, hashes, addresses), the maps
  are true of some life of the members (`TrueMaps`), and once the name and the address are
  known the address is shown under the name. The second, `TransfersTrue`, relates each transfer
  kept to one that was really selected, and holds because those are `Apart` in time. There is
  one lemma per handler. `Good` does not say that the index known is right: it may be that
  of an earlier view, or of a component told ahead of its view. What saves the program is that
  a view's lines come at once, its index first. So while a view is read the only index known
  is the one of that view (`Knows`), from its first line on or, in a log that begins in the middle
  of it, because none was known before the first line (`LinesInv`); each further line keeps it so
  (`ViewLineKeeps`, `ReadOn`). `UuidsTrue`: a member goes by a uuid of one of its lives.
* `WinnerIsOwnTheorem`: `ASSUME VotesApart PROVE Spec => [](topic # "operator" =>
  WinnerIsOwn)`, from `VoteInv`: what a vote of the context holds was voted for under its
  sequence number, its winner is the one announced, no sequence number is there twice.
  `VotesApart` says that no checksum is voted for under two sequence numbers, without which
  it is false (see below).
* `OrderFreeTheorem`: `Spec => []OrderFree`, for the lines that two regexes match outside the
  operator: a component and the index in it, a connection established and the own uuid in it,
  a transfer that ends for a joiner unknown. The handlers do not commute in general; on what
  such lines say, in contexts that satisfy `LogInv`, they do.

For every log, every window of it, calendar and command line (`GaleraListProofs`):

* `FoundAsAskedTheorem`: `Spec => []FoundAsAsked`. The invariant is `ReadInv`: while a file is
  read, what was found (`lt`) stands for (`Told`) the events of the lines so far that were
  asked for (`ReadLines`), and `stamp` is the date in force at the last of them. Three
  arguments meet there. The date filter: `DateMatched`, that the regex made for a date
  matches it and every later one, whatever the digits; so grep prints every line that
  counts, and the date in force at a line that is asked for is the same among the lines
  grep prints as among all those searched (`AskedIsScanned`), which is why what is wanted can
  be said without mentioning grep (`WantedIs`). The order of the log: behind the first line
  past `--until` nothing is wanted (`NothingLeft`). Folding: a repetition counted on the event
  before leaves the sum (`TotalFold`), and with it the number of events told
  (`AddEventTold`); the regexes of a line are tried in any order (`LineTold`). The sums and the
  states after each regex are recursive functions, unfolded by a least counterexample.

* `TransitionsOnceTheorem`: `Spec => []TransitionsOnce`. `ShowInv` relates the columns left to
  show, those of the header (`report`) and the contexts of the last two rows: what is left of
  a column is an end of it, `current` has the context of the event shown last, and what was
  announced is `Changes` of each pair of events passed, in order. A row then adds at most
  one pair per column. Aligning the columns (`Aligned`): `StackPrioritizeFound` cuts the list
  where as many tests are left as lines are needed, so every change before or behind the cut
  is kept whatever the height; every column has four tests (`TestsFour`), so there is always such
  a place. `ListInv` is the rest: columns are not empty when the header is made.
* `TypeCorrect`: `Spec => []TypeOK`, from `ReadInv` and `ListInv`.
* `ShownOnceInOrderTheorem`: `Spec => []ShownOnceInOrder`. `OrderInv` follows the dates from the
  log to the rows. While a file is read, nothing in `lt` is later than a line still to come
  (`FileOrder`), so each event is added at the end in order (`AddedInOrder`), folded or not.
  Merging keeps columns in order (`MergedTimed`): `Continue` joins only where the second
  file starts no earlier than the first ends, or is cut there (`TimedCut`). While rows are shown,
  nothing left of a column is earlier than what was shown of any (`LeftInTime`): a row takes
  the columns whose first date is least, or the undated events at their heads (`NextRow`).
  `SaidInTurn` and `AllShown` give that a column is shown to its end, each event once; so the
  contexts at the end are those of the header. Two hypotheses. `Before2038`:
  no date is past `Horizon`, since such an event is never shown (`IterateNode`). `OneFileEach`:
  with `--pxc-operator` the lines are all of the error log. Without it the order can fail: the
  column of a pod that has a recovery.log line at 7 before error.log lines at 4 and 6 (files
  2..7 and 4..6, joined by their error log dates) is cut at 5 when the file 1..5 is merged,
  from the recovery.log line on, and 4 is shown behind 5. TLC finds it with those three files.
  `galera_list` has a recovery.log line under `--pxc-operator`, in files where this does not happen.

* `NoneLostTheorem`: `Spec => []NoneLost`, for any log and any two files of it. Every event found
  is of a line of its file, with that line's date (`FileFrom`, `LineOf`). So, the log being in
  the order of time, what one file has strictly between the first and the last time of the
  other is of a line of both (`Within`: the line lies between two lines of the other file, is
  before its first long line, and has the same date in force), and was found in both. Then
  the cases of `MergeOrdered`: of two files that start at one time, or of which one ends within
  the other, one has it all but at the ends; else `Continue` keeps the first whole and of the
  second what is later, and what it cuts is within the first (`OrderedPieces`).
  `LostInv` is where the reading is: nothing merged; one file merged, all columns holding
  what it yielded (`One`); or nothing left to read. Three hypotheses, each needed. Two files:
  of three, the one read last may be dropped (below). One node (`TwoPieces`): a column that
  mixes two nodes' files, as `--merge-by-directory` makes of two in one directory, is not a
  piece of a log. No `--pxc-operator` (`NoOperator`): the column of a pod is put in the place of
  that of a pod of the same name in another namespace (`timeline.go:87`). Of the last two,
  `galera_list` has files of two nodes and `--pxc-operator`, in columns that do not mix them.

Model-checked only: liveness, `ViewOrderFree`, and `NoneLost` beyond these hypotheses.

### Limits found while modelling

Stated in `GaleraList` but false of the code, and in no run: `EveryPieceKept`, that log files
split by date are put together again, as the comment at `types/timeline.go:90` has it. With
three pieces of which the last is read before the middle one, `MergeTimeline`
(`timeline.go:134-137`) takes the middle one to be contained in what it has and drops it
(`SplitPaths`, `Split` and `SplitOptions` of `MCGaleraList` are the instance).

The properties above leave room for these, each of which is in the model:

* With `--pxc-operator`, two pods of one name in two namespaces: the second's column takes the
  place of the first's, which is lost (`timeline.go:87`, keyed by the name alone).
* Events at the very instant where an overlapping file starts or ends are lost or shown
  twice (`CutTimelineAt`, strict); a second file without dates is dropped; events later
  than 2038 are never shown (`IterateNode`).
* `Inherit` repeats the conflicts of files that overlap, and does not carry `minVerbosity`, so
  a column may be taken for empty (`timelinecli.go:214`).
* A line of more than 64 kB ends the reading of a file without a word
  (`internal.go:162`), and the command then waits for a grep that waits for it, unless
  what is left fits in the pipe.
* Leaving at `--until` (`internal.go:213`) leaves the scanning goroutine blocked for ever.
* `conflicts` prints one node's conflicts (`return nil` inside the loop), chosen by a map.
* A vote "inconsistent with group" is kept under the checksum of success
  (`ConflictFromMD5`), so two votes in success share it (`SharedMD5s` of `MCGaleraLog` is
  the instance with which `WinnerIsOwn` fails).
* A lookup of a name or method earlier than the first recorded value gives that value, which is not
  the first in time when files are read out of order (`translate.go:121`); a later one gives the
  last appended as the latest (`translate.go:143`), so that out of order, or of two at one
  instant, it may be one not in force then. This is why `InForce` has its condition.
* An operator's log may give the node another one's name. The one line of a view matches
  `RegexMemberAssociations` too, and the regexes are tried in the order of a map
  (`internal.go:225-232`): if it is tried first, its first member is compared with the index
  of the view or component before (`idents.go:76`). So after a component in which the node
  has the index 0 comes a view in which another member has it, and that member's name and
  uuid are taken for the node's. `OwnIdentity` would be refuted without its guard on the topic.
  The comment at `operator.go:72-73` expects the common regexes to miss that
  line.

## 9. pt-mongodb-summary

| module | what it is |
|---|---|
| `MongoSummary` | `main` and the questions it asks |
| `MCMongoSummary` | a mongos, a config server, a shard of two members, a lone mongod |
| `MongoSummaryProofs` | `TypeOK`, `MissingIsSaid` and `GatheredTrue` |

### State and actions

`pc` is where `main` is. There is an action per question and per answer that changes what
happens next: `ParseFlags`, `GetClientOptions`, `Connect`, `Hostnames`, `MongosInfo`,
`HostInfo`; `AskMembers`, `AskMember`, `BareMember`, `MemberView` and `AddMember` for
`GetReplicasetMembers`; the samples of `getOpCountersStats`; security, the oplog, the
cluster's collections, the balancer; then the rendering. Each question may be answered,
refused, or answered by a server whose role has moved or that has restarted since.
`GetHostnames` may give the hosts of the set, those of the shard map, nothing at all,
"unsharded" (203) or another error. Of a section the model keeps whether it is there
(`sections`) and whether something was complained about on the terminal (`logged`): a
complaint has a level, and is heard if the option `--log-level` lets it through (`Complain`,
`Heard`); of the members their rows, of the counters their least, greatest and total. A
local variable is emptied when its function returns. Hosts are asked in the order of their
names (`Place`).

### Properties and run

`mongo_summary` checks

* `GatheredTrue`: whatever roles do between two questions, the member list has at most one
  primary per set and a row for each host asked; the total of an operation counter is what
  it read last less what it read first, and lies within as many times its least and its
  greatest difference (a server that restarts counts from zero again).
* `MissingIsSaid`: which sections may be missing from a report without a word. At `info` and
  below none, except the cluster's when isMaster was not answered and `main` does not know
  that the host is a mongos. At `warn`, the default (`main.go:59`; the help says "error"),
  the counters, the oplog and the cluster's two sections may be, since `main` reports their
  failure with `Printf` and `Infof` (`main.go:310`, `323`, `326`, `335`, `341`), and no
  other. No counters are wanted with zero samples.

Nothing is claimed about the end of `main`, and no fairness is assumed: the context is
`context.Background()` (`main.go:258`) and only the selection of a server has a timeout (`1133`), so
that a question to a host that hangs has no deadline.

Five hosts have one of each role and a set of two, the fewest in which two members tell
of each other; two samples give one difference; counters up to 2 rise and fall;
the two log levels are the one that hears `Infof` and the default that does not.
The run fires every branch of the command line.

### Proved

For every deployment, command line, number of samples and bound:

* `MissingIsSaidTheorem`: `Spec => []MissingIsSaid`, for every level. From `AskedSoFar`: at
  each place of `main`, the sections it has passed are in the report, were complained about,
  or may be silent at that level. `main` asks in one order, so each step adds one.
* `GatheredTrueTheorem`. One primary per set is not inductive, since each view names its own.
  `ViewInv`: when a row says primary, every member of its set has a row, or the view that
  named it is still being taken over; a later view therefore adds no member of that set.
  `ListedInv`: each host to be asked is still to be asked or has a row. `OpsInv`: the readings
  are numbers and the totals add up after each.

* `TypeCorrect`: `Spec => []TypeOK`. The cluster's collections are finitely many, and command
  lines are made of the program's options (`CollsAssumption`, `CommandLinesAssumption`).

### Limits found while modelling

`WarningsAreNotFatal` (when the host answered, the exit code is 0) is stated and false of
the code, and in no run: the templates of three sections (`Unguarded`) use their section
without looking whether it is there, so in text format one that failed makes the program
exit with 1 after it had logged the failure and gone on (`main.go:354-417`); with
`--running-ops-samples=0` that always happens.

Each of these is in the model: a member's process and engine are those of the host it was
seen from (`util.go:123-133`); the row of a member that is down, described by another, is
replaced by a bare one when its own turn comes (`util.go:101-113`); one host that cannot be
reached fails the whole member list, while one whose status fails is only skipped in the
oplog section; errors of `getHostnames` other than "not sharded" are not logged
(`main.go:281`), and one of `getNodeType` skips the cluster's sections silently, on a mongos
too; a database whose collections cannot be listed is passed over, a collection dropped
between listing and `collStats` loses the section; `Avg` is the total, never divided.

## 10. pt-k8s-debug-collector

| module | what it is |
|---|---|
| `K8sResources` | what is exported, redacted and written where (pure) |
| `K8sCollector` | `main`, the export goroutines, the workers, the archive |
| `MCK8sCollector` | the cluster of the runs |
| `K8sCollectorProofs` | `Collected`, `TypeOK` and `OnceAndRedacted` |

### State and actions

`pc` is where `DumpCluster` is, `task` the state of each goroutine of `export` (waiting for
the semaphore, holding it, done), `queue` and `closed` are `jobsChannel`, `cancelled` the
context. `at`, `job`, `left`, `types` and `type` are a worker's place and what it has left
to do; `used` is `usedPorts` and `forwards` says whose forwarder listens at a port.
`archive` is the set of entries, `again` the paths written twice, and `tar` whether the
archive can still be written: "full" once the disk is, "short" once an entry was cut
before the size its header announced. Writes happen under a lock, so a write is one step.
`errors` is what was logged as an error.

An action is a section between two points where another goroutine can matter: acquiring a
semaphore, a call to the server with its outcome, a write, a send, a receive. A call
may fail while `failures` is below `MaxFailures`, and does once the context is cancelled;
the disk may fill at any write. `AcquireFails` is a semaphore's refusal once the context is
cancelled. Forwarding is two steps: the port is stored in the map (`StorePort`), then the forwarder
becomes ready or not (`PortForwardPod`). A file is looked for in the containers of the
specification, a log is taken of its init containers too (`AllContainers`).

### Properties and runs

| run | instance | properties |
|---|---|---|
| `k8s_collect` | 4 pods of 2 kinds in 2 namespaces, one that does not run; six export goroutines, 2 workers, a channel of 1, one failure | `Collected`: when the collector says it is complete every resource, log and summary is in the archive or its error in the log, and nobody writes to the archive any more. `OnceAndRedacted`: no path is written twice, unless a secret is named like a resource's file; no volume of pgbouncer's secrets in a specification or its template, and no secrets themselves. `Ends` |
| `k8s_forward` | 2 pods behind one port | `SummaryOfPod`, a violation |

Two workers are the fewest that race, and give a permit to each semaphore; a channel of
one is full while a pod waits. One failure lands in any step; a second would be
independent of it, but for the disk, which is not counted. Weak fairness of the program
as a whole (`Runs`): goroutines run, calls return or fail.

`Ends` allows one state, `Abandoned`: a worker that finds the disk full cancels the context,
all workers leave, and `main` waits for ever to hand the next pod to nobody
(`dumper.go:256`). The `cancelled` in `Collected` is the other side: if the pods fitted in the
channel, the program ends with 0 and pods missing. `JobsCap` is 1 to have both.

`OnceAndRedacted` is about the entries, not about the archive as a file: once `tar` is
"short" (or "full" in the middle of an entry) it cannot be read to its end. A secret named
like a pod, whose directory then stands where the secret's file does, is not covered either.

`k8s_forward`: the comment at `kube_utils.go:27-29` allows ignoring "port already forwarded"
only among calls that share a context. `getPodSummary` makes a context per pod and ignores it
(`summary.go:58`), so a second pod behind the same local port is summarised from the
first one's database.

### Proved

For every cluster, number of workers (one at least), channel and failures:

* `CollectedTheorem`: `Spec => []Collected`. The invariant has a part per actor. `MainInv`: which
  pods `main` still has, when the channel is closed. `TaskInv`: a goroutine that is done has
  accounted for its resource. `WorkerInv`: how far a worker has come with its pod
  (`Progress`). `LeaveInv`: a worker leaves only when the channel is closed and empty, or the
  context is cancelled. `PodInv`: a pod is with `main`, in the channel, with a worker, or
  accounted for (`Somewhere`). `wg.Wait` then gives the conclusion. That what was
  accounted for stays so is `Grow`: archive and log only grow, a full archive stays full.
* `TypeCorrect`: `Spec => []TypeOK`, which holds that the channel respects its capacity and that
  a port is listened at only while the worker that forwarded it takes its summary
  (`ForwardInv`).

* `OnceAndRedactedTheorem`: `Spec => []OnceAndRedacted`. That no path is written twice needs
  to know who may still write it. `OneWorkerInv`: a pod is with `main`, in the channel or
  with one worker, never with two. `SpawnInv`: goroutines that a later step spawns have not
  run. `PathInv`: a path that somebody has still to write is not in the archive. Paths are
  joined as the code joins them, so that a secret's file may have the path of a resource's
  (`paths.go:6`, `31`): `NamedLikeAFile` is that one exception. That the volumes written
  refer to no pgbouncer secret and the mounts to no volume that was taken out is `Redacted`,
  for the specification and its template; it rests on lemmas about `K8sResources`.
  Environment variables and job templates of CronJobs are in the model and are exported as
  they are. The assumptions are what a cluster is: no namespace is called "cluster-scope"
  (it would share the directory of the resources without a namespace), a resource has a
  name, a pod belongs to one operator at most, the files listed for it differ
  (`NamesAssumption`); and the API server admits only objects whose mounts are among their
  volumes (`ObjectsAssumption`).

Model-checked only: `Ends`.

### Limits found while modelling

With one worker (`concurrent-export-workers=1`) the semaphores have no permit
(`dumper.go:134`) and `export` waits for ever: `Ends` fails with a single worker. Pods of all
namespaces are dumped whatever `--namespace` says (`dumper.go:249`); the value of
`--resource` is not looked at beyond "none" (`dumper.go:144`); a stream cut short makes every
later header fail, and `exportGeneric` and `DumpToArchive` do not look at the error
(`tar.go:56`, `dumper.go:385`); `export` may return an error while its goroutines still
write, and `Close` takes no lock (`dumper.go:294`, `tar.go:35`); of two API groups with a
resource of one name the second is not exported; job templates of CronJobs and environment
variables are not redacted; an error of `dumpSSLInfo` is logged as information; waiting for the informer has no end.

## 11. Not modelled

* **pt-galera-log-explainer**: contexts inherited from an earlier file, in `GaleraLog`
  (`GaleraList` has them, without identities); a member that changes its address; the
  regular expressions, `sed` and `regex-list`, JSON output, colours and widths. The names of
  SSTs and conflicts are values, not pointers shared between contexts.
* **pt-mongodb-summary**: members that leave or join a set between two questions; what the
  sections say beyond the figures named above; rounding and units.
* **pt-mongodb-query-digest**: options, sorting, printing, the fingerprinter (a rewriting of one
  document, sequential).
* **pt-mongodb-index-check, pt-secure-collect, pt-pg-summary, configuration and version check**:
  sequential, without state that outlives a call; the first is in the plan.
* **pt-k8s-debug-collector**: options, kubeconfig, the text of certificates, environment variables
  in the paths of files, the version check.
* **The other Perl tools and libraries**: not yet; section 2 has the order. Daemon, waiters and
  replication tools have protocols worth a module; the reports and shell tools do not.
