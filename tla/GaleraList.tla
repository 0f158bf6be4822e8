----------------------------- MODULE GaleraList -----------------------------
(***************************************************************************)
(* pt-galera-log-explainer as a whole, for the list, conflicts and ctx     *)
(* commands (internal.go, list.go, conflicts.go, ctx.go): the files are    *)
(* searched one after the other, each by a grep whose lines a goroutine    *)
(* hands over an unbuffered channel; the events of a file are merged into  *)
(* the timeline; then the command shows it.                                *)
(*                                                                         *)
(* A file is a window of its node's log: what log rotation, or copying a   *)
(* log that is still written to, leaves.                                   *)
(***************************************************************************)
EXTENDS GaleraTimeline

CONSTANTS Paths,     \* the files, in the order they are given
          History,   \* node -> its log: lines [id, date, ftype, long, es]
          NodeOf,    \* path -> the node whose log it is
          Windows,   \* what the files may hold: functions path -> <<first, last>>
          Options,   \* command lines
          Calendars, \* time -> its date [y, m, d], y being the last two digits
          PipeRoom,  \* lines that fit in grep's output pipe
          FooterAt   \* lines printed from which the header is repeated

ASSUME PathsAssumption ==
  /\ Paths \in Seq(ToSet(Paths)) /\ NodeOf \in [ToSet(Paths) -> DOMAIN History]
  /\ \A w \in Windows : \A p \in ToSet(Paths) :
       w[p] \in (DOMAIN History[NodeOf[p]]) \X (DOMAIN History[NodeOf[p]])
\* A node writes its log in the order of time; a regex matches a line once, and
\* the operator's lines list the members of a view.
ASSUME HistoryAssumption ==
  \A n \in DOMAIN History : LET log == History[n] IN
    /\ log \in Seq(ToSet(log))
    /\ \A i \in DOMAIN log : /\ log[i].date \in 0..MaxTime /\ IsFiniteSet(log[i].es)
                             /\ \A e, f \in log[i].es : e.re = f.re => e = f
                             /\ \A e \in log[i].es :
                                  /\ "re" \in DOMAIN e
                                  /\ e.re = "RegexOperatorMemberAssociations" =>
                                       "assocs" \in DOMAIN e /\ e.assocs \in Seq(ToSet(e.assocs))
    /\ \A i, j \in DOMAIN log : i < j =>
         log[i].id # log[j].id /\ (log[j].date = 0 \/ log[i].date <= log[j].date)
NotAfter(a, b) == \/ a.y < b.y
                  \/ a.y = b.y /\ a.m < b.m
                  \/ a.y = b.y /\ a.m = b.m /\ a.d <= b.d
ASSUME CalendarsAssumption ==
  \A c \in DOMAIN Calendars :
    /\ Calendars[c] \in [Times -> [y : 0..99, m : 1..12, d : 1..31]]
    /\ \A t, u \in Times : t <= u => NotAfter(Calendars[c][t], Calendars[c][u])
ASSUME OptionsAssumption ==
  \A o \in Options : {o.since, o.until} \subseteq 0..MaxTime /\ o.calendar \in DOMAIN Calendars

VARIABLES opts, held,     \* the command line; path -> the window of the log in it
          phase, todo,    \* what the program is doing; files left to search
          pos, stamp, m, lt,  \* in the current file: last line handed over, last
                          \* time seen, context and translations, events found
          tl,             \* the timeline
          accepted,       \* history: path -> the events found in it
          last, current,  \* column -> context at its last row, and at this one
          rows, announced, heads, report  \* what was printed (report: what is to be)
reading == <<pos, stamp, m, lt>>
printed == <<last, current, rows, announced, heads, report>>
vars == <<opts, held, phase, todo, reading, tl, accepted, printed>>
-----------------------------------------------------------------------------
(* The regexes of the command, and grep.                                    *)

Lines(path) == held[path][1]..held[path][2]
LineAt(path, i) == History[NodeOf[path]][i]

Kind(re) ==
  CASE re \in {"RegexShift", "RegexRestoredState"} -> "states"
    [] re \in DOMAIN EventState -> "events"
    [] re \in DOMAIN ViewState \cup {"RegexNewComponent", "RegexNodeEstablished",
         "RegexNodeJoined", "RegexNodeLeft", "RegexNodeChangedIdentity"} -> "views"
    [] re \in {"RegexSSTRequestSuccess"} \cup SSTEnds \cup DOMAIN SSTStage \cup SSTNotes -> "sst"
    [] re \in {"RegexDesync", "RegexResync", "RegexInconsistencyVoteInit",
         "RegexInconsistencyVoteRespond", "RegexInconsistencyVoteInconsistentWithGroup",
         "RegexInconsistencyWinner", "RegexInconsistencyRecovery",
         "RegexInconsistencyVoteRecomputed"} -> "applicative"
    [] re \in {"RegexNodeNameFromEnv", "RegexNodeIPFromEnv", "RegexPodName",
         "RegexOperatorMemberAssociations"} -> "operator"
    [] OTHER -> "idents"

Kinds == {"idents", "states", "views", "events", "sst", "applicative"}
Operator == opts.merge = "pod"   \* --pxc-operator

\* States and events are searched for even when they are not asked for: they
\* colour the columns.
RegexesToUse ==
  {"idents"} \cup (IF Operator THEN {"operator"} ELSE {})
  \cup CASE opts.command = "conflicts" -> {"applicative"}
         [] opts.command = "ctx" -> Kinds
         [] opts.command = "list" ->
              opts.asked \cup (IF opts.skipColor THEN {} ELSE {"states", "events"})

SetVerbosity(re) ==
  IF opts.command = "list" /\ Kind(re) \in {"states", "events"} \ opts.asked
  THEN DebugMySQL ELSE Verbosity(re)

\* A number of two digits after u, digit by digit: with the same tens, then
\* with greater tens.  [n-9] with n = 10 is a class of every digit.
SameTens(u, v) == v \div 10 = u \div 10 /\ (v % 10 > u % 10 \/ u % 10 = 9)
MoreTens(u, v) == v \div 10 > u \div 10 \/ u \div 10 = 9
\* Mutant: no date of the same tens.
BetweenDateRegexMutant(since, date) ==
  \/ date = since
  \/ date.y = since.y /\ date.m = since.m /\ MoreTens(since.d, date.d)
  \/ date.y = since.y /\ MoreTens(since.m, date.m)
  \/ MoreTens(since.y, date.y)
BetweenDateRegex(since, date) ==
  LET after(u, v) == (u # 9 /\ SameTens(u, v)) \/ MoreTens(u, v)
  IN \/ date = since
     \/ date.y = since.y /\ date.m = since.m /\ after(since.d, date.d)
     \/ date.y = since.y /\ after(since.m, date.m)
     \/ SameTens(since.y, date.y) \/ MoreTens(since.y, date.y)   \* never the unit 9 alone

\* What is searched for in each line, then whether grep prints it.
Matching(line) == {e \in line.es : Kind(e.re) \in RegexesToUse /\ e.re \notin opts.excluded}
GrepPrints(line) ==
  /\ \E e \in line.es : Kind(e.re) \in RegexesToUse
  /\ \/ opts.since = 0 \/ line.date = 0
     \/ BetweenDateRegex(Calendars[opts.calendar][opts.since], Calendars[opts.calendar][line.date])
     \/ \E e \in line.es : Kind(e.re) = "operator"
Grep(path) == {i \in Lines(path) : GrepPrints(LineAt(path, i))}

\* The scanner stops at the first line of more than 64 kB.
UpToLong(path, lines) ==
  LET long == {i \in Grep(path) : LineAt(path, i).long} IN {i \in lines : \A j \in long : i < j}
Scanned(path) == UpToLong(path, Grep(path))

FileType(line) == IF Operator THEN line.ftype ELSE "error.log"
-----------------------------------------------------------------------------
(* Reading a file.                                                          *)

Path == Head(todo)
NoContext(path) == [ctx |-> NewLogCtx(path), db |-> m.db]

Fail == /\ phase' = "failed"
        /\ UNCHANGED <<opts, held, todo, reading, tl, accepted, printed>>

\* os.Stat: the command gives up at a missing file or a directory.
BadPath == phase = "open" /\ todo # <<>> /\ Path \in opts.bad /\ Fail

Open ==
  /\ phase = "open" /\ todo # <<>> /\ Path \notin opts.bad
  /\ phase' = "read" /\ pos' = 0 /\ stamp' = 0 /\ lt' = <<>>
  /\ m' = NoContext(Path)
  /\ UNCHANGED <<opts, held, todo, tl, accepted, printed>>

\* The regexes a line matches are tried in a map's order.
HandleEvent(s, line, e, ts) ==
  {[m |-> r, lt |-> AddEvent(s.lt, LogInfo(line.id, line.date, e, SetVerbosity(e.re), r.ctx))] :
     r \in HandleAt([s.m EXCEPT !.ctx.ftype = FileType(line)],
                    Put(Put(e, "ftype", FileType(line)), "ts", ts), SetVerbosity(e.re))}
HandleInOrder(line, order, ts) ==
  LET after[i \in 0..Len(order)] ==
        IF i = 0 THEN {[m |-> m, lt |-> lt]}
        ELSE UNION {HandleEvent(s, line, order[i], ts) : s \in after[i - 1]}
  IN after[Len(order)]
HandleMatches(line, ts) == UNION {HandleInOrder(line, order, ts) : order \in SetToSeqs(Matching(line))}

\* iterateOnGrepResults: a line without a date is taken to be of the last date.
Ahead(lines) == {i \in lines : i > pos}
ReadLine ==
  /\ phase = "read" /\ Ahead(Scanned(Path)) # {}
  /\ pos' = Min(Ahead(Scanned(Path)))
  /\ LET line == LineAt(Path, pos') IN
       /\ stamp' = IF line.date = 0 THEN stamp ELSE line.date
       /\ \/ opts.since > stamp' /\ UNCHANGED <<phase, m, lt>>
          \/ /\ opts.since <= stamp' /\ opts.until # 0 /\ opts.until < stamp'
             /\ phase' = "merge" /\ UNCHANGED <<m, lt>>
          \/ /\ opts.since <= stamp' /\ (opts.until = 0 \/ opts.until >= stamp')
             /\ \E s \in HandleMatches(line, stamp') : m' = s.m /\ lt' = s.lt
             /\ UNCHANGED phase
  /\ UNCHANGED <<opts, held, todo, tl, accepted, printed>>

\* Mutant: grep is waited for before its output is read.
EndOfFileMutant ==
  /\ phase = "read" /\ Ahead(Scanned(Path)) = {} /\ Cardinality(Grep(Path)) <= PipeRoom
  /\ phase' = "merge"
  /\ UNCHANGED <<opts, held, todo, reading, tl, accepted, printed>>

\* The scanner ends.  The program then waits for grep, which ends if what it
\* has left to write fits in the pipe.
EndOfFile ==
  /\ phase = "read" /\ Ahead(Scanned(Path)) = {}
  /\ Cardinality(Ahead(Grep(Path))) <= PipeRoom
  /\ phase' = "merge"
  /\ UNCHANGED <<opts, held, todo, reading, tl, accepted, printed>>

Merged ==
  CASE lt = <<>>                 -> {tl}
    [] lt # <<>> /\ opts.merge = "skip" -> {Put(tl, Path, lt)}
    [] lt # <<>> /\ Operator     -> MergeByPodnameElsePath(tl, Path, lt)
    [] lt # <<>> /\ opts.merge = "directory" -> MergeByDirectory(tl, Path, lt)
    [] OTHER                     -> MergeByIdentifier(tl, lt, m.db)

\* What the history keeps of an event: `at' is when it is known to have happened.
Said(li) == [id |-> li.id, re |-> li.re, rep |-> li.rep, at |-> IF Dated(li) THEN li.date ELSE 0]

\* Mutant: the next file is read from where this one stopped.
MergeMutant ==
  /\ phase = "merge"
  /\ tl' \in Merged
  /\ accepted' = Put(accepted, Path, [i \in DOMAIN lt |-> Said(lt[i])])
  /\ todo' = Tail(todo) /\ phase' = "open"
  /\ lt' = <<>> /\ UNCHANGED <<m, pos, stamp, opts, held, printed>>

Merge ==
  /\ phase = "merge"
  /\ tl' \in Merged
  /\ accepted' = Put(accepted, Path, [i \in DOMAIN lt |-> Said(lt[i])])
  /\ todo' = Tail(todo) /\ phase' = "open"
  /\ lt' = <<>> /\ pos' = 0 /\ stamp' = 0 /\ UNCHANGED m
  /\ UNCHANGED <<opts, held, printed>>

NothingFound == phase = "open" /\ todo = <<>> /\ DOMAIN tl = {} /\ Fail
-----------------------------------------------------------------------------
(* Showing what was found.                                                  *)

Command(c) == phase = "open" /\ todo = <<>> /\ DOMAIN tl # {} /\ opts.command = c

\* conflicts.go: the conflicts of the first node that has some, in a map's order.
Conflicts ==
  /\ Command("conflicts")
  /\ LET have == {k \in DOMAIN tl : Last(tl[k]).ctx.conflicts # <<>>}
     IN IF have = {} THEN UNCHANGED report
        ELSE \E k \in have : report' = Put(report, k, Last(tl[k]).ctx.conflicts)
  /\ phase' = "done"
  /\ UNCHANGED <<opts, held, todo, reading, tl, accepted, last, current, rows, announced, heads>>

\* ctx.go
Ctx ==
  /\ Command("ctx")
  /\ report' = GetLatestContexts(tl) /\ phase' = "done"
  /\ UNCHANGED <<opts, held, todo, reading, tl, accepted, last, current, rows, announced, heads>>

\* TimelineCLI: the columns with nothing to show are left out; the header has
\* what is known of each node in the end.
ListHeader ==
  /\ Command("list")
  /\ tl' = RemoveEmptyColumns(tl, opts.level)
  /\ current' = [k \in DOMAIN tl' |-> tl'[k][1].ctx]
  /\ announced' = [k \in DOMAIN tl' |-> <<>>]
  /\ heads' = <<Header(GetLatestContexts(tl'))>>
  /\ report' = tl'
  /\ phase' = "show"
  /\ UNCHANGED <<opts, held, todo, reading, accepted, last, rows>>

Visible(li) == opts.level >= li.verbosity /\ li.msg # NoMsg

\* A transition is printed when some column has one; all columns' contexts are
\* then brought up to date, so that it is not printed again.
Row ==
  LET next == IterateNode(tl)
      before == [k \in next \cup DOMAIN last |-> IF k \in next THEN current[k] ELSE last[k]]
  IN
  /\ phase = "show" /\ next # {}
  /\ current' = [k \in DOMAIN current |-> IF k \in next THEN tl[k][1].ctx ELSE current[k]]
  /\ announced' = LET separator == TransitionSeparator(before, current')
                  IN [k \in DOMAIN announced |-> announced[k] \o Changes(separator[k])]
  /\ last' = IF announced' = announced THEN before ELSE current'
  /\ rows' = Append(rows, [events |-> [k \in next |-> Said(tl[k][1])],
                           printed |-> \E k \in next : Visible(tl[k][1])])
  /\ tl' = [k \in DOMAIN tl |-> IF k \in next THEN Tail(tl[k]) ELSE tl[k]]
  /\ UNCHANGED <<opts, held, phase, todo, reading, accepted, heads, report>>

Footer ==
  /\ phase = "show" /\ IterateNode(tl) = {}
  /\ heads' = IF Cardinality({i \in DOMAIN rows : rows[i].printed}) >= FooterAt
              THEN Append(heads, Header(current)) ELSE heads
  /\ phase' = "done"
  /\ UNCHANGED <<opts, held, todo, reading, tl, accepted, last, current, rows, announced, report>>
-----------------------------------------------------------------------------
Init ==
  /\ opts \in Options
  /\ held \in Windows
  /\ phase = "open" /\ todo = Paths
  /\ pos = 0 /\ stamp = 0 /\ m = [ctx |-> <<>>, db |-> EmptyDB] /\ lt = <<>>
  /\ tl = EmptyMap /\ accepted = EmptyMap
  /\ last = EmptyMap /\ current = EmptyMap /\ rows = <<>> /\ announced = EmptyMap
  /\ heads = <<>> /\ report = EmptyMap

Reading == BadPath \/ Open \/ ReadLine \/ EndOfFile \/ Merge
Showing == NothingFound \/ Conflicts \/ Ctx \/ ListHeader \/ Row \/ Footer
Next == Reading \/ Showing
Spec == Init /\ [][Next]_vars /\ WF_vars(Reading)
-----------------------------------------------------------------------------
(* Properties.                                                              *)

TypeOK ==
  /\ phase \in {"open", "read", "merge", "show", "done", "failed"}
  /\ \A k \in DOMAIN tl : phase # "show" => tl[k] # <<>> \/ phase = "done"
  /\ DOMAIN last \subseteq DOMAIN current
  /\ todo # <<>> => pos \in {0} \cup Scanned(Path)

\* The lines of a file a command looks at, and the date in force at each.
Searched(p) ==
  UpToLong(p, {i \in Lines(p) : \E e \in LineAt(p, i).es : Kind(e.re) \in RegexesToUse})
DatedBy(p, lines, i) == {j \in lines : j <= i /\ LineAt(p, j).date # 0}
InForceAt(p, lines, i) ==
  LET dated == DatedBy(p, lines, i) IN IF dated = {} THEN 0 ELSE LineAt(p, Max(dated)).date
Asked(t) == opts.since <= t /\ (opts.until = 0 \/ t <= opts.until)
Wanted(p) == LET searched == Searched(p)
             IN {i \in searched : Asked(InForceAt(p, searched, i))}
EventsOf(line) == {[id |-> line.id, re |-> e.re] : e \in Matching(line)}

\* How many events a sequence stands for.
Total(events) ==
  LET upTo[i \in 0..Len(events)] == IF i = 0 THEN 0 ELSE upTo[i - 1] + 1 + events[i].rep
  IN upTo[Len(events)]

\* li is in lt, or counted as one of the repetitions of an event of lt.
Kept(lt0, id, re) ==
  \/ \E i \in DOMAIN lt0 : lt0[i].id = id /\ lt0[i].re = re
  \/ \E i \in DOMAIN lt0 : lt0[i].rep > 0 /\ lt0[i].re = re

\* A file yields exactly the events of its lines between --since and --until:
\* neither grep's filter on dates, built digit by digit, nor leaving at the
\* first later line, nor folding repetitions together loses or adds one.
\* (A line too long for the scanner ends the file.)
FoundAsAsked ==
  \A p \in DOMAIN accepted :
    LET events == UNION {EventsOf(LineAt(p, i)) : i \in Wanted(p)}
    IN /\ \A i \in DOMAIN accepted[p] : [id |-> accepted[p][i].id, re |-> accepted[p][i].re] \in events
       /\ \A e \in events : Kept(accepted[p], e.id, e.re)
       /\ Total(accepted[p]) = Cardinality(events)

\* Two files of a node may overlap in any way and be read in either order: each
\* dated event found in one is in a column, save at the very instant where one
\* of them starts or ends; and a column is in the order of time.
Ends(p) == LET times == {li.at : li \in ToSet(accepted[p])} \ {0}
           IN IF times = {} THEN {} ELSE {Min(times), Max(times)}
Merging == phase \in {"open", "read", "merge"}
NoneLost ==
  Merging =>
    /\ \A p \in DOMAIN accepted : \A i \in DOMAIN accepted[p] :
         LET li == accepted[p][i] IN
         \/ li.at = 0
         \/ \E q \in DOMAIN accepted : NodeOf[q] = NodeOf[p] /\ li.at \in Ends(q)
         \/ \E k \in DOMAIN tl : Kept(tl[k], li.id, li.re)
    /\ \A k \in DOMAIN tl : \A i, j \in DOMAIN tl[k] :
         i < j /\ Dated(tl[k][i]) /\ Dated(tl[k][j]) => tl[k][i].date <= tl[k][j].date

\* Log files split by date are put together again: each piece of a node's log
\* is in the timeline, whatever order the pieces were read in.
EveryPieceKept ==
  Merging => \A p \in DOMAIN accepted : \A i \in DOMAIN accepted[p] :
    \E k \in DOMAIN tl : Kept(tl[k], accepted[p][i].id, accepted[p][i].re)

\* What was shown in a column.
ShownOf(k) == LET rs == PickAt(rows, {i \in DOMAIN rows : k \in DOMAIN rows[i].events})
              IN [i \in DOMAIN rs |-> rs[i].events[k]]

\* Each event of each column is in one row, in the column's order; rows follow
\* each other in the order of time across the columns, events without a date
\* in between; and when all is shown the contexts are those the header told.
ShownOnceInOrder ==
  /\ phase = "done" /\ opts.command = "list" =>
       /\ \A k \in DOMAIN report : ShownOf(k) = [i \in DOMAIN report[k] |-> Said(report[k][i])]
       /\ \A h \in ToSet(heads) : h = heads[1]
  /\ \A i, j \in DOMAIN rows : i <= j =>
       \A k \in DOMAIN rows[i].events, l \in DOMAIN rows[j].events :
         LET a == rows[i].events[k]  b == rows[j].events[l]
         IN a.at = 0 \/ b.at = 0 \/ a.at <= b.at

\* A change of file, name, address or version between two events of a column is
\* announced once, when it happens, in the column's order: aligning the columns
\* (StackPrioritizeFound) drops none, and a row of another column repeats none.
TransitionsOnce ==
  phase \in {"show", "done"} => \A k \in DOMAIN announced :
    LET changes(i) == IF i = 1 THEN <<>> ELSE Changes(Tests(report[k][i - 1].ctx, report[k][i].ctx))
    IN announced[k] = FlattenSeq([i \in 1..Len(ShownOf(k)) |-> changes(i)])

\* Every file is read to its end or to --until and merged, unless the command
\* fails, as long as what grep still has to write behind a line that is too long
\* for the scanner fits in its pipe.
FilesRead == <>(todo = <<>> \/ phase = "failed")
=============================================================================
