--------------------------- MODULE GaleraTimeline ---------------------------
(***************************************************************************)
(* pt-galera-log-explainer/types/timeline.go and display/timelinecli.go:   *)
(* the events found in one log file, the merging of the files of one node  *)
(* into a column, the choice of the next row to show and the transitions   *)
(* shown between two rows.  A timeline is a function from a column's name  *)
(* to its events; an event keeps the context its line left.                *)
(***************************************************************************)
EXTENDS GaleraLogCtx

CONSTANTS Dir,       \* path -> the directory it is in
          Horizon    \* time.Unix(math.MaxInt32, 0)

\* LogInfo.  date is 0 for a line without one; id tells events apart.
LogInfo(id, date, e, verbosity, ctx) ==
  [id |-> id, date |-> date, re |-> e.re, verbosity |-> verbosity, ctx |-> ctx,
   msg |-> IF e.parsed THEN <<e.re, e.say>> ELSE NoMsg, rep |-> 0]

SameEvent(a, b) == a.re = b.re /\ a.msg # NoMsg /\ a.msg = b.msg
\* Mutant: the second occurrence is replaced.
IsDuplicatedEventMutant(base, previous, li) == SameEvent(previous, li)
IsDuplicatedEvent(base, previous, li) == SameEvent(base, previous) /\ SameEvent(previous, li)

\* Of an event repeated again and again, the first and the last are kept.
AddEvent(lt, li) ==
  LET n == Len(lt)
  IN IF n > 1 /\ IsDuplicatedEvent(lt[n - 1], lt[n], li)
     THEN [lt EXCEPT ![n - 1].rep = @ + 1, ![n] = li]
     ELSE Append(lt, li)
-----------------------------------------------------------------------------
(* Merging the files of a node.                                             *)

Dated(li) == li.date # 0 /\ li.ctx.ftype \in {"error.log", ""}
FirstTime(lt) == LET is == {i \in DOMAIN lt : Dated(lt[i])} IN IF is = {} THEN 0 ELSE lt[Min(is)].date
LastTime(lt)  == LET is == {i \in DOMAIN lt : Dated(lt[i])} IN IF is = {} THEN 0 ELSE lt[Max(is)].date

CutTimelineAt(lt, at) ==
  LET after == {i \in DOMAIN lt : lt[i].date > at}
  IN IF after = {} THEN <<>> ELSE SubSeq(lt, Min(after), Len(lt))

\* Mutant: what both files have is not cut.
ContinueMutant(t1, t2) == t1 \o [t2 EXCEPT ![Len(t2)].ctx = Inherit(@, Last(t1).ctx)]
\* The file that starts first, then what the other has after it.
Continue(t1, t2) ==
  LET rest == IF LastTime(t1) > FirstTime(t2) THEN CutTimelineAt(t2, LastTime(t1)) ELSE t2
  IN t1 \o [rest EXCEPT ![Len(rest)].ctx = Inherit(@, Last(t1).ctx)]

MergeOrdered(t1, t2) ==
  IF FirstTime(t1) = FirstTime(t2) THEN IF LastTime(t1) < LastTime(t2) THEN t2 ELSE t1
  ELSE IF LastTime(t1) >= LastTime(t2) THEN t1
  ELSE Continue(t1, t2)

MergeTimeline(t1, t2) ==
  IF t1 = <<>> THEN t2 ELSE IF t2 = <<>> THEN t1
  ELSE IF FirstTime(t1) > FirstTime(t2) THEN MergeOrdered(t2, t1) ELSE MergeOrdered(t1, t2)

\* Each gives the set of the timelines that may result.
MergeByIdentifier(tl, lt, db) ==
  {Put(tl, node, IF node \in DOMAIN tl THEN MergeTimeline(tl[node], lt) ELSE lt) :
     node \in Identifier(Last(lt).ctx, db, LastTime(lt))}

\* With the first column that fits, in a map's order.
MergeWithAny(tl, key, lt, fits) ==
  IF fits = {} THEN {Put(tl, key, lt)} ELSE {Put(tl, key, MergeTimeline(tl[k], lt)) : k \in fits}

MergeByDirectory(tl, path, lt) ==
  MergeWithAny(tl, Dir[path], lt, {k \in DOMAIN tl : Dir[tl[k][1].ctx.path] = Dir[path]})

MergeByPodnameElsePath(tl, path, lt) ==
  LET pod == Last(lt).ctx.pod
  IN IF pod = NoPod THEN {Put(tl, path, lt)}
     ELSE MergeWithAny(tl, pod.name, lt, {k \in DOMAIN tl : Last(tl[k]).ctx.pod = pod})
-----------------------------------------------------------------------------
(* Showing the columns.                                                     *)

GetLatestContexts(tl) == [k \in DOMAIN tl |-> Last(tl[k]).ctx]

RemoveEmptyColumns(tl, level) ==
  LET keys == {k \in DOMAIN tl : HasVisibleEvents(Last(tl[k]).ctx, level)}
  IN [k \in keys |-> tl[k]]

\* Mutant: the first event's own date, which it may lack.
IterateNodeMutant(tl) ==
  LET live == {k \in DOMAIN tl : tl[k] # <<>>}
      next == Max({tl[k][1].date : k \in live})
  IN IF live = {} \/ next > Horizon THEN {} ELSE {k \in live : tl[k][1].date = next}
\* The columns whose next event comes first.  A column with only undated
\* events left has the zero time; one past the horizon is never next.
IterateNode(tl) ==
  LET live == {k \in DOMAIN tl : tl[k] # <<>>}
      next == Min({FirstTime(tl[k]) : k \in live})
  IN IF live = {} \/ next > Horizon THEN {} ELSE {k \in live : FirstTime(tl[k]) = next}

Dequeue(tl, node) == [tl EXCEPT ![node] = Tail(@)]

\* The elements of s at the places is.
PickAt(s, is) ==
  LET upTo[i \in 0..Len(s)] ==
        IF i = 0 THEN <<>> ELSE IF i \in is THEN Append(upTo[i - 1], s[i]) ELSE upTo[i - 1]
  IN upTo[Len(s)]

LastOr(s) == IF s = <<>> THEN "" ELSE Last(s)
Header(ctxs) == [k \in DOMAIN ctxs |-> [ip |-> LastOr(ctxs[k].ips), name |-> LastOr(ctxs[k].names),
                                        version |-> ctxs[k].version]]

\* What may change between two rows: a test is a pair of values and its kind.
Test(kind, s1, s2) == [kind |-> kind, s1 |-> s1, s2 |-> s2]
EmptyTransition == Test("", "", "")
NumberOfPossibleTransition == 4
Tests(old, new) ==
  LET both(kind, a, b) == IF a # "" /\ b # "" THEN <<Test(kind, a, b)>> ELSE <<>>
      tests == <<Test("path", old.path, new.path)>>
               \o both("name", LastOr(old.names), LastOr(new.names))
               \o both("ip", LastOr(old.ips), LastOr(new.ips))
               \o both("version", old.version, new.version)
  IN tests \o [i \in 1..(NumberOfPossibleTransition - Len(tests)) |-> EmptyTransition]
NoTests == [i \in 1..NumberOfPossibleTransition |-> EmptyTransition]
Changed(test) == test.s1 # test.s2
Changes(tests) == PickAt(tests, {i \in DOMAIN tests : Changed(tests[i])})

\* Mutant: the room left is miscounted by one.
StackPrioritizeFoundMutant(tests, height) ==
  LET n == Len(tests)
      found(i) == Changes(SubSeq(tests, 1, i - 1))
      full == {i \in 1..n : n - i + Len(found(i)) = height}
  IN IF full = {} THEN Changes(tests) ELSE found(Min(full)) \o SubSeq(tests, Min(full) + 1, n)
\* Every column must print as many transitions: those that changed, and from
\* where all that is left is needed to make the height, the others too.
StackPrioritizeFound(tests, height) ==
  LET n == Len(tests)
      found(i) == Changes(SubSeq(tests, 1, i - 1))
      full == {i \in 1..n : n - i + 1 + Len(found(i)) = height}
  IN IF full = {} THEN Changes(tests) ELSE found(Min(full)) \o SubSeq(tests, Min(full), n)

\* What is printed of each column's changes; a column with no last row has none.
TransitionSeparator(last, current) ==
  LET tests == [k \in DOMAIN current |->
                  IF k \in DOMAIN last THEN Tests(last[k], current[k]) ELSE NoTests]
      height == Max({Len(Changes(tests[k])) : k \in DOMAIN current})
  IN [k \in DOMAIN current |-> SubSeq(StackPrioritizeFound(tests[k], height), 1, height)]
=============================================================================
