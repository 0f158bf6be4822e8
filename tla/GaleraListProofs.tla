------------------------- MODULE GaleraListProofs -------------------------
(***************************************************************************)
(* What is proved of GaleraList.  Reading: a file yields the events asked  *)
(* for, for every log, window and command line.  Merging: of two files of  *)
(* a log nothing is lost, but at their ends.  Showing: what is announced   *)
(* of a column is what changed between its events, each event is shown     *)
(* once, and the rows follow the order of time.                            *)
(***************************************************************************)
EXTENDS GaleraList, FiniteSetTheorems, WellFoundedInduction, TLAPS

(* The filter on dates.                                                     *)

LEMMA TwoDigits ==
  ASSUME NEW u \in 0..99, NEW v \in 0..99, u < v
  PROVE  SameTens(u, v) \/ MoreTens(u, v)
<1>1. /\ u = 10 * (u \div 10) + (u % 10) /\ u % 10 \in 0..9 /\ u \div 10 \in Nat
      /\ v = 10 * (v \div 10) + (v % 10) /\ v % 10 \in 0..9 /\ v \div 10 \in Nat
  OBVIOUS
<1>2. CASE v \div 10 = u \div 10
  BY <1>1, <1>2 DEF SameTens
<1>3. CASE v \div 10 # u \div 10
  BY <1>1, <1>3 DEF MoreTens
<1> QED
  BY <1>2, <1>3

LEMMA DayOrMonth ==
  ASSUME NEW u \in 0..99, NEW v \in 0..99, u < v
  PROVE  (u # 9 /\ SameTens(u, v)) \/ MoreTens(u, v)
<1>1. CASE u # 9
  BY <1>1, TwoDigits
<1>2. CASE u = 9
  <2>1. v \div 10 >= 1 /\ u \div 10 = 0
    BY <1>2
  <2> QED
    BY <2>1 DEF MoreTens
<1> QED
  BY <1>1, <1>2

Days == [y : 0..99, m : 1..12, d : 1..31]

\* The regex made for a date matches that date and all later ones.
LEMMA DateMatched ==
  ASSUME NEW a \in Days, NEW b \in Days, NotAfter(a, b)
  PROVE  BetweenDateRegex(a, b)
<1>1. /\ a.y \in 0..99 /\ a.m \in 0..99 /\ a.d \in 0..99
      /\ b.y \in 0..99 /\ b.m \in 0..99 /\ b.d \in 0..99
  BY DEF Days
<1>2. CASE a.y < b.y
  BY <1>1, <1>2, TwoDigits DEF BetweenDateRegex
<1>3. CASE a.y = b.y /\ a.m < b.m
  BY <1>1, <1>3, DayOrMonth DEF BetweenDateRegex
<1>4. CASE a.y = b.y /\ a.m = b.m /\ a.d < b.d
  BY <1>1, <1>4, DayOrMonth DEF BetweenDateRegex
<1>5. CASE a.y = b.y /\ a.m = b.m /\ a.d = b.d
  BY <1>5 DEF BetweenDateRegex, Days
<1> QED
  BY <1>1, <1>2, <1>3, <1>4, <1>5 DEF NotAfter
-----------------------------------------------------------------------------
(* Numbers.                                                                 *)

LEMMA LeastNumber ==
  ASSUME NEW T \in SUBSET Nat, T # {} PROVE \E n \in T : \A k \in T : n <= k
<1>1. PICK n \in T : \A k \in T : ~(<<k, n>> \in OpToRel(<, Nat))
  BY NatLessThanWellFounded, WFMin
<1>2. \A k \in T : ~(k < n)
  BY <1>1 DEF OpToRel
<1> QED
  BY <1>2

LEMMA MinNumber ==
  ASSUME NEW T \in SUBSET Nat, T # {} PROVE Min(T) \in T /\ \A k \in T : Min(T) <= k
<1>1. PICK n \in T : \A k \in T : n =< k
  BY LeastNumber
<1> QED
  BY <1>1 DEF Min

LEMMA MaxNumber ==
  ASSUME NEW N \in Nat, NEW T \in SUBSET (0..N), T # {}
  PROVE  Max(T) \in T /\ \A k \in T : k <= Max(T)
<1> DEFINE S == {j \in Nat : N - j \in T}
<1>1. S # {}
  <2>1. PICK k \in T : TRUE
    OBVIOUS
  <2>2. N - k \in Nat /\ N - (N - k) = k
    OBVIOUS
  <2> QED
    BY <2>1, <2>2
<1>2. PICK j \in S : \A k \in S : j <= k
  BY <1>1, LeastNumber
<1>3. ASSUME NEW k \in T PROVE N - j >= k
  <2>1. N - k \in S
    OBVIOUS
  <2>2. j <= N - k
    BY <1>2, <2>1
  <2> QED
    BY <2>2
<1>4. \E n \in T : \A k \in T : n >= k
  BY <1>2, <1>3
<1>5. Max(T) \in T /\ \A k \in T : Max(T) >= k
  BY <1>4 DEF Max
<1> DEFINE top == Max(T)
<1> HIDE DEF top
<1>6. top \in T /\ \A k \in T : top >= k
  BY <1>5 DEF top
<1>7. \A k \in T : k <= top
  BY <1>6
<1> QED
  BY <1>6, <1>7 DEF top
-----------------------------------------------------------------------------
(* The lines of a file.                                                     *)

\* What never changes.
Run(o, h) == o \in Options /\ h \in Windows

LEMMA LineFacts ==
  ASSUME Run(opts, held), NEW p \in ToSet(Paths), NEW i \in Lines(p)
  PROVE  /\ i \in Nat \ {0} /\ i <= held[p][2] /\ held[p][2] \in Nat
         /\ LineAt(p, i).date \in 0..MaxTime /\ IsFiniteSet(LineAt(p, i).es)
         /\ \A e, f \in LineAt(p, i).es : e.re = f.re => e = f
         /\ \A j \in Lines(p) : i < j => /\ LineAt(p, i).id # LineAt(p, j).id
                                         /\ \/ LineAt(p, j).date = 0
                                            \/ LineAt(p, i).date <= LineAt(p, j).date
<1> DEFINE n == NodeOf[p]  log == History[n]
<1>1. n \in DOMAIN History /\ held[p] \in (DOMAIN log) \X (DOMAIN log)
  BY PathsAssumption DEF Run
<1>2. log \in Seq(ToSet(log)) /\ DOMAIN log = 1..Len(log) /\ Len(log) \in Nat
  BY <1>1, HistoryAssumption
<1>3. held[p][1] \in 1..Len(log) /\ held[p][2] \in 1..Len(log)
  BY <1>1, <1>2
<1>4. \A j \in Lines(p) : j \in DOMAIN log /\ j \in Nat \ {0} /\ j <= held[p][2]
  BY <1>2, <1>3 DEF Lines
<1>5. \A j \in DOMAIN log : /\ log[j].date \in 0..MaxTime /\ IsFiniteSet(log[j].es)
                            /\ \A e, f \in log[j].es : e.re = f.re => e = f
  BY <1>1, HistoryAssumption
<1>6. \A j, k \in DOMAIN log : j < k =>
         log[j].id # log[k].id /\ (log[k].date = 0 \/ log[j].date <= log[k].date)
  BY <1>1, HistoryAssumption
<1> QED
  BY <1>3, <1>4, <1>5, <1>6 DEF LineAt

\* The date in force.
LEMMA InForceFacts ==
  ASSUME Run(opts, held), NEW p \in ToSet(Paths), NEW lines \in SUBSET Lines(p), NEW i
  PROVE  LET dated == DatedBy(p, lines, i)  t == InForceAt(p, lines, i) IN
         /\ t \in 0..MaxTime
         /\ dated = {} => t = 0
         /\ dated # {} => \E j \in dated : t = LineAt(p, j).date /\ \A k \in dated : k <= j
<1> DEFINE dated == DatedBy(p, lines, i)  t == InForceAt(p, lines, i)
<1>1. CASE dated = {}
  BY <1>1, TimesAssumption DEF InForceAt
<1>2. CASE dated # {}
  <2>1. dated \subseteq Lines(p)
    BY DEF DatedBy
  <2>2. held[p][2] \in Nat /\ dated \in SUBSET (0..held[p][2])
    BY <1>2, <2>1, LineFacts
  <2>3. Max(dated) \in dated /\ \A k \in dated : k <= Max(dated)
    <3> HIDE DEF dated
    <3> QED
      BY <1>2, <2>2, MaxNumber
  <2>4. t = LineAt(p, Max(dated)).date
    BY <1>2 DEF InForceAt
  <2>5. t \in 0..MaxTime
    BY <2>1, <2>3, <2>4, LineFacts
  <2> HIDE DEF dated, t
  <2> QED
    BY <1>2, <2>3, <2>4, <2>5 DEF dated, t
<1> QED
  BY <1>1, <1>2

LEMMA ScannedLines ==
  /\ \A p : Scanned(p) \subseteq Searched(p) /\ Searched(p) \subseteq Lines(p)
  /\ \A p : \A i \in Searched(p) : GrepPrints(LineAt(p, i)) => i \in Scanned(p)
BY DEF Scanned, Searched, UpToLong, Grep, GrepPrints

\* Grep prints every line without a date, and every line that is not too early.
LEMMA Printed ==
  ASSUME Run(opts, held), NEW p \in ToSet(Paths), NEW i \in Searched(p),
         LineAt(p, i).date = 0 \/ opts.since <= LineAt(p, i).date
  PROVE  i \in Scanned(p)
<1> DEFINE line == LineAt(p, i)  c == Calendars[opts.calendar]
<1>1. \E e \in line.es : Kind(e.re) \in RegexesToUse
  BY DEF Searched, UpToLong
<1>2. line.date \in 0..MaxTime /\ opts.since \in 0..MaxTime /\ opts.calendar \in DOMAIN Calendars
  <2>1. i \in Lines(p)
    BY ScannedLines
  <2> QED
    BY <2>1, LineFacts, OptionsAssumption DEF Run
<1>3. ASSUME opts.since # 0, line.date # 0 PROVE BetweenDateRegex(c[opts.since], c[line.date])
  <2>1. opts.since \in Times /\ line.date \in Times /\ opts.since <= line.date
    BY <1>2, <1>3, TimesAssumption DEF Times
  <2>2. c \in [Times -> Days] /\ NotAfter(c[opts.since], c[line.date])
    BY <1>2, <2>1, CalendarsAssumption DEF Days
  <2>3. c[opts.since] \in Days /\ c[line.date] \in Days
    BY <2>1, <2>2
  <2> QED
    BY <2>2, <2>3, DateMatched
<1>4. GrepPrints(line)
  BY <1>1, <1>3 DEF GrepPrints
<1> QED
  BY <1>4, ScannedLines

StampAt(p, i) == InForceAt(p, Scanned(p), i)

\* A line that comes when it is asked for is read, at the time in force.
LEMMA AskedIsScanned ==
  ASSUME Run(opts, held), NEW p \in ToSet(Paths), NEW i \in Searched(p),
         opts.since <= InForceAt(p, Searched(p), i)
  PROVE  i \in Scanned(p) /\ StampAt(p, i) = InForceAt(p, Searched(p), i)
<1> DEFINE D == DatedBy(p, Searched(p), i)  E == DatedBy(p, Scanned(p), i)
<1>0. /\ Searched(p) \in SUBSET Lines(p) /\ Scanned(p) \in SUBSET Lines(p) /\ i \in Lines(p)
      /\ E \subseteq D
  BY ScannedLines DEF DatedBy
<1>1. CASE D = {}
  <2>1. LineAt(p, i).date = 0
    <3>1. i <= i
      BY <1>0, LineFacts
    <3> QED
      BY <1>1, <3>1 DEF DatedBy
  <2>2. i \in Scanned(p)
    BY <2>1, Printed
  <2>3. E = {}
    BY <1>0, <1>1
  <2> QED
    BY <1>0, <1>1, <2>2, <2>3, InForceFacts DEF StampAt
<1>2. CASE D # {}
  <2>1. PICK j \in D : InForceAt(p, Searched(p), i) = LineAt(p, j).date /\ \A k \in D : k <= j
    BY <1>0, <1>2, InForceFacts
  <2>2. j \in Searched(p) /\ j <= i /\ LineAt(p, j).date # 0
    BY DEF DatedBy
  <2>3. j \in Scanned(p)
    BY <2>1, <2>2, Printed
  <2>4. j \in E
    BY <2>2, <2>3 DEF DatedBy
  <2>5. PICK k \in E : StampAt(p, i) = LineAt(p, k).date /\ \A l \in E : l <= k
    BY <1>0, <2>4, InForceFacts DEF StampAt
  <2>6. j = k
    <3>1. j <= k /\ k <= j
      BY <1>0, <2>1, <2>4, <2>5
    <3>2. j \in Nat /\ k \in Nat
      <4>1. j \in Lines(p) /\ k \in Lines(p)
        BY <1>0 DEF DatedBy
      <4> QED
        BY <4>1, LineFacts
    <3> QED
      BY <3>1, <3>2
  <2>7. i \in Scanned(p)
    <3>1. CASE LineAt(p, i).date = 0
      BY <3>1, Printed
    <3>2. CASE LineAt(p, i).date # 0
      <4>1. i \in D /\ i \in Nat /\ j \in Nat
        <5>1. i \in Nat /\ j \in Nat
          BY <1>0, <2>2, LineFacts
        <5> QED
          BY <3>2, <5>1 DEF DatedBy
      <4>2. i = j
        BY <2>1, <2>2, <4>1
      <4> QED
        BY <2>3, <4>2
    <3> QED
      BY <3>1, <3>2
  <2> QED
    BY <2>1, <2>5, <2>6, <2>7
<1> QED
  BY <1>1, <1>2

\* The date in force does not go back, and is no earlier for more lines.
LEMMA InForceLater ==
  ASSUME Run(opts, held), NEW p \in ToSet(Paths), NEW i \in Lines(p), NEW j \in Lines(p), i <= j,
         NEW ks \in SUBSET Lines(p), NEW ls \in SUBSET Lines(p), ks \subseteq ls
  PROVE  InForceAt(p, ks, i) <= InForceAt(p, ls, j)
<1> DEFINE D == DatedBy(p, ks, i)  E == DatedBy(p, ls, j)
<1>1. InForceAt(p, ks, i) \in 0..MaxTime /\ InForceAt(p, ls, j) \in 0..MaxTime /\ MaxTime \in Nat
  BY InForceFacts, TimesAssumption
<1>2. CASE D = {}
  <2>1. InForceAt(p, ks, i) = 0
    BY <1>2, InForceFacts
  <2> QED
    BY <1>1, <2>1
<1>3. CASE D # {}
  <2>1. PICK a \in D : InForceAt(p, ks, i) = LineAt(p, a).date
    BY <1>3, InForceFacts
  <2>2. a \in Lines(p) /\ a \in ls /\ a <= i /\ LineAt(p, a).date # 0
    BY DEF DatedBy
  <2>3. i \in Nat /\ j \in Nat /\ a \in Nat
    BY <2>2, LineFacts
  <2>4. a \in E
    BY <2>2, <2>3 DEF DatedBy
  <2>5. PICK b \in E : InForceAt(p, ls, j) = LineAt(p, b).date /\ \A k \in E : k <= b
    BY <2>4, InForceFacts
  <2>6. b \in Lines(p) /\ LineAt(p, b).date # 0 /\ a <= b
    BY <2>4, <2>5 DEF DatedBy
  <2>7. b \in Nat
    BY <2>6, LineFacts
  <2>8. CASE a = b
    BY <1>1, <2>1, <2>5, <2>8
  <2>9. CASE a < b
    <3>1. LineAt(p, a).date <= LineAt(p, b).date
      BY <2>2, <2>6, <2>9, LineFacts
    <3> QED
      BY <2>1, <2>5, <3>1
  <2> QED
    BY <2>3, <2>6, <2>7, <2>8, <2>9
<1> QED
  BY <1>2, <1>3

\* What is wanted is what is read at a time that is asked for.
LEMMA WantedIs ==
  ASSUME Run(opts, held), NEW p \in ToSet(Paths)
  PROVE  Wanted(p) = {i \in Scanned(p) : Asked(StampAt(p, i))}
<1>0. Searched(p) \in SUBSET Lines(p) /\ Scanned(p) \in SUBSET Lines(p) /\ Scanned(p) \subseteq Searched(p)
  BY ScannedLines
<1>1. ASSUME NEW i \in Searched(p), Asked(InForceAt(p, Searched(p), i))
      PROVE  i \in Scanned(p) /\ Asked(StampAt(p, i))
  <2>1. opts.since <= InForceAt(p, Searched(p), i)
    BY <1>1 DEF Asked
  <2> QED
    BY <1>1, <2>1, AskedIsScanned
<1>2. ASSUME NEW i \in Scanned(p), Asked(StampAt(p, i))
      PROVE  i \in Searched(p) /\ Asked(InForceAt(p, Searched(p), i))
  <2>1. i \in Lines(p) /\ i \in Searched(p) /\ i <= i
    BY <1>0, LineFacts
  <2>2. StampAt(p, i) <= InForceAt(p, Searched(p), i)
    BY <1>0, <2>1, InForceLater DEF StampAt
  <2>3. StampAt(p, i) \in Nat /\ InForceAt(p, Searched(p), i) \in Nat /\ opts.since \in Nat
    <3>1. StampAt(p, i) \in 0..MaxTime /\ InForceAt(p, Searched(p), i) \in 0..MaxTime
      BY <1>0, InForceFacts DEF StampAt
    <3>2. opts.since \in 0..MaxTime
      BY OptionsAssumption DEF Run
    <3> QED
      BY <3>1, <3>2, TimesAssumption
  <2>4. opts.since <= InForceAt(p, Searched(p), i)
    BY <1>2, <2>2, <2>3 DEF Asked
  <2> QED
    BY <1>2, <2>1, <2>4, AskedIsScanned
<1>3. Wanted(p) = {i \in Searched(p) : Asked(InForceAt(p, Searched(p), i))}
  BY DEF Wanted
<1> HIDE DEF Run
<1> QED
  BY <1>1, <1>2, <1>3
-----------------------------------------------------------------------------
(* Counting events.                                                         *)

\* The sums, one after the other.
Sums(s, c) ==
  /\ c[0] = 0
  /\ \A i \in 1..Len(s) : c[i] = c[i - 1] + 1 + s[i].rep

LEMMA TotalSums ==
  ASSUME NEW S, NEW s \in Seq(S)
  PROVE  \E c : Sums(s, c) /\ Total(s) = c[Len(s)]
<1> DEFINE N == Len(s)
           F(g, k) == [i \in 0..k |-> IF i = 0 THEN 0 ELSE g[i - 1] + 1 + s[i].rep]
           c == CHOOSE g : g = F(g, N)
<1>0. N \in Nat
  OBVIOUS
<1>1. Total(s) = c[N]
  BY DEF Total
<1> HIDE DEF N
<1>2. \A k \in Nat : \E g : g = F(g, k)
  <2> DEFINE T == {k \in Nat : ~\E g : g = F(g, k)}
  <2> SUFFICES ASSUME T # {} PROVE FALSE
    OBVIOUS
  <2>1. PICK k \in T : \A j \in T : k <= j
    BY LeastNumber
  <2>2. k # 0
    <3> DEFINE g == [i \in 0..0 |-> 0]
    <3>1. g = F(g, 0)
      OBVIOUS
    <3> QED
      BY <3>1
  <2>3. PICK f : f = F(f, k - 1)
    <3>1. k - 1 \in Nat /\ ~(k <= k - 1)
      BY <2>1, <2>2
    <3>2. k - 1 \notin T
      BY <2>1, <3>1
    <3> QED
      BY <3>1, <3>2
  <2> DEFINE g == [i \in 0..k |-> IF i = k THEN f[k - 1] + 1 + s[k].rep ELSE f[i]]
  <2>4. g = F(g, k)
    <3>1. k \in Nat /\ k - 1 \in Nat
      BY <2>1, <2>2
    <3>2. ASSUME NEW i \in 0..k PROVE g[i] = IF i = 0 THEN 0 ELSE g[i - 1] + 1 + s[i].rep
      <4>1. CASE i = k
        <5>1. g[k - 1] = f[k - 1]
          BY <3>1
        <5> QED
          BY <2>2, <3>1, <4>1, <5>1
      <4>2. CASE i # k
        <5>1. i \in 0..(k - 1) /\ g[i] = f[i]
          BY <3>1, <4>2
        <5>2. f[i] = IF i = 0 THEN 0 ELSE f[i - 1] + 1 + s[i].rep
          BY <2>3, <5>1
        <5>3. i # 0 => g[i - 1] = f[i - 1]
          BY <3>1, <4>2
        <5> QED
          BY <5>1, <5>2, <5>3
      <4> QED
        BY <4>1, <4>2
    <3> QED
      BY <3>2
  <2> QED
    BY <2>4
<1>3. c = F(c, N)
  BY <1>0, <1>2
<1> HIDE DEF c
<1>4. \A i \in 0..N : c[i] = IF i = 0 THEN 0 ELSE c[i - 1] + 1 + s[i].rep
  BY <1>3
<1>5. Sums(s, c)
  BY <1>0, <1>4 DEF Sums, N
<1> QED
  BY <1>1, <1>5 DEF N

\* Sums of sequences that stand for as many events, place by place, agree.
Agree(s, t, n) ==
  /\ n \in Nat /\ Len(s) \in Nat /\ Len(t) \in Nat /\ n <= Len(s) /\ n <= Len(t)
  /\ \A i \in 1..n : s[i].rep = t[i].rep
LEMMA SumsAgree ==
  ASSUME NEW s, NEW t, NEW n, Agree(s, t, n), NEW c, NEW d, Sums(s, c), Sums(t, d)
  PROVE  \A i \in 0..n : c[i] = d[i]
<1> USE DEF Agree
<1> DEFINE T == {i \in 0..n : c[i] # d[i]}
<1> SUFFICES ASSUME T # {} PROVE FALSE
  OBVIOUS
<1>0. T \in SUBSET Nat
  OBVIOUS
<1>1. PICK i \in T : \A j \in T : i <= j
  <2> HIDE DEF T
  <2> QED
    BY <1>0, LeastNumber
<1>2. i # 0
  BY DEF Sums
<1>3. i \in 1..n /\ i \in 1..Len(s) /\ i \in 1..Len(t) /\ i - 1 \in 0..n /\ i - 1 \notin T
  BY <1>1, <1>2
<1>4. c[i] = c[i - 1] + 1 + s[i].rep /\ d[i] = d[i - 1] + 1 + t[i].rep
  BY <1>3 DEF Sums
<1> QED
  BY <1>3, <1>4

LEMMA TotalSame ==
  ASSUME NEW S, NEW s \in Seq(S), NEW R, NEW t \in Seq(R), Len(t) = Len(s),
         \A i \in 1..Len(s) : s[i].rep = t[i].rep
  PROVE  Total(s) = Total(t)
<1>1. PICK c : Sums(s, c) /\ Total(s) = c[Len(s)]
  BY TotalSums
<1>2. PICK d : Sums(t, d) /\ Total(t) = d[Len(t)]
  BY TotalSums
<1>3. Len(s) \in Nat /\ Agree(s, t, Len(s))
  BY DEF Agree
<1>4. c[Len(s)] = d[Len(s)]
  BY <1>1, <1>2, <1>3, SumsAgree
<1> QED
  BY <1>1, <1>2, <1>4

LEMMA TotalNumber ==
  ASSUME NEW S, NEW s \in Seq(S), \A i \in 1..Len(s) : s[i].rep \in Nat
  PROVE  \E c : Sums(s, c) /\ Total(s) = c[Len(s)] /\ \A i \in 0..Len(s) : c[i] \in Nat
<1>1. PICK c : Sums(s, c) /\ Total(s) = c[Len(s)]
  BY TotalSums
<1> DEFINE T == {i \in 0..Len(s) : c[i] \notin Nat}
<1>2. T = {}
  <2> SUFFICES ASSUME T # {} PROVE FALSE
    OBVIOUS
  <2>0. T \in SUBSET Nat
    OBVIOUS
  <2>1. PICK i \in T : \A j \in T : i <= j
    <3> HIDE DEF T
    <3> QED
      BY <2>0, LeastNumber
  <2>2. i # 0
    BY <1>1 DEF Sums
  <2>3. i \in 1..Len(s) /\ i - 1 \in 0..Len(s) /\ i - 1 \notin T
    BY <2>1, <2>2
  <2>4. c[i] = c[i - 1] + 1 + s[i].rep
    BY <1>1, <2>3 DEF Sums
  <2> QED
    BY <2>3, <2>4
<1> QED
  BY <1>1, <1>2

LEMMA TotalAppend ==
  ASSUME NEW S, NEW s \in Seq(S), NEW x \in S, x.rep = 0, \A i \in 1..Len(s) : s[i].rep \in Nat
  PROVE  Total(Append(s, x)) = Total(s) + 1
<1> DEFINE n == Len(s)  t == Append(s, x)
<1>1. /\ t \in Seq(S) /\ Len(t) = n + 1 /\ n \in Nat /\ t[n + 1] = x
      /\ \A i \in 1..n : t[i] = s[i]
  OBVIOUS
<1>2. PICK c : Sums(s, c) /\ Total(s) = c[n] /\ \A i \in 0..n : c[i] \in Nat
  BY TotalNumber
<1> HIDE DEF t
<1>3. PICK d : Sums(t, d) /\ Total(t) = d[Len(t)]
  BY <1>1, TotalSums
<1> HIDE DEF n
<1>4. d[n + 1] = d[n] + 1 + x.rep
  <2>1. n + 1 \in 1..Len(t) /\ (n + 1) - 1 = n
    BY <1>1
  <2>2. d[n + 1] = d[(n + 1) - 1] + 1 + t[n + 1].rep
    BY <1>3, <2>1 DEF Sums
  <2> QED
    BY <1>1, <2>1, <2>2
<1>5. c[n] = d[n]
  <2>1. Agree(s, t, n)
    BY <1>1 DEF Agree, n
  <2>2. \A i \in 0..n : c[i] = d[i]
    BY <1>2, <1>3, <2>1, SumsAgree
  <2> QED
    BY <1>1, <2>2
<1>6. c[n] \in Nat
  BY <1>1, <1>2
<1> QED
  BY <1>1, <1>2, <1>3, <1>4, <1>5, <1>6 DEF t

\* A repetition is counted on the event before the one it takes the place of.
LEMMA TotalFold ==
  ASSUME NEW S, NEW s \in Seq(S), NEW R, NEW t \in Seq(R), NEW n \in Nat, Len(s) = n, Len(t) = n, n > 1,
         \A i \in 1..n : s[i].rep \in Nat, s[n].rep = 0, t[n].rep = 0,
         t[n - 1].rep = s[n - 1].rep + 1, \A i \in 1..(n - 2) : t[i].rep = s[i].rep
  PROVE  Total(t) = Total(s) + 1
<1>2. PICK c : Sums(s, c) /\ Total(s) = c[n] /\ \A i \in 0..n : c[i] \in Nat
  BY TotalNumber
<1>3. PICK d : Sums(t, d) /\ Total(t) = d[n]
  BY TotalSums
<1>4. c[n - 2] = d[n - 2] /\ c[n - 2] \in Nat
  <2> DEFINE k == n - 2
  <2>1. k \in 0..k /\ k \in 0..n /\ Agree(s, t, k)
    BY DEF Agree
  <2> HIDE DEF k
  <2>2. \A i \in 0..k : c[i] = d[i]
    BY <1>2, <1>3, <2>1, SumsAgree
  <2>4. c[k] = d[k] /\ c[k] \in Nat
    BY <1>2, <2>1, <2>2
  <2> QED
    BY <2>4 DEF k
<1>5. n \in 1..n /\ n - 1 \in 1..n /\ (n - 1) - 1 = n - 2
  OBVIOUS
<1>6. c[n] = c[n - 1] + 1 + s[n].rep /\ d[n] = d[n - 1] + 1 + t[n].rep
  BY <1>2, <1>3, <1>5 DEF Sums
<1>7. c[n - 1] = c[n - 2] + 1 + s[n - 1].rep /\ d[n - 1] = d[n - 2] + 1 + t[n - 1].rep
  BY <1>2, <1>3, <1>5 DEF Sums
<1>8. s[n - 1].rep \in Nat
  BY <1>5
<1>9. d[n] = c[n] + 1
  BY <1>4, <1>6, <1>7, <1>8
<1> QED
  BY <1>2, <1>3, <1>9
-----------------------------------------------------------------------------
(* The events found in a file.                                              *)

FoundInfo(x) == x = [id |-> x.id, date |-> x.date, re |-> x.re, verbosity |-> x.verbosity,
                 ctx |-> x.ctx, msg |-> x.msg, rep |-> x.rep] /\ x.rep \in Nat
FoundInfos(s) == s \in Seq(ToSet(s)) /\ \A i \in DOMAIN s : FoundInfo(s[i])
Named(x) == [id |-> x.id, re |-> x.re]

\* s stands for the events H: it shows some, and counts the others.
Told(s, H) ==
  /\ FoundInfos(s) /\ (s # <<>> => s[Len(s)].rep = 0)
  /\ IsFiniteSet(H) /\ Total(s) = Cardinality(H)
  /\ \A i \in DOMAIN s : Named(s[i]) \in H
  /\ \A x \in H : Kept(s, x.id, x.re)

LEMMA SeqOfItsOwn ==
  ASSUME NEW n \in Nat, NEW s, DOMAIN s = 1..n, s = [i \in 1..n |-> s[i]]
  PROVE  s \in Seq(ToSet(s)) /\ Len(s) = n
<1>1. s \in [1..n -> ToSet(s)]
  BY DEF ToSet
<1> QED
  BY <1>1

LEMMA AppendEvents ==
  ASSUME NEW s, FoundInfos(s), NEW li, FoundInfo(li)
  PROVE  /\ FoundInfos(Append(s, li)) /\ Len(Append(s, li)) = Len(s) + 1 /\ Len(s) \in Nat
         /\ DOMAIN s = 1..Len(s) /\ DOMAIN Append(s, li) = 1..(Len(s) + 1)
         /\ Append(s, li)[Len(s) + 1] = li /\ \A i \in 1..Len(s) : Append(s, li)[i] = s[i]
<1> DEFINE t == Append(s, li)
<1>1. s \in Seq(ToSet(s) \cup {li})
  BY DEF FoundInfos
<1>2. /\ t \in Seq(ToSet(s) \cup {li}) /\ Len(t) = Len(s) + 1 /\ Len(s) \in Nat
      /\ DOMAIN s = 1..Len(s) /\ DOMAIN t = 1..(Len(s) + 1)
      /\ t[Len(s) + 1] = li /\ \A i \in 1..Len(s) : t[i] = s[i]
  BY <1>1
<1>3. t \in Seq(ToSet(t))
  <2> HIDE DEF t
  <2>1. t = [i \in 1..(Len(s) + 1) |-> t[i]] /\ Len(s) + 1 \in Nat
    BY <1>2
  <2> QED
    BY <1>2, <2>1, SeqOfItsOwn
<1>4. \A i \in DOMAIN t : FoundInfo(t[i])
  <2>1. \A i \in 1..Len(s) : FoundInfo(s[i])
    BY <1>2 DEF FoundInfos
  <2>2. \A i \in DOMAIN t : i \in 1..Len(s) \/ i = Len(s) + 1
    BY <1>2
  <2> HIDE DEF t
  <2> QED
    BY <1>2, <2>1, <2>2
<1> QED
  BY <1>2, <1>3, <1>4 DEF FoundInfos

\* An event is added at the end, or takes the place of the last one, which is
\* counted on the one before.
LEMMA AddEventCases ==
  ASSUME NEW s, FoundInfos(s), NEW li, FoundInfo(li)
  PROVE  \/ AddEvent(s, li) = Append(s, li)
         \/ \E n \in Nat : \E y :
              /\ n > 1 /\ n = Len(s) /\ FoundInfo(y) /\ y.rep = s[n - 1].rep + 1
              /\ y.id = s[n - 1].id /\ y.date = s[n - 1].date /\ y.ctx = s[n - 1].ctx
              /\ y.re = s[n - 1].re /\ s[n].re = s[n - 1].re /\ li.re = s[n].re
              /\ AddEvent(s, li) = [i \in 1..n |-> IF i = n THEN li ELSE IF i = n - 1 THEN y ELSE s[i]]
<1> DEFINE n == Len(s)
<1>1. n \in Nat /\ DOMAIN s = 1..n /\ s = [i \in 1..n |-> s[i]]
  BY DEF FoundInfos
<1> HIDE DEF n
<1>2. CASE ~(n > 1 /\ IsDuplicatedEvent(s[n - 1], s[n], li))
  BY <1>2 DEF AddEvent, n
<1>3. CASE n > 1 /\ IsDuplicatedEvent(s[n - 1], s[n], li)
  <2>1. n - 1 \in 1..n /\ n \in 1..n /\ n - 1 # n
    BY <1>1, <1>3
  <2>2. PICK x : x = s[n - 1]
    OBVIOUS
  <2>3. FoundInfo(x)
    BY <1>1, <2>1, <2>2 DEF FoundInfos
  <2>4. PICK y : y = [x EXCEPT !.rep = @ + 1]
    OBVIOUS
  <2>5. /\ FoundInfo(y) /\ y.rep = x.rep + 1 /\ y.id = x.id /\ y.date = x.date
        /\ y.ctx = x.ctx /\ y.re = x.re
    BY <2>3, <2>4 DEF FoundInfo
  <2>6. s[n].re = s[n - 1].re /\ li.re = s[n].re
    BY <1>3 DEF IsDuplicatedEvent, SameEvent
  <2>7. AddEvent(s, li) = [s EXCEPT ![n - 1] = y, ![n] = li]
    <3>1. AddEvent(s, li) = [s EXCEPT ![n - 1].rep = @ + 1, ![n] = li]
      BY <1>3 DEF AddEvent, n
    <3>2. [s EXCEPT ![n - 1].rep = @ + 1] = [s EXCEPT ![n - 1] = y]
      BY <2>2, <2>4
    <3>3. [s EXCEPT ![n - 1].rep = @ + 1, ![n] = li] = [[s EXCEPT ![n - 1].rep = @ + 1] EXCEPT ![n] = li]
      OBVIOUS
    <3>4. [s EXCEPT ![n - 1] = y, ![n] = li] = [[s EXCEPT ![n - 1] = y] EXCEPT ![n] = li]
      OBVIOUS
    <3> QED
      BY <3>1, <3>2, <3>3, <3>4
  <2>8. AddEvent(s, li) = [i \in 1..n |-> IF i = n THEN li ELSE IF i = n - 1 THEN y ELSE s[i]]
    BY <1>1, <2>1, <2>7
  <2> QED
    BY <1>1, <1>3, <2>2, <2>5, <2>6, <2>8 DEF n
<1> QED
  BY <1>2, <1>3

LEMMA AddEventTold ==
  ASSUME NEW s, NEW H, Told(s, H), NEW li, FoundInfo(li), li.rep = 0, Named(li) \notin H
  PROVE  Told(AddEvent(s, li), H \cup {Named(li)})
<1> DEFINE J == H \cup {Named(li)}  t == AddEvent(s, li)
<1>1. IsFiniteSet(J) /\ Cardinality(J) = Cardinality(H) + 1
  BY FS_AddElement DEF Told
<1>2. FoundInfos(s) /\ Total(s) = Cardinality(H) /\ s \in Seq(ToSet(s))
  BY DEF Told, FoundInfos
<1>3. /\ \A i \in DOMAIN s : Named(s[i]) \in H
      /\ \A x \in H : Kept(s, x.id, x.re)
  BY DEF Told
<1>4. \A i \in DOMAIN s : s[i].rep \in Nat
  BY <1>2 DEF FoundInfos, FoundInfo
<1>5. Len(s) \in Nat /\ DOMAIN s = 1..Len(s)
  BY <1>2
<1>6. Named(li).id = li.id /\ Named(li).re = li.re
  BY DEF Named
<1>7. CASE t = Append(s, li)
  <2>1. /\ FoundInfos(t) /\ Len(t) = Len(s) + 1 /\ DOMAIN t = 1..(Len(s) + 1)
        /\ t[Len(s) + 1] = li /\ \A i \in 1..Len(s) : t[i] = s[i]
    BY <1>2, <1>7, AppendEvents
  <2>2. Total(t) = Total(s) + 1
    <3>1. s \in Seq(ToSet(s) \cup {li})
      BY <1>2
    <3> QED
      BY <1>4, <1>5, <1>7, <3>1, TotalAppend
  <2> HIDE DEF t
  <2>3. t[Len(t)].rep = 0
    BY <1>5, <2>1
  <2>4. \A i \in DOMAIN t : Named(t[i]) \in J
    <3> TAKE i \in DOMAIN t
    <3>1. CASE i \in 1..Len(s)
      BY <1>3, <1>5, <2>1, <3>1
    <3>2. CASE i = Len(s) + 1
      BY <2>1, <3>2
    <3> QED
      BY <1>5, <2>1, <3>1, <3>2
  <2>5. ASSUME NEW x \in J PROVE Kept(t, x.id, x.re)
    <3>1. CASE x \in H
      <4>1. Kept(s, x.id, x.re) /\ \A i \in DOMAIN s : i \in DOMAIN t /\ t[i] = s[i]
        BY <1>3, <1>5, <2>1, <3>1
      <4> QED
        BY <4>1 DEF Kept
    <3>2. CASE x = Named(li)
      <4>1. Len(s) + 1 \in DOMAIN t
        BY <1>5, <2>1
      <4> QED
        BY <1>6, <2>1, <3>2, <4>1 DEF Kept
    <3> QED
      BY <3>1, <3>2
  <2> QED
    BY <1>1, <1>2, <2>1, <2>2, <2>3, <2>4, <2>5 DEF Told, t
<1>8. CASE t # Append(s, li)
  <2>0. PICK n \in Nat : \E y :
          /\ n > 1 /\ n = Len(s) /\ FoundInfo(y) /\ y.rep = s[n - 1].rep + 1
          /\ y.id = s[n - 1].id /\ y.re = s[n - 1].re /\ s[n].re = s[n - 1].re /\ li.re = s[n].re
          /\ t = [i \in 1..n |-> IF i = n THEN li ELSE IF i = n - 1 THEN y ELSE s[i]]
    BY <1>2, <1>8, AddEventCases
  <2>1. PICK y :
          /\ n > 1 /\ n = Len(s) /\ FoundInfo(y) /\ y.rep = s[n - 1].rep + 1
          /\ y.id = s[n - 1].id /\ y.re = s[n - 1].re /\ s[n].re = s[n - 1].re /\ li.re = s[n].re
          /\ t = [i \in 1..n |-> IF i = n THEN li ELSE IF i = n - 1 THEN y ELSE s[i]]
    BY <2>0
  <2> HIDE DEF t
  <2>2. /\ t \in Seq(ToSet(t)) /\ Len(t) = n /\ DOMAIN t = 1..n /\ DOMAIN s = 1..n
        /\ n \in 1..n /\ n - 1 \in 1..n /\ n - 1 # n
        /\ t[n] = li /\ t[n - 1] = y /\ \A i \in 1..n : i # n /\ i # n - 1 => t[i] = s[i]
    <3>1. DOMAIN t = 1..n /\ t = [i \in 1..n |-> t[i]] /\ n - 1 # n /\ n \in 1..n /\ n - 1 \in 1..n
      BY <2>1
    <3>2. t \in Seq(ToSet(t)) /\ Len(t) = n
      BY <3>1, SeqOfItsOwn
    <3>3. t[n] = li /\ t[n - 1] = y /\ \A i \in 1..n : i # n /\ i # n - 1 => t[i] = s[i]
      BY <2>1, <3>1
    <3> QED
      BY <1>5, <2>1, <3>1, <3>2, <3>3
  <2>3. FoundInfos(t)
    <3>1. \A i \in 1..n : FoundInfo(s[i])
      BY <1>2, <2>2 DEF FoundInfos
    <3> QED
      BY <2>1, <2>2, <3>1 DEF FoundInfos
  <2>4. Total(t) = Total(s) + 1
    <3>1. s[n].rep = 0 /\ t[n].rep = 0
      <4>1. s # <<>>
        BY <2>1
      <4> QED
        BY <2>1, <2>2, <4>1 DEF Told
    <3>2. \A i \in 1..(n - 2) : t[i].rep = s[i].rep
      BY <2>2
    <3>3. \A i \in 1..n : s[i].rep \in Nat
      BY <1>4, <2>2
    <3> QED
      BY <1>2, <2>1, <2>2, <3>1, <3>2, <3>3, TotalFold
  <2>5. t[Len(t)].rep = 0
    BY <2>2
  <2>6. \A i \in DOMAIN t : Named(t[i]) \in J
    <3>1. Named(y) = Named(s[n - 1])
      BY <2>1 DEF Named
    <3>2. \A i \in 1..n : Named(s[i]) \in H
      BY <1>3, <2>2
    <3> QED
      BY <2>2, <3>1, <3>2
  <2>7. ASSUME NEW x \in J PROVE Kept(t, x.id, x.re)
    <3>0. y.rep > 0 /\ y.re = li.re
      BY <1>4, <2>1, <2>2
    <3>1. CASE x.re = li.re
      BY <2>2, <3>0, <3>1 DEF Kept
    <3>2. CASE x.re # li.re
      <4>1. x \in H
        BY <1>6, <3>2
      <4>2. PICK i \in DOMAIN s : s[i].re = x.re /\ (s[i].id = x.id \/ s[i].rep > 0)
        BY <1>3, <4>1 DEF Kept
      <4>3. i # n /\ i # n - 1
        BY <2>1, <3>2, <4>2
      <4>4. t[i] = s[i] /\ i \in DOMAIN t
        BY <2>2, <4>3
      <4> QED
        BY <4>2, <4>4 DEF Kept
    <3> QED
      BY <3>1, <3>2
  <2> QED
    BY <1>1, <1>2, <2>3, <2>4, <2>5, <2>6, <2>7 DEF Told, t
<1> QED
  BY <1>7, <1>8

\* What is put in a sequence is in it, once.
LEMMA AllListed ==
  ASSUME NEW S, IsFiniteSet(S), NEW s \in SetToSeqs(S)
  PROVE  /\ s \in Seq(S) /\ \A x \in S : \E i \in 1..Len(s) : s[i] = x
         /\ \A i, j \in 1..Len(s) : i # j => s[i] # s[j]
<1> DEFINE D == 1..Cardinality(S)
<1>1. Cardinality(S) \in Nat /\ IsFiniteSet(D) /\ Cardinality(D) = Cardinality(S)
  BY FS_CardinalityType, FS_Interval
<1>2. s \in [D -> S] /\ \A i, j \in D : i # j => s[i] # s[j]
  BY DEF SetToSeqs
<1>3. s \in Injection(D, S)
  BY <1>2 DEF Injection, IsInjective
<1>4. s \in Surjection(D, S)
  BY <1>1, <1>3, FS_Injection
<1>5. \A x \in S : \E i \in D : s[i] = x
  BY <1>4 DEF Surjection
<1>6. s \in Seq(S) /\ Len(s) = Cardinality(S)
  BY <1>1, <1>2
<1> QED
  BY <1>2, <1>5, <1>6

LEMMA OneHandled ==
  ASSUME NEW s, NEW line, NEW e, NEW ts, NEW x \in HandleEvent(s, line, e, ts),
         NEW H, Told(s.lt, H), [id |-> line.id, re |-> e.re] \notin H
  PROVE  Told(x.lt, H \cup {[id |-> line.id, re |-> e.re]})
<1>1. PICK ctx : x.lt = AddEvent(s.lt, LogInfo(line.id, line.date, e, SetVerbosity(e.re), ctx))
  BY DEF HandleEvent
<1>2. PICK li : li = LogInfo(line.id, line.date, e, SetVerbosity(e.re), ctx)
  OBVIOUS
<1>3. FoundInfo(li) /\ li.rep = 0 /\ Named(li) = [id |-> line.id, re |-> e.re]
  BY <1>2 DEF LogInfo, FoundInfo, Named
<1> QED
  BY <1>1, <1>2, <1>3, AddEventTold

Turn(line, e, ts, states) == UNION {HandleEvent(s, line, e, ts) : s \in states}

\* The states after the events of a line, one after the other.
After(line, order, ts, a) ==
  /\ a[0] = {[m |-> m, lt |-> lt]}
  /\ \A i \in 1..Len(order) : a[i] = Turn(line, order[i], ts, a[i - 1])

LEMMA HandledInTurn ==
  ASSUME NEW S, NEW order \in Seq(S), NEW line, NEW ts
  PROVE  \E a : After(line, order, ts, a) /\ HandleInOrder(line, order, ts) = a[Len(order)]
<1> DEFINE N == Len(order)
           F(g, k) == [i \in 0..k |-> IF i = 0 THEN {[m |-> m, lt |-> lt]}
                         ELSE Turn(line, order[i], ts, g[i - 1])]
           a == CHOOSE g : g = F(g, N)
<1>0. N \in Nat
  OBVIOUS
<1>1. HandleInOrder(line, order, ts) = a[N]
  BY DEF HandleInOrder, Turn
<1> HIDE DEF N
<1>2. \A k \in Nat : \E g : g = F(g, k)
  <2> DEFINE T == {k \in Nat : ~\E g : g = F(g, k)}
  <2> SUFFICES ASSUME T # {} PROVE FALSE
    OBVIOUS
  <2>1. PICK k \in T : \A j \in T : k <= j
    BY LeastNumber
  <2>2. k # 0
    <3> DEFINE g == [i \in 0..0 |-> {[m |-> m, lt |-> lt]}]
    <3>1. g = F(g, 0)
      OBVIOUS
    <3> QED
      BY <3>1
  <2>3. PICK f : f = F(f, k - 1)
    <3>1. k - 1 \in Nat /\ ~(k <= k - 1)
      BY <2>1, <2>2
    <3>2. k - 1 \notin T
      BY <2>1, <3>1
    <3> QED
      BY <3>1, <3>2
  <2> DEFINE next == Turn(line, order[k], ts, f[k - 1])
             g == [i \in 0..k |-> IF i = k THEN next ELSE f[i]]
  <2>4. g = F(g, k)
    <3>1. k \in Nat /\ k - 1 \in Nat
      BY <2>1, <2>2
    <3>2. ASSUME NEW i \in 0..k
          PROVE  g[i] = IF i = 0 THEN {[m |-> m, lt |-> lt]}
                        ELSE Turn(line, order[i], ts, g[i - 1])
      <4>1. CASE i = k
        <5>1. g[k - 1] = f[k - 1]
          BY <3>1
        <5> QED
          BY <2>2, <3>1, <4>1, <5>1
      <4>2. CASE i # k
        <5>1. i \in 0..(k - 1) /\ g[i] = f[i]
          BY <3>1, <4>2
        <5>2. f[i] = IF i = 0 THEN {[m |-> m, lt |-> lt]}
                     ELSE Turn(line, order[i], ts, f[i - 1])
          BY <2>3, <5>1
        <5>3. i # 0 => g[i - 1] = f[i - 1]
          BY <3>1, <4>2
        <5> QED
          BY <5>1, <5>2, <5>3
      <4> QED
        BY <4>1, <4>2
    <3> QED
      BY <3>2
  <2> QED
    BY <2>4
<1>3. a = F(a, N)
  BY <1>0, <1>2
<1> HIDE DEF a
<1>4. \A i \in 0..N : a[i] = IF i = 0 THEN {[m |-> m, lt |-> lt]}
                             ELSE Turn(line, order[i], ts, a[i - 1])
  BY <1>3
<1>5. After(line, order, ts, a)
  <2>1. a[0] = {[m |-> m, lt |-> lt]}
    BY <1>0, <1>4
  <2>2. \A i \in 1..N : a[i] = Turn(line, order[i], ts, a[i - 1])
    BY <1>0, <1>4
  <2> QED
    BY <2>1, <2>2 DEF After, N
<1> QED
  BY <1>1, <1>5 DEF N

\* All the events of a line are found, whatever order they are tried in.
LEMMA LineTold ==
  ASSUME NEW line, NEW ts, NEW H, Told(lt, H), NEW x \in HandleMatches(line, ts),
         IsFiniteSet(line.es), \A e, f \in line.es : e.re = f.re => e = f,
         \A h \in H : h.id # line.id
  PROVE  Told(x.lt, H \cup EventsOf(line))
<1>1. PICK order \in SetToSeqs(Matching(line)) : x \in HandleInOrder(line, order, ts)
  BY DEF HandleMatches
<1>2. IsFiniteSet(Matching(line)) /\ Matching(line) \subseteq line.es
  BY FS_Subset DEF Matching
<1>3. /\ order \in Seq(Matching(line)) /\ \A e \in Matching(line) : \E i \in 1..Len(order) : order[i] = e
      /\ \A i, j \in 1..Len(order) : i # j => order[i] # order[j]
  BY <1>2, AllListed
<1>4. PICK a : After(line, order, ts, a) /\ HandleInOrder(line, order, ts) = a[Len(order)]
  BY <1>3, HandledInTurn
<1> DEFINE n == Len(order)
           name(i) == [id |-> line.id, re |-> order[i].re]
           J(i) == H \cup {name(k) : k \in 1..i}
<1>5. /\ n \in Nat /\ \A i \in 1..n : order[i] \in line.es
      /\ \A i, j \in 1..n : i # j => order[i] # order[j]
  BY <1>2, <1>3
<1>6. \A i, j \in 1..n : i # j => name(i) # name(j)
  <2> TAKE i, j \in 1..n
  <2> HAVE i # j
  <2>1. order[i].re # order[j].re
    BY <1>5
  <2>2. name(i).re = order[i].re /\ name(j).re = order[j].re
    OBVIOUS
  <2> QED
    BY <2>1, <2>2
<1>7. \A i \in 1..n : name(i) \notin H
  OBVIOUS
<1> HIDE DEF n
<1>8. \A i \in 0..n : \A y \in a[i] : Told(y.lt, J(i))
  <2> DEFINE T == {i \in 0..n : \E y \in a[i] : ~Told(y.lt, J(i))}
  <2> SUFFICES ASSUME T # {} PROVE FALSE
    OBVIOUS
  <2>0. T \in SUBSET Nat
    OBVIOUS
  <2>1. PICK i \in T : \A j \in T : i <= j
    <3> HIDE DEF T
    <3> QED
      BY <2>0, LeastNumber
  <2>2. PICK y \in a[i] : ~Told(y.lt, J(i))
    BY <2>1
  <2>3. CASE i = 0
    <3>1. y.lt = lt
      BY <1>4, <2>2, <2>3 DEF After
    <3>2. J(0) = H
      OBVIOUS
    <3> QED
      BY <2>2, <2>3, <3>1, <3>2
  <2>4. CASE i # 0
    <3>1. i \in 1..n /\ i - 1 \in 0..n /\ i - 1 \notin T
      <4>1. i \in 0..n
        OBVIOUS
      <4> HIDE DEF T
      <4>2. i \in 1..n /\ i - 1 \in 0..n /\ ~(i <= i - 1)
        BY <1>5, <2>4, <4>1
      <4> QED
        BY <2>1, <4>2
    <3>2. PICK s \in a[i - 1] : y \in HandleEvent(s, line, order[i], ts)
      BY <1>4, <2>2, <3>1 DEF After, Turn, n
    <3>3. Told(s.lt, J(i - 1))
      BY <3>1, <3>2
    <3>4. name(i) \notin J(i - 1)
      <4>1. \A k \in 1..(i - 1) : k \in 1..n /\ k # i
        BY <1>5, <3>1
      <4> QED
        BY <1>6, <1>7, <3>1, <4>1
    <3>5. J(i) = J(i - 1) \cup {name(i)}
      <4>1. \A k : k \in 1..i <=> k \in 1..(i - 1) \/ k = i
        BY <3>1
      <4> QED
        BY <4>1
    <3> HIDE DEF J
    <3>6. Told(y.lt, J(i - 1) \cup {name(i)})
      BY <3>2, <3>3, <3>4, OneHandled
    <3> QED
      BY <2>2, <3>5, <3>6
  <2> QED
    BY <2>3, <2>4
<1>9. EventsOf(line) = {name(k) : k \in 1..n}
  BY <1>3, <1>5 DEF EventsOf, n
<1>10. n \in 0..n /\ x \in a[n]
  BY <1>1, <1>4, <1>5 DEF n
<1> QED
  BY <1>8, <1>9, <1>10
-----------------------------------------------------------------------------
(* Reading a file, line after line.                                         *)

ReadLines(p, n) == {i \in Scanned(p) : i <= n /\ Asked(StampAt(p, i))}
EventsIn(p, is) == UNION {EventsOf(LineAt(p, i)) : i \in is}

\* What a file is to yield.
FoundIn(p, found) ==
  LET events == EventsIn(p, Wanted(p))
  IN /\ \A i \in DOMAIN found : [id |-> found[i].id, re |-> found[i].re] \in events
     /\ \A e \in events : Kept(found, e.id, e.re)
     /\ Total(found) = Cardinality(events)

LEMMA FoundEach == FoundAsAsked <=> \A p \in DOMAIN accepted : FoundIn(p, accepted[p])
BY DEF FoundAsAsked, FoundIn, EventsIn

\* In the file being read: the events of the lines up to here that are asked
\* for have been found; and once reading is over, those were all.
FileRead ==
  /\ todo # <<>> /\ pos \in {0} \cup Scanned(Path) /\ stamp = StampAt(Path, pos)
  /\ Told(lt, EventsIn(Path, ReadLines(Path, pos)))
  /\ phase = "merge" => ReadLines(Path, pos) = Wanted(Path)
ReadInv ==
  /\ Run(opts, held) /\ todo \in Seq(ToSet(Paths)) /\ DOMAIN accepted \subseteq ToSet(Paths)
  /\ phase \in {"read", "merge"} => FileRead
  /\ \A p \in DOMAIN accepted : FoundIn(p, accepted[p])

LEMMA NoLineYet ==
  ASSUME Run(opts, held), NEW p \in ToSet(Paths)
  PROVE  StampAt(p, 0) = 0 /\ ReadLines(p, 0) = {} /\ Told(<<>>, {})
<1>1. Scanned(p) \in SUBSET Lines(p) /\ \A i \in Scanned(p) : i \in Nat \ {0}
  BY ScannedLines, LineFacts
<1>2. DatedBy(p, Scanned(p), 0) = {}
  BY <1>1 DEF DatedBy
<1>3. ReadLines(p, 0) = {}
  BY <1>1 DEF ReadLines
<1>4. DOMAIN <<>> = {} /\ <<>> \in Seq({}) /\ Len(<<>>) = 0 /\ ToSet(<<>>) = {}
  BY DEF ToSet
<1>5. Total(<<>>) = 0
  <2>1. PICK c : Sums(<<>>, c) /\ Total(<<>>) = c[Len(<<>>)]
    BY <1>4, TotalSums
  <2> QED
    BY <1>4, <2>1 DEF Sums
<1>6. Told(<<>>, {})
  BY <1>4, <1>5, FS_EmptySet DEF Told, FoundInfos
<1> QED
  BY <1>2, <1>3, <1>6 DEF StampAt, InForceAt

LEMMA NextLine ==
  ASSUME Run(opts, held), NEW p \in ToSet(Paths), NEW n \in {0} \cup Scanned(p),
         NEW k, k = Min({i \in Scanned(p) : i > n}), {i \in Scanned(p) : i > n} # {}
  PROVE  /\ k \in Scanned(p) /\ k \in Nat /\ n \in Nat /\ k > n
         /\ StampAt(p, k) = IF LineAt(p, k).date = 0 THEN StampAt(p, n) ELSE LineAt(p, k).date
         /\ ReadLines(p, k) = IF Asked(StampAt(p, k)) THEN ReadLines(p, n) \cup {k} ELSE ReadLines(p, n)
<1> DEFINE S == Scanned(p)  A == {i \in S : i > n}
           D == DatedBy(p, S, k)  E == DatedBy(p, S, n)
<1>1. S \in SUBSET Lines(p) /\ \A i \in S : i \in Nat \ {0}
  BY ScannedLines, LineFacts
<1>2. A \in SUBSET Nat /\ A # {} /\ n \in Nat
  BY <1>1
<1>3. k \in A /\ \A i \in A : k <= i
  <2> HIDE DEF A
  <2>1. k = Min(A)
    BY DEF A
  <2>2. Min(A) \in A /\ \A i \in A : Min(A) <= i
    BY <1>2, MinNumber
  <2> QED
    BY <2>1, <2>2
<1>4. \A i \in S : i <= k <=> i <= n \/ i = k
  BY <1>1, <1>2, <1>3
<1>5. D = IF LineAt(p, k).date = 0 THEN E ELSE E \cup {k}
  BY <1>3, <1>4 DEF DatedBy
<1>6. ASSUME LineAt(p, k).date = 0 PROVE StampAt(p, k) = StampAt(p, n)
  <2>1. D = E
    BY <1>5, <1>6
  <2> QED
    BY <2>1 DEF StampAt, InForceAt
<1>7. ASSUME LineAt(p, k).date # 0 PROVE StampAt(p, k) = LineAt(p, k).date
  <2>1. k \in D
    BY <1>5, <1>7
  <2>2. PICK j \in D : StampAt(p, k) = LineAt(p, j).date /\ \A i \in D : i <= j
    BY <1>1, <2>1, InForceFacts DEF StampAt
  <2>3. j \in S /\ j <= k /\ k <= j
    BY <2>1, <2>2 DEF DatedBy
  <2>4. j = k
    BY <1>1, <1>3, <2>3
  <2> QED
    BY <1>7, <2>2, <2>4
<1>8. ReadLines(p, k) = IF Asked(StampAt(p, k)) THEN ReadLines(p, n) \cup {k} ELSE ReadLines(p, n)
  BY <1>3, <1>4 DEF ReadLines
<1>9. k \in S /\ k \in Nat /\ k > n
  BY <1>1, <1>3
<1> QED
  BY <1>2, <1>6, <1>7, <1>8, <1>9

\* At the end of the file, or past --until, nothing that is wanted is left.
LEMMA NothingLeft ==
  ASSUME Run(opts, held), NEW p \in ToSet(Paths), NEW n \in {0} \cup Scanned(p),
         \/ \A i \in Scanned(p) : ~(i > n)
         \/ n # 0 /\ opts.until # 0 /\ opts.until < StampAt(p, n)
  PROVE  ReadLines(p, n) = Wanted(p)
<1>0. Scanned(p) \in SUBSET Lines(p)
  BY ScannedLines
<1>1. \A i \in Scanned(p) : i \in Nat
  BY <1>0, LineFacts
<1>2. n \in Nat
  BY <1>1
<1>3. ASSUME NEW i \in Scanned(p), Asked(StampAt(p, i)) PROVE i <= n
  <2>1. CASE \A j \in Scanned(p) : ~(j > n)
    BY <1>1, <1>2, <2>1
  <2>2. CASE n # 0 /\ opts.until # 0 /\ opts.until < StampAt(p, n)
    <3>1. SUFFICES ASSUME n <= i PROVE FALSE
      BY <1>1, <1>2
    <3>2. n \in Lines(p) /\ i \in Lines(p)
      BY <1>0, <2>2
    <3>3. StampAt(p, n) <= StampAt(p, i)
      BY <1>0, <3>1, <3>2, InForceLater DEF StampAt
    <3>4. StampAt(p, n) \in 0..MaxTime /\ StampAt(p, i) \in 0..MaxTime
      BY <1>0, InForceFacts DEF StampAt
    <3>5. opts.until \in 0..MaxTime /\ MaxTime \in Nat
      BY OptionsAssumption, TimesAssumption DEF Run
    <3>6. StampAt(p, i) <= opts.until
      BY <1>3, <2>2 DEF Asked
    <3> QED
      BY <2>2, <3>3, <3>4, <3>5, <3>6
  <2> QED
    BY <2>1, <2>2
<1>4. Wanted(p) = {i \in Scanned(p) : Asked(StampAt(p, i))}
  BY WantedIs
<1> HIDE DEF Run
<1> QED
  BY <1>3, <1>4 DEF ReadLines

\* What a file holds does not change.
LEMMA SameFile ==
  ASSUME UNCHANGED <<opts, held>>, NEW p, NEW n, NEW is
  PROVE  /\ Scanned(p)' = Scanned(p) /\ StampAt(p, n)' = StampAt(p, n)
         /\ ReadLines(p, n)' = ReadLines(p, n) /\ Wanted(p)' = Wanted(p)
         /\ EventsIn(p, is)' = EventsIn(p, is)
<1>1. /\ Operator' = Operator /\ RegexesToUse' = RegexesToUse
      /\ \A i : LineAt(p, i)' = LineAt(p, i) /\ Lines(p)' = Lines(p)
  BY DEF Operator, RegexesToUse, LineAt, Lines
<1>2. \A line : GrepPrints(line)' = GrepPrints(line) /\ EventsOf(line)' = EventsOf(line)
  BY <1>1 DEF GrepPrints, EventsOf, Matching
<1>3. Grep(p)' = Grep(p)
  BY <1>1, <1>2 DEF Grep
<1>4. \A lines, i : /\ UpToLong(p, lines)' = UpToLong(p, lines)
                    /\ InForceAt(p, lines, i)' = InForceAt(p, lines, i)
  BY <1>1, <1>3 DEF UpToLong, InForceAt, DatedBy
<1>5. Scanned(p)' = Scanned(p)
  BY <1>3, <1>4 DEF Scanned
<1>6. \A i : StampAt(p, i)' = StampAt(p, i)
  BY <1>4, <1>5 DEF StampAt
<1>7. \A t : Asked(t)' = Asked(t)
  BY DEF Asked
<1>8. Searched(p)' = Searched(p)
  BY <1>1, <1>4 DEF Searched
<1>9. Wanted(p)' = Wanted(p)
  BY <1>4, <1>7, <1>8 DEF Wanted
<1>10. ReadLines(p, n)' = ReadLines(p, n)
  BY <1>5, <1>6, <1>7 DEF ReadLines
<1>11. EventsIn(p, is)' = EventsIn(p, is)
  BY <1>1, <1>2 DEF EventsIn
<1> QED
  BY <1>5, <1>6, <1>9, <1>10, <1>11

LEMMA SameFound ==
  ASSUME UNCHANGED <<opts, held>>, NEW p, NEW found
  PROVE  FoundIn(p, found)' = FoundIn(p, found)
<1>1. PICK is : is = Wanted(p)
  OBVIOUS
<1>2. Wanted(p)' = is /\ EventsIn(p, is)' = EventsIn(p, is)
  BY <1>1, SameFile
<1>3. EventsIn(p, Wanted(p))' = EventsIn(p, Wanted(p))
  BY <1>1, <1>2
<1> QED
  BY <1>3 DEF FoundIn

LEMMA SaidFound ==
  ASSUME NEW p, Told(lt, EventsIn(p, Wanted(p)))
  PROVE  FoundIn(p, [i \in DOMAIN lt |-> Said(lt[i])])
<1> DEFINE found == [i \in DOMAIN lt |-> Said(lt[i])]  H == EventsIn(p, Wanted(p))
<1>1. lt \in Seq(ToSet(lt)) /\ DOMAIN lt = 1..Len(lt) /\ Len(lt) \in Nat
  BY DEF Told, FoundInfos
<1>2. \A i \in DOMAIN lt : /\ found[i].id = lt[i].id /\ found[i].re = lt[i].re
                           /\ found[i].rep = lt[i].rep
  BY DEF Said
<1>3. DOMAIN found = DOMAIN lt /\ found = [i \in 1..Len(lt) |-> found[i]]
  BY <1>1
<1> HIDE DEF found
<1>4. found \in Seq(ToSet(found)) /\ Len(found) = Len(lt)
  BY <1>1, <1>3, SeqOfItsOwn
<1>5. Total(found) = Total(lt)
  <2>1. \A i \in 1..Len(lt) : lt[i].rep = found[i].rep
    BY <1>1, <1>2
  <2> QED
    BY <1>1, <1>4, <2>1, TotalSame
<1>6. Total(found) = Cardinality(H)
  BY <1>5 DEF Told
<1>7. \A i \in DOMAIN found : [id |-> found[i].id, re |-> found[i].re] \in H
  BY <1>2, <1>3 DEF Told, Named
<1>8. \A e \in H : Kept(found, e.id, e.re)
  <2> TAKE e \in H
  <2>1. Kept(lt, e.id, e.re)
    BY DEF Told
  <2> QED
    BY <1>2, <1>3, <2>1 DEF Kept
<1> QED
  BY <1>6, <1>7, <1>8 DEF FoundIn, found

LEMMA ReadStart == Init => ReadInv
<1> SUFFICES ASSUME Init PROVE ReadInv
  OBVIOUS
<1>1. Paths \in Seq(ToSet(Paths)) /\ DOMAIN EmptyMap = {}
  BY PathsAssumption DEF EmptyMap
<1> QED
  BY <1>1 DEF Init, ReadInv, Run

\* One more line of the file.
LEMMA ReadLineStep == ReadInv /\ ReadLine => ReadInv'
<1> SUFFICES ASSUME ReadInv, ReadLine PROVE ReadInv'
  OBVIOUS
<1>0. /\ Run(opts, held) /\ phase = "read" /\ FileRead /\ UNCHANGED <<opts, held, todo, accepted>>
      /\ todo \in Seq(ToSet(Paths)) /\ DOMAIN accepted \subseteq ToSet(Paths)
      /\ \A p \in DOMAIN accepted : FoundIn(p, accepted[p])
  BY DEF ReadInv, ReadLine
<1>1. Run(opts, held)' /\ UNCHANGED <<opts, held>> /\ Path' = Path
  BY <1>0 DEF Run, Path
<1>2. PICK p \in ToSet(Paths) : p = Path
  BY <1>0 DEF FileRead, Path
<1>3. /\ todo # <<>> /\ pos \in {0} \cup Scanned(p) /\ stamp = StampAt(p, pos)
      /\ Told(lt, EventsIn(p, ReadLines(p, pos)))
  BY <1>0, <1>2 DEF FileRead
<1>4. /\ Ahead(Scanned(p)) # {} /\ pos' = Min(Ahead(Scanned(p)))
      /\ stamp' = IF LineAt(p, pos').date = 0 THEN stamp ELSE LineAt(p, pos').date
      /\ \/ opts.since > stamp' /\ UNCHANGED <<phase, m, lt>>
         \/ /\ opts.since <= stamp' /\ opts.until # 0 /\ opts.until < stamp'
            /\ phase' = "merge" /\ UNCHANGED <<m, lt>>
         \/ /\ opts.since <= stamp' /\ (opts.until = 0 \/ opts.until >= stamp')
            /\ \E s \in HandleMatches(LineAt(p, pos'), stamp') : m' = s.m /\ lt' = s.lt
            /\ UNCHANGED phase
  BY <1>2 DEF ReadLine
<1>5. PICK k, t, n : k = pos' /\ t = stamp' /\ n = pos
  OBVIOUS
<1>6. /\ k \in Scanned(p) /\ k \in Nat /\ n \in Nat /\ k > n /\ t = StampAt(p, k)
      /\ ReadLines(p, k) = IF Asked(t) THEN ReadLines(p, n) \cup {k} ELSE ReadLines(p, n)
  <2>1. /\ {i \in Scanned(p) : i > n} # {} /\ k = Min({i \in Scanned(p) : i > n})
        /\ n \in {0} \cup Scanned(p)
    BY <1>3, <1>4, <1>5 DEF Ahead
  <2>2. /\ k \in Scanned(p) /\ k \in Nat /\ n \in Nat /\ k > n
        /\ StampAt(p, k) = IF LineAt(p, k).date = 0 THEN StampAt(p, n) ELSE LineAt(p, k).date
        /\ ReadLines(p, k) = IF Asked(StampAt(p, k)) THEN ReadLines(p, n) \cup {k} ELSE ReadLines(p, n)
    BY <1>0, <2>1, NextLine
  <2>3. t = IF LineAt(p, k).date = 0 THEN StampAt(p, n) ELSE LineAt(p, k).date
    BY <1>3, <1>4, <1>5
  <2> QED
    BY <2>2, <2>3
<1>7. t \in Nat /\ opts.since \in Nat /\ opts.until \in Nat
  <2>1. t \in 0..MaxTime
    BY <1>0, <1>6, ScannedLines, InForceFacts DEF StampAt
  <2>2. opts.since \in 0..MaxTime /\ opts.until \in 0..MaxTime /\ MaxTime \in Nat
    BY <1>0, OptionsAssumption, TimesAssumption DEF Run
  <2> QED
    BY <2>1, <2>2
<1> DEFINE H == EventsIn(p, ReadLines(p, k))
<1>8. /\ Told(lt', H) /\ phase' \in {"read", "merge"}
      /\ phase' = "merge" => ReadLines(p, k) = Wanted(p)
  <2>1. CASE opts.since > t /\ UNCHANGED <<phase, m, lt>>
    <3>1. ~Asked(t)
      BY <1>7, <2>1 DEF Asked
    <3>2. H = EventsIn(p, ReadLines(p, pos))
      BY <1>5, <1>6, <3>1
    <3> QED
      BY <1>0, <1>3, <2>1, <3>2
  <2>2. CASE /\ opts.since <= t /\ opts.until # 0 /\ opts.until < t
             /\ phase' = "merge" /\ UNCHANGED <<m, lt>>
    <3>1. ~Asked(t)
      BY <1>7, <2>2 DEF Asked
    <3>2. H = EventsIn(p, ReadLines(p, pos))
      BY <1>5, <1>6, <3>1
    <3>3. k # 0 /\ opts.until < StampAt(p, k)
      BY <1>6, <2>2
    <3>4. ReadLines(p, k) = Wanted(p)
      BY <1>0, <1>6, <2>2, <3>3, NothingLeft
    <3> QED
      BY <1>3, <2>2, <3>2, <3>4
  <2>3. CASE /\ opts.since <= t /\ (opts.until = 0 \/ opts.until >= t)
             /\ \E s \in HandleMatches(LineAt(p, k), t) : m' = s.m /\ lt' = s.lt
             /\ UNCHANGED phase
    <3>1. Asked(t)
      BY <1>7, <2>3 DEF Asked
    <3> DEFINE G == EventsIn(p, ReadLines(p, n))  line == LineAt(p, k)
    <3>2. H = G \cup EventsOf(line)
      BY <1>6, <3>1 DEF EventsIn
    <3>3. PICK s \in HandleMatches(line, t) : lt' = s.lt
      BY <2>3
    <3>4. k \in Lines(p) /\ IsFiniteSet(line.es) /\ \A e, f \in line.es : e.re = f.re => e = f
      <4>1. k \in Lines(p)
        BY <1>6, ScannedLines
      <4> QED
        BY <1>0, <4>1, LineFacts
    <3>5. \A h \in G : h.id # line.id
      <4> TAKE h \in G
      <4>1. PICK i \in ReadLines(p, n) : h \in EventsOf(LineAt(p, i))
        BY DEF EventsIn
      <4>2. h.id = LineAt(p, i).id
        BY <4>1 DEF EventsOf
      <4>3. i \in Lines(p) /\ i <= n
        BY ScannedLines DEF ReadLines
      <4>4. i < k
        <5>1. i \in Nat
          BY <1>0, <4>3, LineFacts
        <5> QED
          BY <1>6, <4>3, <5>1
      <4>5. LineAt(p, i).id # line.id
        BY <1>0, <3>4, <4>3, <4>4, LineFacts
      <4> QED
        BY <4>2, <4>5
    <3>6. Told(lt, G)
      BY <1>3, <1>5
    <3> HIDE DEF G, line
    <3>7. Told(s.lt, G \cup EventsOf(line))
      BY <3>3, <3>4, <3>5, <3>6, LineTold
    <3> HIDE DEF H
    <3> QED
      BY <1>0, <2>3, <3>2, <3>3, <3>7
  <2> HIDE DEF H
  <2> QED
    BY <1>4, <1>5, <2>1, <2>2, <2>3
<1>9. FileRead'
  <2>1. /\ Scanned(p)' = Scanned(p) /\ StampAt(p, k)' = StampAt(p, k)
        /\ ReadLines(p, k)' = ReadLines(p, k) /\ Wanted(p)' = Wanted(p)
    BY <1>1, SameFile
  <2>2. PICK is : is = ReadLines(p, k)
    OBVIOUS
  <2>3. EventsIn(p, is)' = EventsIn(p, is)
    BY <1>1, SameFile
  <2>4. Path' = p /\ pos' = k /\ stamp' = t /\ todo' # <<>>
    BY <1>0, <1>1, <1>2, <1>3, <1>5
  <2>5. EventsIn(p, ReadLines(p, k))' = H
    BY <2>1, <2>2, <2>3
  <2>6. /\ todo' # <<>> /\ pos' \in {0} \cup Scanned(Path)' /\ stamp' = StampAt(Path, pos)'
        /\ Told(lt, EventsIn(Path, ReadLines(Path, pos)))'
        /\ phase' = "merge" => ReadLines(Path, pos)' = Wanted(Path)'
    BY <1>6, <1>8, <2>1, <2>4, <2>5
  <2> QED
    BY <2>6 DEF FileRead
<1>10. \A p0 \in DOMAIN accepted' : FoundIn(p0, accepted[p0])'
  BY <1>0, SameFound
<1> QED
  BY <1>0, <1>1, <1>9, <1>10 DEF ReadInv

LEMMA OpenStep == ReadInv /\ Open => ReadInv'
<1> SUFFICES ASSUME ReadInv, Open PROVE ReadInv'
  OBVIOUS
<1>0. /\ Run(opts, held) /\ todo \in Seq(ToSet(Paths)) /\ todo # <<>>
      /\ DOMAIN accepted \subseteq ToSet(Paths)
      /\ \A p \in DOMAIN accepted : FoundIn(p, accepted[p])
      /\ phase' = "read" /\ pos' = 0 /\ stamp' = 0 /\ lt' = <<>>
      /\ UNCHANGED <<opts, held, todo, accepted>>
  BY DEF ReadInv, Open
<1>1. Run(opts, held)' /\ UNCHANGED <<opts, held>> /\ Path' = Path /\ Path \in ToSet(Paths)
  BY <1>0 DEF Run, Path
<1>2. PICK p \in ToSet(Paths) : p = Path
  BY <1>1
<1>3. StampAt(p, 0) = 0 /\ ReadLines(p, 0) = {} /\ Told(<<>>, {})
  BY <1>0, NoLineYet
<1>4. StampAt(p, 0)' = 0 /\ ReadLines(p, 0)' = {} /\ EventsIn(p, ReadLines(p, 0))' = {}
  <2>1. StampAt(p, 0)' = 0 /\ ReadLines(p, 0)' = {}
    BY <1>1, <1>3, SameFile
  <2> QED
    BY <2>1 DEF EventsIn
<1>5. FileRead'
  <2>1. Path' = p /\ todo' # <<>>
    BY <1>0, <1>1, <1>2
  <2>2. /\ todo' # <<>> /\ pos' \in {0} \cup Scanned(Path)' /\ stamp' = StampAt(Path, pos)'
        /\ Told(lt, EventsIn(Path, ReadLines(Path, pos)))' /\ phase' # "merge"
    BY <1>0, <1>3, <1>4, <2>1
  <2> QED
    BY <2>2 DEF FileRead
<1>6. \A q \in DOMAIN accepted' : FoundIn(q, accepted[q])'
  BY <1>0, SameFound
<1> QED
  BY <1>0, <1>1, <1>5, <1>6 DEF ReadInv

LEMMA EndOfFileStep == ReadInv /\ EndOfFile => ReadInv'
<1> SUFFICES ASSUME ReadInv, EndOfFile PROVE ReadInv'
  OBVIOUS
<1>0. /\ Run(opts, held) /\ todo \in Seq(ToSet(Paths)) /\ FileRead
      /\ DOMAIN accepted \subseteq ToSet(Paths)
      /\ \A p \in DOMAIN accepted : FoundIn(p, accepted[p])
      /\ Ahead(Scanned(Path)) = {}
      /\ UNCHANGED <<opts, held, todo, accepted, pos, stamp, lt>>
  BY DEF ReadInv, EndOfFile, reading
<1>1. Run(opts, held)' /\ UNCHANGED <<opts, held>> /\ Path' = Path /\ Path \in ToSet(Paths)
  BY <1>0 DEF Run, Path, FileRead
<1>2. PICK p, n, is : p = Path /\ n = pos /\ is = ReadLines(p, n)
  OBVIOUS
<1>3. /\ p \in ToSet(Paths) /\ todo # <<>> /\ n \in {0} \cup Scanned(p) /\ stamp = StampAt(p, n)
      /\ Told(lt, EventsIn(p, is))
  BY <1>0, <1>1, <1>2 DEF FileRead
<1>4. is = Wanted(p)
  <2>1. \A i \in Scanned(p) : ~(i > n)
    BY <1>0, <1>2 DEF Ahead
  <2> QED
    BY <1>0, <1>2, <1>3, <2>1, NothingLeft
<1>5. /\ Scanned(p)' = Scanned(p) /\ StampAt(p, n)' = StampAt(p, n)
      /\ ReadLines(p, n)' = is /\ Wanted(p)' = is /\ EventsIn(p, is)' = EventsIn(p, is)
  BY <1>1, <1>2, <1>4, SameFile
<1>6. FileRead'
  <2>1. Path' = p /\ todo' # <<>> /\ pos' = n
    BY <1>0, <1>1, <1>2, <1>3
  <2>2. /\ todo' # <<>> /\ pos' \in {0} \cup Scanned(Path)' /\ stamp' = StampAt(Path, pos)'
        /\ Told(lt, EventsIn(Path, ReadLines(Path, pos)))'
        /\ ReadLines(Path, pos)' = Wanted(Path)'
    BY <1>0, <1>3, <1>5, <2>1
  <2> QED
    BY <2>2 DEF FileRead
<1>7. \A q \in DOMAIN accepted' : FoundIn(q, accepted[q])'
  BY <1>0, SameFound
<1> QED
  BY <1>0, <1>1, <1>6, <1>7 DEF ReadInv

LEMMA MergeStep == ReadInv /\ Merge => ReadInv'
<1> SUFFICES ASSUME ReadInv, Merge PROVE ReadInv'
  OBVIOUS
<1>0. /\ Run(opts, held) /\ todo \in Seq(ToSet(Paths)) /\ FileRead /\ phase = "merge"
      /\ DOMAIN accepted \subseteq ToSet(Paths)
      /\ \A p \in DOMAIN accepted : FoundIn(p, accepted[p])
      /\ accepted' = Put(accepted, Path, [i \in DOMAIN lt |-> Said(lt[i])])
      /\ todo' = Tail(todo) /\ phase' = "open" /\ UNCHANGED <<opts, held>>
  BY DEF ReadInv, Merge
<1>1. Run(opts, held)' /\ Path \in ToSet(Paths) /\ todo' \in Seq(ToSet(Paths))
  BY <1>0 DEF Run, Path, FileRead
<1>2. PICK p, f : p = Path /\ f = [i \in DOMAIN lt |-> Said(lt[i])]
  OBVIOUS
<1>3. FoundIn(p, f)
  <2>1. Told(lt, EventsIn(p, Wanted(p)))
    BY <1>0, <1>2 DEF FileRead
  <2> QED
    BY <1>2, <2>1, SaidFound
<1>4. accepted' = [q \in DOMAIN accepted \cup {p} |-> IF q = p THEN f ELSE accepted[q]]
  BY <1>0, <1>2 DEF Put
<1>5. DOMAIN accepted' \subseteq ToSet(Paths)
  BY <1>0, <1>1, <1>2, <1>4
<1>6. \A q \in DOMAIN accepted' : FoundIn(q, accepted[q])'
  <2> TAKE q \in DOMAIN accepted'
  <2>1. FoundIn(q, accepted'[q])
    BY <1>0, <1>3, <1>4
  <2>2. PICK g : g = accepted'[q]
    OBVIOUS
  <2>3. FoundIn(q, g)' = FoundIn(q, g)
    BY <1>0, SameFound
  <2> QED
    BY <2>1, <2>2, <2>3
<1> QED
  BY <1>0, <1>1, <1>5, <1>6 DEF ReadInv

\* Nothing is read any more.
LEMMA OtherStep ==
  ReadInv /\ phase' \notin {"read", "merge"} /\ UNCHANGED <<opts, held, todo, accepted>> => ReadInv'
<1> SUFFICES ASSUME ReadInv, phase' \notin {"read", "merge"}, UNCHANGED <<opts, held, todo, accepted>>
             PROVE  ReadInv'
  OBVIOUS
<1>1. /\ Run(opts, held) /\ todo \in Seq(ToSet(Paths)) /\ DOMAIN accepted \subseteq ToSet(Paths)
      /\ \A p \in DOMAIN accepted : FoundIn(p, accepted[p])
  BY DEF ReadInv
<1>2. Run(opts, held)'
  BY <1>1 DEF Run
<1>3. \A q \in DOMAIN accepted' : FoundIn(q, accepted[q])'
  BY <1>1, SameFound
<1> QED
  BY <1>1, <1>2, <1>3 DEF ReadInv

LEMMA ReadStep == ReadInv /\ [Next]_vars => ReadInv'
<1> SUFFICES ASSUME ReadInv, [Next]_vars PROVE ReadInv'
  OBVIOUS
<1>1. CASE Reading
  <2>1. BadPath => phase' = "failed" /\ UNCHANGED <<opts, held, todo, accepted>>
    BY DEF BadPath, Fail
  <2>2. BadPath => ReadInv'
    BY <2>1, OtherStep
  <2> QED
    BY <1>1, <2>2, OpenStep, ReadLineStep, EndOfFileStep, MergeStep DEF Reading
<1>2. CASE Showing
  <2>1. /\ NothingFound => phase' = "failed" /\ UNCHANGED <<opts, held, todo, accepted>>
        /\ Conflicts => phase' = "done" /\ UNCHANGED <<opts, held, todo, accepted>>
        /\ Ctx => phase' = "done" /\ UNCHANGED <<opts, held, todo, accepted>>
    BY DEF NothingFound, Fail, Conflicts, Ctx
  <2>2. /\ ListHeader => phase' = "show" /\ UNCHANGED <<opts, held, todo, accepted>>
        /\ Footer => phase' = "done" /\ UNCHANGED <<opts, held, todo, accepted>>
    BY DEF ListHeader, Footer
  <2>3. Row => phase' = "show" /\ UNCHANGED <<opts, held, todo, accepted>>
    BY DEF Row
  <2> QED
    BY <1>2, <2>1, <2>2, <2>3, OtherStep DEF Showing
<1>3. CASE UNCHANGED vars
  <2>1. UNCHANGED <<opts, held, todo, accepted, phase, pos, stamp, lt>>
    BY <1>3 DEF vars, reading
  <2>2. CASE phase \notin {"read", "merge"}
    BY <2>1, <2>2, OtherStep
  <2>3. CASE phase \in {"read", "merge"}
    <3>1. /\ Run(opts, held) /\ todo \in Seq(ToSet(Paths)) /\ FileRead
          /\ DOMAIN accepted \subseteq ToSet(Paths)
          /\ \A p \in DOMAIN accepted : FoundIn(p, accepted[p])
      BY <2>3 DEF ReadInv
    <3>2. PICK p, n, is : p = Path /\ n = pos /\ is = ReadLines(p, n)
      OBVIOUS
    <3>3. /\ Scanned(p)' = Scanned(p) /\ StampAt(p, n)' = StampAt(p, n)
          /\ ReadLines(p, n)' = is /\ Wanted(p)' = Wanted(p) /\ EventsIn(p, is)' = EventsIn(p, is)
      BY <2>1, <3>2, SameFile
    <3>4. Path' = p /\ pos' = n
      BY <2>1, <3>2 DEF Path
    <3>5. /\ todo # <<>> /\ n \in {0} \cup Scanned(p) /\ stamp = StampAt(p, n)
          /\ Told(lt, EventsIn(p, is)) /\ (phase = "merge" => is = Wanted(p))
      BY <3>1, <3>2 DEF FileRead
    <3>6. /\ todo' # <<>> /\ pos' \in {0} \cup Scanned(Path)' /\ stamp' = StampAt(Path, pos)'
          /\ Told(lt, EventsIn(Path, ReadLines(Path, pos)))'
          /\ phase' = "merge" => ReadLines(Path, pos)' = Wanted(Path)'
      BY <2>1, <3>3, <3>4, <3>5
    <3>7. FileRead'
      BY <3>6 DEF FileRead
    <3>8. Run(opts, held)'
      BY <2>1, <3>1 DEF Run
    <3>9. \A q \in DOMAIN accepted' : FoundIn(q, accepted[q])'
      BY <2>1, <3>1, SameFound
    <3> QED
      BY <2>1, <3>1, <3>7, <3>8, <3>9 DEF ReadInv
  <2> QED
    BY <2>2, <2>3
<1> QED
  BY <1>1, <1>2, <1>3 DEF Next

\* For every log, window, calendar and command line, a file yields exactly the
\* events of its lines between --since and --until: neither grep's filter on
\* dates, nor leaving at the first later line, nor folding repetitions together
\* loses or adds one.
THEOREM FoundAsAskedTheorem == Spec => []FoundAsAsked
<1>1. ReadInv => FoundAsAsked
  BY FoundEach DEF ReadInv
<1> QED
  BY <1>1, ReadStart, ReadStep, PTL DEF Spec
-----------------------------------------------------------------------------
(* Elements of a sequence, one after the other.                             *)

Picks(s, is, f) ==
  /\ f[0] = <<>>
  /\ \A i \in 1..Len(s) : f[i] = IF i \in is THEN Append(f[i - 1], s[i]) ELSE f[i - 1]

LEMMA PickedInTurn ==
  ASSUME NEW S, NEW s \in Seq(S), NEW is
  PROVE  \E f : Picks(s, is, f) /\ PickAt(s, is) = f[Len(s)]
<1> DEFINE N == Len(s)
           F(g, k) == [i \in 0..k |-> IF i = 0 THEN <<>>
                         ELSE IF i \in is THEN Append(g[i - 1], s[i]) ELSE g[i - 1]]
           c == CHOOSE g : g = F(g, N)
<1>0. N \in Nat
  OBVIOUS
<1>1. PickAt(s, is) = c[N]
  BY DEF PickAt
<1> HIDE DEF N
<1>2. \A k \in Nat : \E g : g = F(g, k)
  <2> DEFINE T == {k \in Nat : ~\E g : g = F(g, k)}
  <2> SUFFICES ASSUME T # {} PROVE FALSE
    OBVIOUS
  <2>1. PICK k \in T : \A j \in T : k <= j
    BY LeastNumber
  <2>2. k # 0
    <3> DEFINE g == [i \in 0..0 |-> <<>>]
    <3>1. g = F(g, 0)
      OBVIOUS
    <3> QED
      BY <3>1
  <2>3. PICK f : f = F(f, k - 1)
    <3>1. k - 1 \in Nat /\ ~(k <= k - 1)
      BY <2>1, <2>2
    <3>2. k - 1 \notin T
      BY <2>1, <3>1
    <3> QED
      BY <3>1, <3>2
  <2> DEFINE last0 == IF k \in is THEN Append(f[k - 1], s[k]) ELSE f[k - 1]
             g == [i \in 0..k |-> IF i = k THEN last0 ELSE f[i]]
  <2>4. g = F(g, k)
    <3>1. k \in Nat /\ k - 1 \in Nat
      BY <2>1, <2>2
    <3>2. ASSUME NEW i \in 0..k
          PROVE  g[i] = IF i = 0 THEN <<>> ELSE IF i \in is THEN Append(g[i - 1], s[i]) ELSE g[i - 1]
      <4>1. CASE i = k
        <5>1. g[k - 1] = f[k - 1]
          BY <3>1
        <5> QED
          BY <2>2, <3>1, <4>1, <5>1
      <4>2. CASE i # k
        <5>1. i \in 0..(k - 1) /\ g[i] = f[i]
          BY <3>1, <4>2
        <5>2. f[i] = IF i = 0 THEN <<>> ELSE IF i \in is THEN Append(f[i - 1], s[i]) ELSE f[i - 1]
          BY <2>3, <5>1
        <5>3. i # 0 => g[i - 1] = f[i - 1]
          BY <3>1, <4>2
        <5> QED
          BY <5>1, <5>2, <5>3
      <4> QED
        BY <4>1, <4>2
    <3> QED
      BY <3>2
  <2> QED
    BY <2>4
<1>3. c = F(c, N)
  BY <1>0, <1>2
<1> HIDE DEF c
<1>4. \A i \in 0..N : c[i] = IF i = 0 THEN <<>> ELSE IF i \in is THEN Append(c[i - 1], s[i]) ELSE c[i - 1]
  BY <1>3
<1>5. Picks(s, is, c)
  BY <1>0, <1>4 DEF Picks, N
<1> QED
  BY <1>1, <1>5 DEF N

\* Where the sequences and the places are the same, so are the elements taken.
LEMMA PicksAgree ==
  ASSUME NEW S, NEW s \in Seq(S), NEW R, NEW t \in Seq(R), NEW is, NEW js, NEW f, NEW g,
         Picks(s, is, f), Picks(t, js, g), NEW n \in Nat, n <= Len(s), n <= Len(t),
         \A i \in 1..n : s[i] = t[i] /\ (i \in is <=> i \in js)
  PROVE  \A i \in 0..n : f[i] = g[i]
<1> DEFINE T == {i \in 0..n : f[i] # g[i]}
<1> SUFFICES ASSUME T # {} PROVE FALSE
  OBVIOUS
<1>0. T \in SUBSET Nat
  OBVIOUS
<1>1. PICK i \in T : \A j \in T : i <= j
  <2> HIDE DEF T
  <2> QED
    BY <1>0, LeastNumber
<1>2. i # 0
  BY DEF Picks
<1>3. i \in 1..n /\ i \in 1..Len(s) /\ i \in 1..Len(t) /\ i - 1 \in 0..n /\ i - 1 \notin T
  BY <1>1, <1>2
<1>4. /\ f[i] = IF i \in is THEN Append(f[i - 1], s[i]) ELSE f[i - 1]
      /\ g[i] = IF i \in js THEN Append(g[i - 1], t[i]) ELSE g[i - 1]
  BY <1>3 DEF Picks
<1> QED
  BY <1>3, <1>4

\* What is taken are elements, no more than there are places.
LEMMA PicksAre ==
  ASSUME NEW S, NEW s \in Seq(S), NEW is, NEW f, Picks(s, is, f)
  PROVE  \A i \in 0..Len(s) : /\ f[i] \in Seq({s[j] : j \in is \cap (1..Len(s))})
                              /\ Len(f[i]) \in Nat /\ Len(f[i]) <= i
<1> DEFINE P == {s[j] : j \in is \cap (1..Len(s))}
<1>0. \A i \in 1..Len(s) : i \in is => s[i] \in P
  OBVIOUS
<1> HIDE DEF P
<1> DEFINE T == {i \in 0..Len(s) : ~(f[i] \in Seq(P) /\ Len(f[i]) <= i)}
<1>1. T = {}
  <2> SUFFICES ASSUME T # {} PROVE FALSE
    OBVIOUS
  <2>0. T \in SUBSET Nat
    OBVIOUS
  <2>1. PICK i \in T : \A j \in T : i <= j
    <3> HIDE DEF T
    <3> QED
      BY <2>0, LeastNumber
  <2>2. i # 0
    <3>1. <<>> \in Seq(P) /\ Len(<<>>) = 0
      OBVIOUS
    <3>2. f[0] = <<>>
      BY DEF Picks
    <3>3. f[0] \in Seq(P) /\ Len(f[0]) <= 0
      BY <3>1, <3>2
    <3> QED
      BY <3>3
  <2>3. i \in 1..Len(s) /\ i - 1 \in 0..Len(s) /\ i - 1 \notin T
    BY <2>1, <2>2
  <2>4. f[i] = IF i \in is THEN Append(f[i - 1], s[i]) ELSE f[i - 1]
    BY <2>3 DEF Picks
  <2>5. f[i - 1] \in Seq(P) /\ Len(f[i - 1]) <= i - 1 /\ Len(f[i - 1]) \in Nat
    BY <2>3
  <2>6. i \in is => s[i] \in P
    BY <1>0, <2>3
  <2>7. f[i] \in Seq(P) /\ Len(f[i]) <= i
    <3>1. CASE i \in is
      BY <2>3, <2>4, <2>5, <2>6, <3>1
    <3>2. CASE i \notin is
      BY <2>3, <2>4, <2>5, <3>2
    <3> QED
      BY <3>1, <3>2
  <2> QED
    BY <2>7
<1>2. \A i \in 0..Len(s) : f[i] \in Seq(P) /\ Len(f[i]) <= i /\ Len(f[i]) \in Nat
  BY <1>1
<1> QED
  BY <1>2 DEF P

\* Taking everything.
LEMMA AllPicked ==
  ASSUME NEW S, NEW s \in Seq(S), NEW is, NEW f, Picks(s, is, f), NEW n \in Nat, n <= Len(s),
         \A i \in 1..n : i \in is
  PROVE  f[n] = [i \in 1..n |-> s[i]]
<1> DEFINE up(k) == [j \in 1..k |-> s[j]]
           T == {i \in 0..n : f[i] # up(i)}
<1> SUFFICES ASSUME T # {} PROVE FALSE
  <2> HIDE DEF up
  <2>1. f[n] = up(n)
    OBVIOUS
  <2> QED
    BY <2>1 DEF up
<1>0. T \in SUBSET Nat
  OBVIOUS
<1>1. PICK i \in T : \A j \in T : i <= j
  <2> HIDE DEF T
  <2> QED
    BY <1>0, LeastNumber
<1>2. i # 0
  <2>1. up(0) = <<>>
    OBVIOUS
  <2> QED
    BY <2>1 DEF Picks
<1>3. i \in 1..n /\ i \in 1..Len(s) /\ i - 1 \in 0..n /\ i - 1 \notin T
  BY <1>1, <1>2
<1>4. f[i] = Append(f[i - 1], s[i])
  BY <1>3 DEF Picks
<1>5. Append(up(i - 1), s[i]) = up(i)
  <2> DEFINE a == up(i - 1)
  <2>1. a \in Seq(S) /\ Len(a) = i - 1 /\ \A j \in 1..(i - 1) : a[j] = s[j]
    BY <1>3
  <2> HIDE DEF a
  <2>2. Append(a, s[i]) = [j \in 1..i |-> IF j = i THEN s[i] ELSE a[j]]
    BY <1>3, <2>1
  <2>3. \A j \in 1..i : j # i => a[j] = s[j]
    BY <1>3, <2>1
  <2>4. Append(a, s[i]) = [j \in 1..i |-> s[j]]
    BY <2>2, <2>3
  <2> QED
    BY <2>4 DEF a
<1> QED
  BY <1>3, <1>4, <1>5

\* What is taken after different beginnings.
LikeFrom(s, is, a, t, js, b, n) ==
  /\ a + n <= Len(s) /\ b + n <= Len(t)
  /\ \A j \in 1..n : s[a + j] = t[b + j] /\ (a + j \in is <=> b + j \in js)
LEMMA PicksShift ==
  ASSUME NEW S, NEW s \in Seq(S), NEW R, NEW t \in Seq(R), NEW is, NEW js, NEW f, NEW g,
         Picks(s, is, f), Picks(t, js, g), NEW a \in Nat, NEW b \in Nat, NEW n \in Nat,
         LikeFrom(s, is, a, t, js, b, n), f[a] = g[b]
  PROVE  \A j \in 0..n : f[a + j] = g[b + j]
<1> USE DEF LikeFrom
<1> DEFINE T == {j \in 0..n : f[a + j] # g[b + j]}
<1> SUFFICES ASSUME T # {} PROVE FALSE
  OBVIOUS
<1>0. T \in SUBSET Nat
  OBVIOUS
<1>1. PICK j \in T : \A k \in T : j <= k
  <2> HIDE DEF T
  <2> QED
    BY <1>0, LeastNumber
<1>2. j # 0
  <2>1. a + 0 = a /\ b + 0 = b
    OBVIOUS
  <2> QED
    BY <2>1
<1>3. /\ j \in 1..n /\ a + j \in 1..Len(s) /\ b + j \in 1..Len(t)
      /\ (a + j) - 1 = a + (j - 1) /\ (b + j) - 1 = b + (j - 1) /\ j - 1 \in 0..n
  BY <1>1, <1>2
<1>4. f[a + (j - 1)] = g[b + (j - 1)]
  <2>1. j - 1 \notin T
    <3> HIDE DEF T
    <3>1. j \in Nat /\ ~(j <= j - 1)
      BY <1>0, <1>1
    <3> QED
      BY <1>1, <3>1
  <2> QED
    BY <1>3, <2>1
<1>5. /\ f[a + j] = IF a + j \in is THEN Append(f[a + (j - 1)], s[a + j]) ELSE f[a + (j - 1)]
      /\ g[b + j] = IF b + j \in js THEN Append(g[b + (j - 1)], t[b + j]) ELSE g[b + (j - 1)]
  BY <1>3 DEF Picks
<1>6. s[a + j] = t[b + j] /\ (a + j \in is <=> b + j \in js) /\ f[a + j] # g[b + j]
  BY <1>3
<1> QED
  BY <1>4, <1>5, <1>6
-----------------------------------------------------------------------------
(* Transitions.                                                             *)

LEMMA ChangesPicked ==
  ASSUME NEW S, NEW tests \in Seq(S)
  PROVE  \E f : /\ Picks(tests, {i \in DOMAIN tests : Changed(tests[i])}, f)
                /\ Changes(tests) = f[Len(tests)]
BY PickedInTurn DEF Changes

LEMMA AllChanges ==
  ASSUME NEW S, NEW s \in Seq(S), \A i \in 1..Len(s) : Changed(s[i])
  PROVE  Changes(s) = s
<1> DEFINE n == Len(s)  is == {i \in DOMAIN s : Changed(s[i])}
<1>1. PICK f : Picks(s, is, f) /\ Changes(s) = f[n]
  BY ChangesPicked
<1>2. n \in Nat /\ n <= Len(s) /\ DOMAIN s = 1..n /\ \A i \in 1..n : i \in is
  OBVIOUS
<1>3. f[n] = [i \in 1..n |-> s[i]]
  <2> HIDE DEF n, is
  <2> QED
    BY <1>1, <1>2, AllPicked
<1> QED
  BY <1>1, <1>3

\* A number that falls from n by at most one at a time, to what is counted, and
\* misses height on its way.
LEMMA Descent ==
  ASSUME NEW n \in Nat, NEW height \in Nat, NEW c \in [0..n -> Nat], c[0] = 0,
         \A i \in 1..n : c[i] = c[i - 1] \/ c[i] = c[i - 1] + 1,
         c[n] <= height, height <= n, \A i \in 1..n : n - i + 1 + c[i - 1] # height
  PROVE  c[n] = height
<1> DEFINE T == {i \in 1..n : n - i + 1 + c[i - 1] <= height}
<1>1. T = {}
  <2> SUFFICES ASSUME T # {} PROVE FALSE
    OBVIOUS
  <2>0. T \in SUBSET Nat
    OBVIOUS
  <2>1. PICK i \in T : \A j \in T : i <= j
    <3> HIDE DEF T
    <3> QED
      BY <2>0, LeastNumber
  <2>2. PICK u : u = c[i - 1]
    OBVIOUS
  <2>9. i \in 1..n /\ i - 1 \in 0..n /\ u \in Nat /\ n - i + 1 + u <= height /\ n - i + 1 + u # height
    <3>1. i \in 1..n /\ i - 1 \in 0..n /\ n - i + 1 + u <= height
      BY <2>1, <2>2
    <3>2. u \in Nat /\ n - i + 1 + u # height
      BY <2>2, <3>1
    <3> QED
      BY <3>1, <3>2
  <2>3. i # 1
    <3>1. i = 1 => u = 0
      BY <2>2
    <3> QED
      BY <2>9, <3>1
  <2>4. i - 1 \in 1..n /\ (i - 1) - 1 \in 0..n
    BY <2>3, <2>9
  <2>5. i - 1 \notin T
    <3> HIDE DEF T
    <3>1. i \in Nat /\ ~(i <= i - 1)
      BY <2>0, <2>1
    <3> QED
      BY <2>1, <3>1
  <2>10. PICK v : v = c[(i - 1) - 1]
    OBVIOUS
  <2>6. ~(n - (i - 1) + 1 + v <= height)
    BY <2>4, <2>5, <2>10
  <2>7. (u = v \/ u = v + 1) /\ v \in Nat
    BY <2>2, <2>4, <2>10
  <2>8. i \in Nat /\ n - (i - 1) + 1 + v > height
    BY <2>6, <2>7, <2>9
  <2> HIDE DEF T
  <2>11. CASE u = v
    BY <2>7, <2>8, <2>9, <2>11
  <2>12. CASE u = v + 1
    BY <2>7, <2>8, <2>9, <2>12
  <2> QED
    BY <2>7, <2>11, <2>12
<1>2. CASE n = 0
  <2>1. c[n] = 0 /\ height = 0
    BY <1>2
  <2> QED
    BY <2>1
<1>3. CASE n # 0
  <2>0. n \notin T
    BY <1>1
  <2>1. n \in 1..n /\ n - 1 \in 0..n /\ n \in 0..n
    BY <1>3
  <2>4. PICK u : u = c[n - 1]
    OBVIOUS
  <2>2. ~(n - n + 1 + u <= height)
    BY <2>0, <2>1, <2>4
  <2>3. u \in Nat /\ c[n] \in Nat /\ (c[n] = u \/ c[n] = u + 1)
    BY <2>1, <2>4
  <2> QED
    BY <2>1, <2>2, <2>3
<1> QED
  BY <1>2, <1>3

\* The column has as many lines as the highest, and none of its changes is lost.
LEMMA Aligned ==
  ASSUME NEW S, NEW tests \in Seq(S), NEW height \in Nat,
         Len(Changes(tests)) <= height, height <= Len(tests)
  PROVE  Changes(SubSeq(StackPrioritizeFound(tests, height), 1, height)) = Changes(tests)
<1> DEFINE n == Len(tests)  is == {i \in DOMAIN tests : Changed(tests[i])}
           found(i) == Changes(SubSeq(tests, 1, i - 1))
           full == {i \in 1..n : n - i + 1 + Len(found(i)) = height}
<1>0. n \in Nat /\ DOMAIN tests = 1..n
  OBVIOUS
<1>1. PICK f : Picks(tests, is, f) /\ Changes(tests) = f[n]
  BY ChangesPicked
<1>2. \A i \in 0..n : f[i] \in Seq({tests[j] : j \in is \cap (1..n)}) /\ Len(f[i]) \in Nat /\ Len(f[i]) <= i
  BY <1>1, PicksAre
<1>3. \A i \in 0..n : f[i] \in Seq(S) /\ \A j \in 1..Len(f[i]) : Changed(f[i][j])
  <2> TAKE i \in 0..n
  <2> DEFINE P == {tests[j] : j \in is \cap (1..n)}
  <2>1. f[i] \in Seq(P) /\ Len(f[i]) \in Nat
    BY <1>2
  <2>2. \A x \in P : x \in S /\ Changed(x)
    BY <1>0
  <2> HIDE DEF P
  <2> QED
    BY <2>1, <2>2
<1>4. \A i \in 1..n : Len(f[i]) = IF i \in is THEN Len(f[i - 1]) + 1 ELSE Len(f[i - 1])
  <2> TAKE i \in 1..n
  <2>1. i - 1 \in 0..n /\ f[i - 1] \in Seq(S)
    BY <1>0, <1>3
  <2>2. f[i] = IF i \in is THEN Append(f[i - 1], tests[i]) ELSE f[i - 1]
    BY <1>1 DEF Picks
  <2>3. tests[i] \in S
    BY <1>0
  <2> HIDE DEF is
  <2> QED
    BY <2>1, <2>2, <2>3
<1>5. \A i \in 1..n : found(i) = f[i - 1]
  <2> TAKE i \in 1..n
  <2> DEFINE t == SubSeq(tests, 1, i - 1)  js == {j \in DOMAIN t : Changed(t[j])}
  <2>1. /\ t \in Seq(S) /\ Len(t) = i - 1 /\ i - 1 \in Nat /\ i - 1 <= n
        /\ \A j \in 1..(i - 1) : t[j] = tests[j]
    BY <1>0
  <2>2. \A j \in 1..(i - 1) : tests[j] = t[j] /\ (j \in is <=> j \in js)
    BY <1>0, <2>1
  <2>3. PICK g : Picks(t, js, g) /\ Changes(t) = g[Len(t)]
    BY <2>1, ChangesPicked
  <2> HIDE DEF t, js, is
  <2>4. \A j \in 0..(i - 1) : f[j] = g[j]
    BY <1>1, <2>1, <2>2, <2>3, PicksAgree
  <2>5. Changes(t) = f[i - 1]
    BY <2>1, <2>3, <2>4
  <2> QED
    BY <2>5 DEF t
<1>6. f[n] \in Seq(S) /\ Changes(f[n]) = f[n]
  <2>1. n \in 0..n
    BY <1>0
  <2> QED
    BY <1>3, <2>1, AllChanges
<1>7. StackPrioritizeFound(tests, height) =
        IF full = {} THEN Changes(tests) ELSE found(Min(full)) \o SubSeq(tests, Min(full), n)
  BY DEF StackPrioritizeFound
<1> HIDE DEF is, found, n
<1>8. CASE full = {}
  <2>1. \A i \in 1..n : n - i + 1 + Len(f[i - 1]) # height
    BY <1>5, <1>8
  <2> DEFINE c == [i \in 0..n |-> Len(f[i])]
  <2>2. c \in [0..n -> Nat]
    BY <1>2
  <2>3. Len(f[n]) = height
    <3>1. c[0] = 0 /\ c[n] = Len(f[n]) /\ c[n] <= height /\ height <= n
      <4>1. f[0] = <<>> /\ 0 \in 0..n /\ n \in 0..n
        BY <1>0, <1>1 DEF Picks
      <4>2. height <= n
        BY DEF n
      <4> QED
        BY <1>1, <4>1, <4>2
    <3>2. \A i \in 1..n : /\ c[i] = Len(f[i]) /\ c[i - 1] = Len(f[i - 1])
                          /\ c[i] = c[i - 1] \/ c[i] = c[i - 1] + 1
                          /\ n - i + 1 + c[i - 1] # height
      <4> TAKE i \in 1..n
      <4>1. i - 1 \in 0..n /\ i \in 0..n
        BY <1>0
      <4>2. c[i] = Len(f[i]) /\ c[i - 1] = Len(f[i - 1])
        BY <4>1
      <4> HIDE DEF c
      <4> QED
        BY <1>4, <2>1, <4>2
    <3> HIDE DEF c
    <3>3. c[n] = height
      BY <1>0, <2>2, <3>1, <3>2, Descent
    <3> QED
      BY <3>1, <3>3
  <2>4. SubSeq(f[n], 1, height) = f[n]
    BY <1>6, <2>3
  <2> QED
    BY <1>1, <1>6, <1>7, <1>8, <2>4
<1>9. CASE full # {}
  <2>1. full \in SUBSET Nat
    OBVIOUS
  <2>2. PICK i : i = Min(full)
    OBVIOUS
  <2>3. i \in full
    <3> HIDE DEF full
    <3> QED
      BY <1>9, <2>1, <2>2, MinNumber
  <2>4. i \in 1..n /\ i - 1 \in 0..n /\ found(i) = f[i - 1] /\ n - i + 1 + Len(f[i - 1]) = height
    <3>1. i \in 1..n /\ n - i + 1 + Len(found(i)) = height
      BY <2>3
    <3>2. found(i) = f[i - 1]
      BY <1>5, <3>1
    <3>3. i - 1 \in 0..n
      BY <1>0, <3>1
    <3> QED
      BY <3>1, <3>2, <3>3
  <2> DEFINE b == f[i - 1]  l == Len(b)  e == SubSeq(tests, i, n)  r == b \o e  k == n - (i - 1)
             js == {j \in DOMAIN r : Changed(r[j])}
  <2>5. b \in Seq(S) /\ l \in Nat /\ \A j \in 1..l : Changed(b[j])
    BY <1>2, <1>3, <2>4
  <2>6. k \in Nat /\ e \in Seq(S) /\ Len(e) = k /\ \A j \in 1..k : e[j] = tests[(i - 1) + j]
    <3>1. n = Len(tests)
      BY DEF n
    <3>2. e \in Seq(S) /\ Len(e) = k /\ k \in Nat
      BY <2>4, <3>1
    <3>3. \A j \in 1..k : e[j] = tests[(i - 1) + j]
      BY <2>4, <3>1
    <3> QED
      BY <3>2, <3>3
  <2>7. l + k = height
    <3>1. n - i + 1 + l = height /\ i \in Nat
      <4>1. l = Len(f[i - 1])
        OBVIOUS
      <4>2. n - i + 1 + Len(f[i - 1]) = height /\ i \in Nat
        BY <2>4
      <4> HIDE DEF l
      <4> QED
        BY <4>1, <4>2
    <3> HIDE DEF l
    <3> QED
      BY <1>0, <2>5, <3>1
  <2> HIDE DEF b, e, l, k
  <2>8. /\ r \in Seq(S) /\ Len(r) = height /\ DOMAIN r = 1..height
        /\ \A j \in 1..l : r[j] = b[j]
        /\ \A j \in 1..k : r[l + j] = e[j]
    <3>1. b \in Seq(S) /\ Len(b) = l /\ e \in Seq(S) /\ Len(e) = k /\ l \in Nat /\ k \in Nat
      BY <2>5, <2>6 DEF l
    <3>2. Len(r) = l + k /\ r \in Seq(S)
      BY <3>1
    <3>3. \A j \in 1..l : r[j] = b[j]
      BY <3>1
    <3>4. \A j \in 1..k : r[l + j] = e[j]
      BY <3>1
    <3> HIDE DEF r
    <3>5. DOMAIN r = 1..Len(r)
      BY <3>2
    <3> QED
      BY <2>7, <3>2, <3>3, <3>4, <3>5
  <2> HIDE DEF r
  <2>9. PICK g : Picks(r, js, g) /\ Changes(r) = g[height]
    BY <2>8, ChangesPicked
  <2>10. \A j \in 1..l : j \in js
    BY <2>5, <2>6, <2>7, <2>8
  <2>11. \A j \in 1..k : r[l + j] = tests[(i - 1) + j] /\ (l + j \in js <=> (i - 1) + j \in is)
    <3> TAKE j \in 1..k
    <3>1. r[l + j] = tests[(i - 1) + j] /\ l + j \in 1..height /\ (i - 1) + j \in 1..n
      <4>1. r[l + j] = tests[(i - 1) + j]
        BY <2>6, <2>8
      <4> QED
        BY <1>0, <2>4, <2>5, <2>6, <2>7, <4>1 DEF k
    <3> QED
      BY <1>0, <2>8, <3>1 DEF is
  <2> HIDE DEF js
  <2>12. g[l] = b
    <3>1. l <= Len(r)
      BY <2>5, <2>6, <2>7, <2>8
    <3>2. g[l] = [j \in 1..l |-> r[j]]
      <4>1. r \in Seq(S) /\ Picks(r, js, g) /\ l \in Nat
        BY <2>5, <2>8, <2>9
      <4> HIDE DEF Picks
      <4> QED
        BY <2>10, <3>1, <4>1, AllPicked
    <3>3. b = [j \in 1..l |-> b[j]]
      BY <2>5 DEF l
    <3> QED
      BY <2>8, <3>2, <3>3
  <2>13. \A j \in 0..k : g[l + j] = f[(i - 1) + j]
    <3>1. i - 1 \in Nat /\ l + k <= Len(r) /\ (i - 1) + k <= Len(tests) /\ g[l] = f[i - 1]
      <4>1. (i - 1) + k = n /\ n = Len(tests)
        BY <1>0, <2>4 DEF k, n
      <4>2. g[l] = f[i - 1]
        BY <2>12 DEF b
      <4>3. height <= height
        OBVIOUS
      <4> QED
        BY <1>0, <2>4, <2>7, <2>8, <4>1, <4>2, <4>3
    <3> QED
      <4>1. r \in Seq(S) /\ Picks(r, js, g) /\ Picks(tests, is, f) /\ l \in Nat /\ k \in Nat
        BY <1>1, <2>5, <2>6, <2>8, <2>9
      <4>2. LikeFrom(r, js, l, tests, is, i - 1, k)
        BY <2>11, <3>1 DEF LikeFrom
      <4>3. PICK a : a = i - 1
        OBVIOUS
      <4>4. a \in Nat /\ LikeFrom(r, js, l, tests, is, a, k) /\ g[l] = f[a]
        BY <3>1, <4>2, <4>3
      <4>5. \A j \in 0..k : g[l + j] = f[a + j]
        BY <4>1, <4>4, PicksShift
      <4> QED
        BY <4>3, <4>5
  <2>14. Changes(r) = f[n]
    <3>1. k \in 0..k /\ (i - 1) + k = n
      BY <1>0, <2>4, <2>6 DEF k
    <3> QED
      BY <2>7, <2>9, <2>13, <3>1
  <2>15. SubSeq(r, 1, height) = r
    BY <2>8
  <2>16. StackPrioritizeFound(tests, height) = r
    BY <1>7, <1>9, <2>2, <2>4 DEF r, b, e
  <2> QED
    BY <1>1, <2>14, <2>15, <2>16
<1> QED
  BY <1>8, <1>9

\* Every test of a context against itself is of the same values.
LEMMA OneOrNone ==
  ASSUME NEW U, NEW x \in U, NEW P \in BOOLEAN
  PROVE  LET s == IF P THEN <<x>> ELSE <<>> IN s \in Seq(U) /\ Len(s) \in {0, 1}
OBVIOUS

LEMMA FourBits ==
  ASSUME NEW i \in {0, 1}, NEW j \in {0, 1}, NEW k \in {0, 1}, NEW l \in {0, 1}
  PROVE  i + j + k + l \in 0..4 /\ 4 - (i + j + k + l) \in Nat
OBVIOUS

Filled(a, b, c, d, e) ==
  LET s == a \o b \o c \o d IN s \o [i \in 1..(4 - Len(s)) |-> e]
LEMMA UpToFour ==
  ASSUME NEW U, NEW e \in U, NEW a \in Seq(U), NEW b \in Seq(U), NEW c \in Seq(U), NEW d \in Seq(U),
         Len(a) \in {0, 1}, Len(b) \in {0, 1}, Len(c) \in {0, 1}, Len(d) \in {0, 1}
  PROVE  Filled(a, b, c, d, e) \in Seq(U) /\ Len(Filled(a, b, c, d, e)) = 4
<1> DEFINE s == a \o b \o c \o d
<1>1. s \in Seq(U) /\ Len(s) = Len(a) + Len(b) + Len(c) + Len(d)
  <2>1. a \o b \in Seq(U) /\ Len(a \o b) = Len(a) + Len(b)
    OBVIOUS
  <2>2. (a \o b) \o c \in Seq(U) /\ Len((a \o b) \o c) = Len(a \o b) + Len(c)
    BY <2>1
  <2> QED
    BY <2>1, <2>2
<1> HIDE DEF s
<1>2. Len(s) \in 0..4 /\ 4 - Len(s) \in Nat
  BY <1>1, FourBits
<1> DEFINE n == 4 - Len(s)  r == [i \in 1..n |-> e]
<1>3. n \in Nat /\ Len(s) + n = 4
  <2> HIDE DEF n
  <2>1. n = 4 - Len(s)
    BY DEF n
  <2>2. n \in Nat
    BY <1>2, <2>1
  <2> QED
    BY <1>2, <2>1, <2>2
<1> HIDE DEF n
<1>4. r \in Seq(U) /\ Len(r) = n
  BY <1>3
<1>5. s \o r \in Seq(U) /\ Len(s \o r) = 4
  BY <1>1, <1>3, <1>4
<1> QED
  BY <1>5 DEF s, n, Filled

IsSeq(s) == s \in Seq(ToSet(s))

LEMMA SomeSeq ==
  ASSUME NEW S, NEW s \in Seq(S)
  PROVE  IsSeq(s) /\ Len(s) \in Nat /\ DOMAIN s = 1..Len(s)
<1>1. s = [i \in 1..Len(s) |-> s[i]] /\ DOMAIN s = 1..Len(s) /\ Len(s) \in Nat
  OBVIOUS
<1> QED
  BY <1>1, SeqOfItsOwn DEF IsSeq

Same(test) == ~Changed(test)

LEMMA NoChanges ==
  ASSUME NEW S, NEW s \in Seq(S), \A i \in 1..Len(s) : Same(s[i])
  PROVE  Changes(s) = <<>>
<1> DEFINE is == {i \in DOMAIN s : Changed(s[i])}  n == Len(s)
<1>1. PICK f : Picks(s, is, f) /\ Changes(s) = f[n]
  BY ChangesPicked
<1>2. is \cap (1..n) = {} /\ n \in 0..Len(s)
  BY DEF Same
<1> HIDE DEF is, n
<1>3. f[n] \in Seq({s[j] : j \in is \cap (1..Len(s))})
  BY <1>1, <1>2, PicksAre
<1>4. {s[j] : j \in is \cap (1..Len(s))} = {}
  BY <1>2 DEF n
<1>5. f[n] \in Seq({})
  BY <1>3, <1>4
<1>6. f[n] = <<>>
  BY <1>5
<1> QED
  BY <1>1, <1>6

LEMMA ChangesAre ==
  ASSUME NEW S, NEW s \in Seq(S)
  PROVE  IsSeq(Changes(s)) /\ Len(Changes(s)) \in 0..Len(s)
<1> DEFINE is == {i \in DOMAIN s : Changed(s[i])}  n == Len(s)
<1>1. PICK f : Picks(s, is, f) /\ Changes(s) = f[n]
  BY ChangesPicked
<1>2. n \in 0..Len(s) /\ n \in Nat
  OBVIOUS
<1> HIDE DEF is
<1>3. /\ f[n] \in Seq({s[j] : j \in is \cap (1..Len(s))})
      /\ Len(f[n]) \in Nat /\ Len(f[n]) <= n
  BY <1>1, <1>2, PicksAre
<1> QED
  BY <1>1, <1>2, <1>3, SomeSeq
LEMMA TestsFour ==
  ASSUME NEW c, NEW d
  PROVE  /\ Tests(c, d) \in Seq(ToSet(Tests(c, d))) /\ Len(Tests(c, d)) = 4
         /\ c = d => Changes(Tests(c, d)) = <<>>
<1> DEFINE w == Test("path", c.path, d.path)
           x == Test("name", LastOr(c.names), LastOr(d.names))
           y == Test("ip", LastOr(c.ips), LastOr(d.ips))
           z == Test("version", c.version, d.version)
           P(a, b) == a # "" /\ b # ""
           p == IF P(LastOr(c.names), LastOr(d.names)) THEN <<x>> ELSE <<>>
           q == IF P(LastOr(c.ips), LastOr(d.ips)) THEN <<y>> ELSE <<>>
           r == IF P(c.version, d.version) THEN <<z>> ELSE <<>>
           U == {EmptyTransition, w, x, y, z}
           s == <<w>> \o p \o q \o r
           t == s \o [i \in 1..(4 - Len(s)) |-> EmptyTransition]
<1>1. Tests(c, d) = t
  BY DEF Tests, NumberOfPossibleTransition
<1>2. ASSUME c = d, NEW e \in U PROVE Same(e)
  <2>1. \A k, v : Same(Test(k, v, v))
    BY DEF Same, Changed, Test
  <2>2. Same(EmptyTransition)
    BY <2>1 DEF EmptyTransition
  <2> QED
    BY <1>2, <2>1, <2>2
<1>3. EmptyTransition \in U /\ w \in U /\ x \in U /\ y \in U /\ z \in U
  OBVIOUS
<1> HIDE DEF U, w, x, y, z
<1>4. <<w>> \in Seq(U) /\ Len(<<w>>) \in {0, 1}
  BY <1>3
<1>5. P(LastOr(c.names), LastOr(d.names)) \in BOOLEAN /\ P(LastOr(c.ips), LastOr(d.ips)) \in BOOLEAN
      /\ P(c.version, d.version) \in BOOLEAN
  OBVIOUS
<1> HIDE DEF P
<1>6. p \in Seq(U) /\ Len(p) \in {0, 1}
  BY <1>3, <1>5, OneOrNone
<1>7. q \in Seq(U) /\ Len(q) \in {0, 1}
  BY <1>3, <1>5, OneOrNone
<1>8. r \in Seq(U) /\ Len(r) \in {0, 1}
  BY <1>3, <1>5, OneOrNone
<1> HIDE DEF p, q, r
<1>9. t \in Seq(U) /\ Len(t) = 4
  <2>1. t = Filled(<<w>>, p, q, r, EmptyTransition)
    BY DEF Filled
  <2> HIDE DEF t
  <2> QED
    <3>1. PICK v, e : v = <<w>> /\ e = EmptyTransition
      OBVIOUS
    <3>2. v \in Seq(U) /\ Len(v) \in {0, 1} /\ e \in U /\ t = Filled(v, p, q, r, e)
      BY <1>3, <1>4, <2>1, <3>1
    <3>3. Filled(v, p, q, r, e) \in Seq(U) /\ Len(Filled(v, p, q, r, e)) = 4
      BY <1>6, <1>7, <1>8, <3>2, UpToFour
    <3> QED
      BY <3>2, <3>3
<1> HIDE DEF t
<1>10. ASSUME c = d PROVE Changes(t) = <<>>
  <2>1. \A i \in 1..Len(t) : t[i] \in U
    BY <1>9
  <2> QED
    BY <1>2, <1>9, <1>10, <2>1, NoChanges
<1>11. t \in Seq(ToSet(t))
  <2>1. t = [i \in 1..4 |-> t[i]] /\ DOMAIN t = 1..4
    BY <1>9
  <2> QED
    BY <2>1, SeqOfItsOwn
<1> QED
  BY <1>1, <1>9, <1>10, <1>11
-----------------------------------------------------------------------------
(* Columns.                                                                 *)

LEMMA SeqFacts ==
  ASSUME NEW s, IsSeq(s)
  PROVE  /\ Len(s) \in Nat /\ DOMAIN s = 1..Len(s) /\ s = [i \in 1..Len(s) |-> s[i]]
         /\ s = <<>> <=> Len(s) = 0
BY DEF IsSeq

LEMMA Joined ==
  ASSUME NEW s, IsSeq(s), NEW t, IsSeq(t)
  PROVE  IsSeq(s \o t) /\ Len(s \o t) = Len(s) + Len(t)
<1> DEFINE U == ToSet(s) \cup ToSet(t)  r == s \o t
<1>1. s \in Seq(U) /\ t \in Seq(U)
  BY DEF IsSeq
<1> HIDE DEF U
<1>2. r \in Seq(U) /\ Len(r) = Len(s) + Len(t)
  BY <1>1
<1> HIDE DEF r
<1>3. IsSeq(r)
  BY <1>2, SomeSeq
<1> QED
  BY <1>2, <1>3 DEF r

LEMMA Part ==
  ASSUME NEW s, IsSeq(s), NEW i \in 1..(Len(s) + 1), NEW n, n = Len(s) - i + 1
  PROVE  LET r == SubSeq(s, i, Len(s))
         IN IsSeq(r) /\ Len(r) = n /\ n \in Nat /\ \A j \in 1..n : r[j] = s[i + j - 1]
<1> DEFINE r == SubSeq(s, i, Len(s))
<1>1. Len(s) \in Nat /\ s \in Seq(ToSet(s)) /\ n \in Nat
  BY SeqFacts DEF IsSeq
<1>2. r \in Seq(ToSet(s)) /\ Len(r) = n /\ \A j \in 1..n : r[j] = s[i + j - 1]
  BY <1>1
<1> HIDE DEF r
<1>3. IsSeq(r)
  BY <1>2, SomeSeq
<1> QED
  BY <1>1, <1>2, <1>3 DEF r

LEMMA CutIs ==
  ASSUME NEW s, IsSeq(s), NEW at
  PROVE  IsSeq(CutTimelineAt(s, at))
<1> DEFINE after == {i \in DOMAIN s : s[i].date > at}
<1>0. DOMAIN s = 1..Len(s) /\ Len(s) \in Nat
  BY SeqFacts
<1>1. CASE after = {}
  <2>1. IsSeq(<<>>)
    BY DEF IsSeq
  <2> QED
    BY <1>1, <2>1 DEF CutTimelineAt
<1>2. CASE after # {}
  <2>1. after \in SUBSET Nat /\ \A i \in after : i \in 1..Len(s)
    BY <1>0
  <2>2. PICK i : i = Min(after)
    OBVIOUS
  <2>3. CutTimelineAt(s, at) = SubSeq(s, i, Len(s))
    BY <1>2, <2>2 DEF CutTimelineAt
  <2> HIDE DEF after
  <2>4. i \in after
    BY <1>2, <2>1, <2>2, MinNumber
  <2>5. i \in 1..(Len(s) + 1)
    BY <1>0, <2>1, <2>4
  <2> QED
    BY <2>3, <2>5, Part
<1> QED
  BY <1>1, <1>2

LEMMA LastChanged ==
  ASSUME NEW s, IsSeq(s), NEW t, \E v : t = [s EXCEPT ![Len(s)].ctx = v]
  PROVE  IsSeq(t) /\ Len(t) = Len(s)
<1>1. Len(s) \in Nat /\ DOMAIN s = 1..Len(s)
  BY SeqFacts
<1>2. DOMAIN t = DOMAIN s /\ t = [i \in DOMAIN s |-> t[i]]
  OBVIOUS
<1> QED
  BY <1>1, <1>2, SeqOfItsOwn DEF IsSeq

Column(s) == IsSeq(s) /\ s # <<>>

LEMMA ContinueIs ==
  ASSUME NEW s, Column(s), NEW t, IsSeq(t)
  PROVE  Column(Continue(s, t))
<1> DEFINE rest == IF LastTime(s) > FirstTime(t) THEN CutTimelineAt(t, LastTime(s)) ELSE t
           more == [rest EXCEPT ![Len(rest)].ctx = Inherit(@, Last(s).ctx)]
<1>1. IsSeq(rest)
  BY CutIs
<1>2. Continue(s, t) = s \o more
  BY DEF Continue
<1> HIDE DEF rest
<1>3. \E v : more = [rest EXCEPT ![Len(rest)].ctx = v]
  <2>1. more = [rest EXCEPT ![Len(rest)].ctx = Inherit(rest[Len(rest)].ctx, Last(s).ctx)]
    OBVIOUS
  <2> QED
    BY <2>1
<1> HIDE DEF more
<1>4. IsSeq(more) /\ Len(more) \in Nat
  BY <1>1, <1>3, LastChanged, SeqFacts
<1>5. Len(s) \in Nat /\ Len(s) # 0 /\ IsSeq(s)
  BY SeqFacts DEF Column
<1>6. IsSeq(s \o more) /\ Len(s \o more) = Len(s) + Len(more)
  BY <1>4, <1>5, Joined
<1>7. Len(s \o more) # 0
  BY <1>4, <1>5, <1>6
<1> QED
  BY <1>2, <1>6, <1>7, SeqFacts DEF Column

LEMMA MergeIs ==
  ASSUME NEW s, Column(s), NEW t, Column(t)
  PROVE  Column(MergeTimeline(s, t))
<1>1. \A a, b : Column(a) /\ Column(b) => Column(MergeOrdered(a, b))
  BY ContinueIs DEF MergeOrdered, Column
<1> QED
  BY <1>1 DEF MergeTimeline

\* One more element, taken or not.
LEMMA PickOneMore ==
  ASSUME NEW s, IsSeq(s), NEW x, NEW is, NEW js,
         \A i \in 1..Len(s) : i \in is <=> i \in js
  PROVE  LET r == PickAt(s, is)
         IN /\ IsSeq(r)
            /\ PickAt(Append(s, x), js) = IF Len(s) + 1 \in js THEN Append(r, x) ELSE r
<1> DEFINE S == ToSet(s) \cup {x}  t == Append(s, x)  n == Len(s)
<1>1. /\ s \in Seq(S) /\ t \in Seq(S) /\ n \in Nat /\ Len(t) = n + 1 /\ t[n + 1] = x
      /\ \A i \in 1..n : s[i] = t[i]
  BY DEF IsSeq
<1> HIDE DEF S, t
<1>2. PICK f : Picks(s, is, f) /\ PickAt(s, is) = f[n]
  BY <1>1, PickedInTurn
<1>3. PICK g : Picks(t, js, g) /\ PickAt(t, js) = g[n + 1]
  BY <1>1, PickedInTurn
<1>4. f[n] = g[n]
  <2>1. \A i \in 1..n : s[i] = t[i] /\ (i \in is <=> i \in js)
    BY <1>1
  <2>2. n <= Len(s) /\ n <= Len(t) /\ n \in 0..n
    BY <1>1
  <2> HIDE DEF n
  <2>3. \A i \in 0..n : f[i] = g[i]
    BY <1>1, <1>2, <1>3, <2>1, <2>2, PicksAgree
  <2> QED
    BY <2>2, <2>3
<1>5. g[n + 1] = IF n + 1 \in js THEN Append(g[n], x) ELSE g[n]
  <2>1. n + 1 \in 1..Len(t) /\ (n + 1) - 1 = n
    BY <1>1
  <2> QED
    BY <1>1, <1>3, <2>1 DEF Picks
<1>6. IsSeq(f[n])
  <2>1. n \in 0..Len(s)
    BY <1>1
  <2>2. f[n] \in Seq({s[j] : j \in is \cap (1..Len(s))})
    BY <1>1, <1>2, <2>1, PicksAre
  <2> QED
    BY <2>2, SomeSeq
<1> QED
  BY <1>2, <1>3, <1>4, <1>5, <1>6 DEF t

Flat(s, f) == \A i \in 1..Len(s) : f[i] = IF i = 1 THEN s[i] ELSE f[i - 1] \o s[i]

LEMMA Flattened ==
  ASSUME NEW S, NEW s \in Seq(S), Len(s) # 0
  PROVE  \E f : Flat(s, f) /\ FlattenSeq(s) = f[Len(s)]
<1> DEFINE N == Len(s)
           F(g, k) == [i \in 1..k |-> IF i = 1 THEN s[i] ELSE g[i - 1] \o s[i]]
           c == CHOOSE g : g = F(g, N)
<1>0. N \in Nat
  OBVIOUS
<1>1. FlattenSeq(s) = c[N]
  BY DEF FlattenSeq
<1> HIDE DEF N
<1>2. \A k \in Nat : \E g : g = F(g, k)
  <2> DEFINE T == {k \in Nat : ~\E g : g = F(g, k)}
  <2> SUFFICES ASSUME T # {} PROVE FALSE
    OBVIOUS
  <2>1. PICK k \in T : \A j \in T : k <= j
    BY LeastNumber
  <2>2. k # 0
    <3> DEFINE g == [i \in 1..0 |-> <<>>]
    <3>1. g = F(g, 0)
      OBVIOUS
    <3> QED
      BY <3>1
  <2>3. PICK f : f = F(f, k - 1)
    <3>1. k - 1 \in Nat /\ ~(k <= k - 1)
      BY <2>1, <2>2
    <3>2. k - 1 \notin T
      BY <2>1, <3>1
    <3> QED
      BY <3>1, <3>2
  <2> DEFINE end == IF k = 1 THEN s[k] ELSE f[k - 1] \o s[k]
             g == [i \in 1..k |-> IF i = k THEN end ELSE f[i]]
  <2>4. g = F(g, k)
    <3>1. k \in Nat /\ k - 1 \in Nat
      BY <2>1, <2>2
    <3>2. ASSUME NEW i \in 1..k
          PROVE  g[i] = IF i = 1 THEN s[i] ELSE g[i - 1] \o s[i]
      <4>1. CASE i = k
        <5>1. k # 1 => g[k - 1] = f[k - 1]
          BY <3>1
        <5> QED
          BY <2>2, <3>1, <4>1, <5>1
      <4>2. CASE i # k
        <5>1. i \in 1..(k - 1) /\ g[i] = f[i]
          BY <3>1, <4>2
        <5>2. f[i] = IF i = 1 THEN s[i] ELSE f[i - 1] \o s[i]
          BY <2>3, <5>1
        <5>3. i # 1 => g[i - 1] = f[i - 1]
          BY <3>1, <4>2
        <5> QED
          BY <5>1, <5>2, <5>3
      <4> QED
        BY <4>1, <4>2
    <3> QED
      BY <3>2
  <2> QED
    BY <2>4
<1>3. c = F(c, N)
  BY <1>0, <1>2
<1> HIDE DEF c
<1>4. \A i \in 1..N : c[i] = IF i = 1 THEN s[i] ELSE c[i - 1] \o s[i]
  BY <1>3
<1>5. Flat(s, c)
  BY <1>0, <1>4 DEF Flat, N
<1> QED
  BY <1>1, <1>5 DEF N

\* One more sequence at the end.
LEMMA FlattenedMore ==
  ASSUME NEW s, IsSeq(s), NEW x, IsSeq(x)
  PROVE  FlattenSeq(Append(s, x)) = FlattenSeq(s) \o x
<1> DEFINE S == ToSet(s) \cup {x}  t == Append(s, x)  n == Len(s)
<1>1. /\ s \in Seq(S) /\ t \in Seq(S) /\ n \in Nat /\ Len(t) = n + 1 /\ t[n + 1] = x
      /\ \A i \in 1..n : s[i] = t[i]
  BY DEF IsSeq
<1> HIDE DEF S, t
<1>2. PICK g : Flat(t, g) /\ FlattenSeq(t) = g[n + 1]
  <2>1. Len(t) # 0
    BY <1>1
  <2> QED
    BY <1>1, <2>1, Flattened
<1>3. n + 1 \in 1..Len(t) /\ (n + 1) - 1 = n
  BY <1>1
<1>4. CASE n = 0
  <2>1. g[n + 1] = x
    BY <1>1, <1>2, <1>3, <1>4 DEF Flat
  <2>2. FlattenSeq(s) = <<>>
    BY <1>1, <1>4 DEF FlattenSeq
  <2>3. <<>> \o x = x
    BY DEF IsSeq
  <2> QED
    BY <1>2, <2>1, <2>2, <2>3 DEF t
<1>5. CASE n # 0
  <2>1. PICK f : Flat(s, f) /\ FlattenSeq(s) = f[n]
    BY <1>1, <1>5, Flattened
  <2> DEFINE T == {i \in 1..n : f[i] # g[i]}
  <2>2. T = {}
    <3> SUFFICES ASSUME T # {} PROVE FALSE
      OBVIOUS
    <3>0. T \in SUBSET Nat
      OBVIOUS
    <3>1. PICK i \in T : \A j \in T : i <= j
      <4> HIDE DEF T
      <4> QED
        BY <3>0, LeastNumber
    <3>2. i \in 1..Len(s) /\ i \in 1..Len(t) /\ s[i] = t[i]
      BY <1>1, <3>1
    <3>3. /\ f[i] = IF i = 1 THEN s[i] ELSE f[i - 1] \o s[i]
          /\ g[i] = IF i = 1 THEN t[i] ELSE g[i - 1] \o t[i]
      BY <1>2, <2>1, <3>2 DEF Flat
    <3>4. i # 1 => i - 1 \in 1..n /\ i - 1 \notin T
      <4>1. i \in Nat /\ ~(i <= i - 1)
        BY <3>0, <3>1
      <4>2. i - 1 \notin T
        <5> HIDE DEF T
        <5> QED
          BY <3>1, <4>1
      <4> QED
        BY <3>2, <4>2
    <3> QED
      BY <3>1, <3>2, <3>3, <3>4
  <2>3. f[n] = g[n]
    BY <1>1, <1>5, <2>2
  <2>4. g[n + 1] = g[n] \o x
    <3>1. n + 1 # 1
      BY <1>1, <1>5
    <3>2. g[n + 1] = g[(n + 1) - 1] \o t[n + 1]
      BY <1>2, <1>3, <3>1 DEF Flat
    <3> QED
      BY <1>1, <1>3, <3>2
  <2> QED
    BY <1>2, <1>5, <2>1, <2>3, <2>4 DEF t
<1> QED
  BY <1>4, <1>5
-----------------------------------------------------------------------------
(* Showing the columns.                                                     *)

\* What a row announces of each column.
LEMMA SeparatorChanges ==
  ASSUME NEW before, NEW now, NEW k \in DOMAIN now
  PROVE  LET changes == Changes(TransitionSeparator(before, now)[k])
         IN /\ IsSeq(changes)
            /\ changes = IF k \in DOMAIN before THEN Changes(Tests(before[k], now[k])) ELSE <<>>
<1> DEFINE tests == [c \in DOMAIN now |-> IF c \in DOMAIN before THEN Tests(before[c], now[c]) ELSE NoTests]
           H == {Len(Changes(tests[c])) : c \in DOMAIN now}
           height == Max(H)
<1>1. /\ NoTests \in Seq({EmptyTransition}) /\ Len(NoTests) = 4
      /\ \A i \in 1..Len(NoTests) : Same(NoTests[i])
  <2>1. Same(EmptyTransition)
    BY DEF Same, Changed, EmptyTransition, Test
  <2>2. NoTests = [i \in 1..4 |-> EmptyTransition]
    BY DEF NoTests, NumberOfPossibleTransition
  <2> QED
    BY <2>1, <2>2
<1>2. \A c \in DOMAIN now : /\ tests[c] \in Seq(ToSet(tests[c])) /\ Len(tests[c]) = 4
                            /\ IsSeq(Changes(tests[c])) /\ Len(Changes(tests[c])) \in 0..4
  <2> TAKE c \in DOMAIN now
  <2>1. IsSeq(NoTests)
    BY <1>1, SomeSeq
  <2>2. PICK t : t = tests[c]
    OBVIOUS
  <2>3. IsSeq(t) /\ Len(t) = 4
    BY <1>1, <2>1, <2>2, TestsFour DEF IsSeq
  <2>4. IsSeq(Changes(t)) /\ Len(Changes(t)) \in 0..4
    BY <2>3, ChangesAre DEF IsSeq
  <2> QED
    BY <2>2, <2>3, <2>4 DEF IsSeq
<1>3. TransitionSeparator(before, now)[k] = SubSeq(StackPrioritizeFound(tests[k], height), 1, height)
  BY DEF TransitionSeparator
<1>4. tests[k] = IF k \in DOMAIN before THEN Tests(before[k], now[k]) ELSE NoTests
  OBVIOUS
<1> HIDE DEF tests
<1>5. height \in 0..4 /\ Len(Changes(tests[k])) <= height
  <2>1. H \in SUBSET (0..4) /\ Len(Changes(tests[k])) \in H
    BY <1>2
  <2> HIDE DEF H
  <2>2. Max(H) \in H /\ \A h \in H : h <= Max(H)
    BY <2>1, MaxNumber
  <2> QED
    BY <2>1, <2>2
<1> HIDE DEF height
<1>6. Changes(SubSeq(StackPrioritizeFound(tests[k], height), 1, height)) = Changes(tests[k])
  <2>1. PICK t : t = tests[k]
    OBVIOUS
  <2>2. t \in Seq(ToSet(t)) /\ Len(t) = 4 /\ height \in Nat /\ Len(Changes(t)) <= height /\ height <= Len(t)
    <3>1. t \in Seq(ToSet(t)) /\ Len(t) = 4
      BY <1>2, <2>1
    <3>2. Len(Changes(t)) <= height
      BY <1>5, <2>1
    <3> QED
      BY <1>5, <3>1, <3>2
  <2> QED
    BY <2>1, <2>2, Aligned
<1>7. Changes(NoTests) = <<>>
  BY <1>1, NoChanges
<1> QED
  BY <1>2, <1>3, <1>4, <1>6, <1>7

ChangesAt(k, i) == IF i = 1 THEN <<>> ELSE Changes(Tests(report[k][i - 1].ctx, report[k][i].ctx))
ChangesTo(k, c) == [i \in 1..c |-> ChangesAt(k, i)]
ShownRows(k) == PickAt(rows, {i \in DOMAIN rows : k \in DOMAIN rows[i].events})

\* Of a column, the first c events have been shown.
Shown(k, c) ==
  /\ Column(report[k]) /\ c \in 0..Len(report[k])
  /\ tl[k] = SubSeq(report[k], c + 1, Len(report[k]))
  /\ current[k] = report[k][IF c = 0 THEN 1 ELSE c].ctx
  /\ IsSeq(announced[k]) /\ announced[k] = FlattenSeq(ChangesTo(k, c))
  /\ k \in DOMAIN last => Changes(Tests(last[k], current[k])) = <<>>
ShowInv ==
  /\ DOMAIN report = DOMAIN tl /\ DOMAIN current = DOMAIN tl /\ DOMAIN announced = DOMAIN tl
  /\ DOMAIN last \subseteq DOMAIN tl /\ IsSeq(rows)
  /\ \A k \in DOMAIN tl : Shown(k, Len(ShownRows(k)))

\* The next event of a column that has one.
LEMMA ShownNext ==
  ASSUME NEW k, NEW c, Shown(k, c), tl[k] # <<>>
  PROVE  /\ c \in Nat /\ c + 1 <= Len(report[k]) /\ tl[k][1] = report[k][c + 1]
         /\ Tail(tl[k]) = SubSeq(report[k], (c + 1) + 1, Len(report[k]))
<1> DEFINE s == report[k]  r == SubSeq(s, c + 1, Len(s))
<1>1. IsSeq(s) /\ Len(s) \in Nat /\ c \in 0..Len(s) /\ s \in Seq(ToSet(s)) /\ tl[k] = r
  BY SeqFacts DEF Shown, Column, IsSeq
<1>2. r # <<>>
  BY <1>1
<1> HIDE DEF s
<1>3. r \in Seq(ToSet(s)) /\ Len(r) = Len(s) - c
  BY <1>1
<1>4. c # Len(s)
  BY <1>1, <1>2, <1>3
<1>5. c + 1 \in 1..Len(s) /\ c \in Nat
  BY <1>1, <1>4
<1>6. r[1] = s[c + 1]
  BY <1>1, <1>5
<1>7. Tail(r) = SubSeq(s, (c + 1) + 1, Len(s))
  BY <1>1, <1>3, <1>5
<1> QED
  BY <1>1, <1>5, <1>6, <1>7 DEF s

LEMMA ChangesMore ==
  ASSUME NEW k, NEW c \in Nat
  PROVE  /\ IsSeq(ChangesTo(k, c)) /\ ChangesTo(k, c + 1) = Append(ChangesTo(k, c), ChangesAt(k, c + 1))
         /\ Len(ChangesTo(k, c)) = c
<1> DEFINE s == ChangesTo(k, c)  S == {ChangesAt(k, i) : i \in 1..(c + 1)}
<1>1. s \in Seq(S) /\ Len(s) = c /\ ChangesAt(k, c + 1) \in S
  BY DEF ChangesTo
<1>2. \A i \in 1..c : s[i] = ChangesAt(k, i)
  BY DEF ChangesTo
<1> HIDE DEF S, s
<1>3. Append(s, ChangesAt(k, c + 1)) = [i \in 1..(c + 1) |-> IF i = c + 1 THEN ChangesAt(k, c + 1) ELSE s[i]]
  BY <1>1
<1>4. Append(s, ChangesAt(k, c + 1)) = [i \in 1..(c + 1) |-> ChangesAt(k, i)]
  BY <1>2, <1>3
<1>5. IsSeq(s)
  BY <1>1, SomeSeq
<1> QED
  BY <1>1, <1>4, <1>5 DEF ChangesTo, s

LEMMA SameTest == ASSUME NEW c PROVE Changes(Tests(c, c)) = <<>>
BY TestsFour

LEMMA NothingJoined ==
  ASSUME NEW s, IsSeq(s), NEW t, IsSeq(t), s \o t = s
  PROVE  t = <<>>
<1>1. Len(s \o t) = Len(s) + Len(t) /\ Len(s) \in Nat /\ Len(t) \in Nat
  BY Joined, SeqFacts
<1>2. Len(t) = 0
  BY <1>1
<1> QED
  BY <1>2, SeqFacts

\* What is told of a column of which an event is shown, and of one of which none is.
LEMMA ShowOne ==
  ASSUME NEW k, NEW c, Shown(k, c), tl[k] # <<>>
  PROVE  Changes(Tests(current[k], tl[k][1].ctx)) = ChangesAt(k, c + 1)
<1>1. c \in Nat /\ tl[k][1] = report[k][c + 1] /\ current[k] = report[k][IF c = 0 THEN 1 ELSE c].ctx
  BY ShownNext DEF Shown
<1>2. CASE c = 0
  <2>1. current[k] = tl[k][1].ctx
    BY <1>1, <1>2
  <2>2. ChangesAt(k, c + 1) = <<>>
    BY <1>2 DEF ChangesAt
  <2> QED
    BY <2>1, <2>2, SameTest
<1>3. CASE c # 0
  <2>1. c + 1 # 1 /\ (c + 1) - 1 = c
    BY <1>1, <1>3
  <2> QED
    BY <1>1, <1>3, <2>1 DEF ChangesAt
<1> QED
  BY <1>2, <1>3

RowOf(next) == [events |-> [k \in next |-> Said(tl[k][1])], printed |-> \E k \in next : Visible(tl[k][1])]

\* What a row adds to those printed, and to those of a column.
LEMMA RowAdded ==
  ASSUME IsSeq(rows), Row, NEW next, next = IterateNode(tl), NEW row, row = RowOf(next)
  PROVE  /\ IsSeq(rows') /\ Len(rows) \in Nat /\ DOMAIN rows = 1..Len(rows)
         /\ DOMAIN rows' = 1..(Len(rows) + 1) /\ rows'[Len(rows) + 1] = row
         /\ \A i \in 1..Len(rows) : rows'[i] = rows[i]
         /\ \A k : /\ IsSeq(ShownRows(k))
                   /\ ShownRows(k)' = IF k \in next THEN Append(ShownRows(k), row) ELSE ShownRows(k)
<1>1. rows' = Append(rows, row)
  BY DEF Row, RowOf
<1>2. DOMAIN row.events = next
  BY DEF RowOf
<1>3. /\ rows' \in Seq(ToSet(rows) \cup {row}) /\ Len(rows) \in Nat /\ Len(rows') = Len(rows) + 1
      /\ rows'[Len(rows) + 1] = row /\ \A i \in 1..Len(rows) : rows'[i] = rows[i]
  BY <1>1 DEF IsSeq
<1>4. DOMAIN rows = 1..Len(rows) /\ DOMAIN rows' = 1..(Len(rows) + 1)
  BY <1>3, SeqFacts
<1>5. ASSUME NEW k
      PROVE  /\ IsSeq(ShownRows(k))
             /\ ShownRows(k)' = IF k \in next THEN Append(ShownRows(k), row) ELSE ShownRows(k)
  <2> DEFINE is == {i \in DOMAIN rows : k \in DOMAIN rows[i].events}
             js == {i \in DOMAIN rows' : k \in DOMAIN rows'[i].events}
  <2>1. \A i \in 1..Len(rows) : i \in is <=> i \in js
    BY <1>3, <1>4
  <2>2. Len(rows) + 1 \in js <=> k \in next
    BY <1>2, <1>3, <1>4
  <2>3. ShownRows(k) = PickAt(rows, is) /\ ShownRows(k)' = PickAt(Append(rows, row), js)
    BY <1>1 DEF ShownRows
  <2> HIDE DEF is, js
  <2> QED
    BY <2>1, <2>2, <2>3, PickOneMore
<1> QED
  BY <1>3, <1>4, <1>5, SomeSeq

LEMMA RowStep == ShowInv /\ Row => ShowInv'
<1> SUFFICES ASSUME ShowInv, Row PROVE ShowInv'
  OBVIOUS
<1> DEFINE next == IterateNode(tl)
           before == [k \in next \cup DOMAIN last |-> IF k \in next THEN current[k] ELSE last[k]]
           separator == TransitionSeparator(before, current')
<1>1. /\ current' = [k \in DOMAIN current |-> IF k \in next THEN tl[k][1].ctx ELSE current[k]]
      /\ announced' = [k \in DOMAIN announced |-> announced[k] \o Changes(separator[k])]
      /\ last' = IF announced' = announced THEN before ELSE current'
      /\ report' = report
      /\ tl' = [k \in DOMAIN tl |-> IF k \in next THEN Tail(tl[k]) ELSE tl[k]]
  BY DEF Row
<1>2. \A k \in next : k \in DOMAIN tl /\ tl[k] # <<>>
  BY DEF IterateNode
<1>3. PICK row : row = RowOf(next)
  OBVIOUS
<1>4. /\ DOMAIN report = DOMAIN tl /\ DOMAIN current = DOMAIN tl /\ DOMAIN announced = DOMAIN tl
      /\ DOMAIN last \subseteq DOMAIN tl /\ IsSeq(rows)
      /\ \A k \in DOMAIN tl : Shown(k, Len(ShownRows(k)))
  BY DEF ShowInv
<1>5. DOMAIN before = next \cup DOMAIN last
  OBVIOUS
<1>6. \A k \in DOMAIN before : before[k] = IF k \in next THEN current[k] ELSE last[k]
  OBVIOUS
<1>7. \A k \in DOMAIN tl : LET changes == Changes(separator[k]) IN
        /\ IsSeq(changes)
        /\ changes = IF k \in DOMAIN before THEN Changes(Tests(before[k], current'[k])) ELSE <<>>
  <2> TAKE k \in DOMAIN tl
  <2>1. PICK now : now = current'
    OBVIOUS
  <2>2. k \in DOMAIN now
    BY <1>1, <1>4, <2>1
  <2> HIDE DEF before
  <2> QED
    BY <2>1, <2>2, SeparatorChanges
<1> HIDE DEF before, separator
<1>8. /\ DOMAIN report' = DOMAIN tl' /\ DOMAIN current' = DOMAIN tl' /\ DOMAIN announced' = DOMAIN tl'
      /\ DOMAIN last' \subseteq DOMAIN tl' /\ DOMAIN tl' = DOMAIN tl
  BY <1>1, <1>2, <1>4, <1>5
<1>9. IsSeq(rows') /\ \A k \in DOMAIN tl : /\ IsSeq(ShownRows(k))
        /\ ShownRows(k)' = IF k \in next THEN Append(ShownRows(k), row) ELSE ShownRows(k)
  BY <1>3, <1>4, RowAdded
<1> HIDE DEF next
<1>10. ASSUME NEW k \in DOMAIN tl PROVE Shown(k, Len(ShownRows(k)))'
  <2>1. PICK c, d : c = Len(ShownRows(k)) /\ d = Len(ShownRows(k))'
    OBVIOUS
  <2>2. Shown(k, c)
    BY <1>4, <2>1
  <2>3. d = IF k \in next THEN c + 1 ELSE c
    <3>1. PICK s, t : s = ShownRows(k) /\ t = ShownRows(k)'
      OBVIOUS
    <3>2. IsSeq(s) /\ t = IF k \in next THEN Append(s, row) ELSE s
      BY <1>9, <3>1
    <3>3. Len(Append(s, row)) = Len(s) + 1
      <4>1. s \in Seq(ToSet(s) \cup {row})
        BY <3>2 DEF IsSeq
      <4> QED
        BY <4>1
    <3> QED
      BY <2>1, <3>1, <3>2, <3>3
  <2>4. PICK x : x = Changes(separator[k])
    OBVIOUS
  <2>5. /\ IsSeq(x) /\ announced'[k] = announced[k] \o x
        /\ x = IF k \in DOMAIN before THEN Changes(Tests(before[k], current'[k])) ELSE <<>>
    BY <1>1, <1>4, <1>7, <2>4
  <2>6. IsSeq(announced[k]) /\ IsSeq(announced'[k])
    BY <2>2, <2>5, Joined DEF Shown
  <2>7. ASSUME k \in DOMAIN last' PROVE Changes(Tests(last'[k], current'[k])) = <<>>
    <3>1. CASE announced' = announced
      <4>1. x = <<>>
        BY <2>5, <2>6, <3>1, NothingJoined
      <4> QED
        BY <1>1, <2>5, <2>7, <3>1, <4>1
    <3>2. CASE announced' # announced
      <4>1. last' = current'
        BY <1>1, <3>2
      <4>2. PICK ctx : ctx = current'[k]
        OBVIOUS
      <4> QED
        BY <4>1, <4>2, SameTest
    <3> QED
      BY <3>1, <3>2
  <2>8. /\ tl'[k] = SubSeq(report[k], d + 1, Len(report[k])) /\ d \in 0..Len(report[k])
        /\ current'[k] = report[k][IF d = 0 THEN 1 ELSE d].ctx
        /\ announced'[k] = FlattenSeq(ChangesTo(k, d))
    <3>1. CASE k \in next
      <4>1. /\ c \in Nat /\ c + 1 <= Len(report[k]) /\ tl[k][1] = report[k][c + 1]
            /\ Tail(tl[k]) = SubSeq(report[k], (c + 1) + 1, Len(report[k]))
        BY <1>2, <2>2, <3>1, ShownNext
      <4>2. d = c + 1 /\ tl'[k] = Tail(tl[k]) /\ current'[k] = tl[k][1].ctx
        BY <1>1, <1>4, <2>3, <3>1
      <4>3. x = ChangesAt(k, c + 1)
        BY <1>2, <1>5, <1>6, <2>2, <2>5, <3>1, <4>2, ShowOne
      <4>4. FlattenSeq(ChangesTo(k, c + 1)) = FlattenSeq(ChangesTo(k, c)) \o x
        BY <2>5, <4>1, <4>3, ChangesMore, FlattenedMore
      <4>5. announced[k] = FlattenSeq(ChangesTo(k, c))
        BY <2>2 DEF Shown
      <4>6. d # 0 /\ d \in 0..Len(report[k])
        <5>1. Len(report[k]) \in Nat
          BY <2>2, SeqFacts DEF Shown, Column
        <5> QED
          BY <4>1, <4>2, <5>1
      <4> QED
        BY <2>5, <4>1, <4>2, <4>4, <4>5, <4>6
    <3>2. CASE k \notin next
      <4>1. d = c /\ tl'[k] = tl[k] /\ current'[k] = current[k]
        BY <1>1, <1>4, <2>3, <3>2
      <4>2. x = <<>>
        BY <1>5, <1>6, <2>2, <2>5, <3>2, <4>1 DEF Shown
      <4>3. announced[k] \o <<>> = announced[k]
        BY <2>6 DEF IsSeq
      <4> QED
        BY <2>2, <2>5, <4>1, <4>2, <4>3 DEF Shown
    <3> QED
      BY <3>1, <3>2
  <2>9. Column(report[k])
    BY <2>2 DEF Shown
  <2>10. ChangesTo(k, d)' = ChangesTo(k, d)
    BY <1>1 DEF ChangesTo, ChangesAt
  <2>11. Shown(k, d)'
    BY <1>1, <2>6, <2>7, <2>8, <2>9, <2>10 DEF Shown
  <2> QED
    BY <2>1, <2>11
<1> QED
  BY <1>8, <1>9, <1>10 DEF ShowInv
-----------------------------------------------------------------------------
(* From the files to the columns shown.                                     *)

Unshown == rows = <<>> /\ last = EmptyMap /\ current = EmptyMap /\ announced = EmptyMap
ListInv ==
  /\ phase \in {"open", "read", "merge", "show", "done", "failed"}
  /\ phase \in {"open", "read", "merge", "failed"} => Unshown /\ \A k \in DOMAIN tl : Column(tl[k])
  /\ phase \in {"open", "failed"} => pos = 0
  /\ phase \in {"show", "done"} => todo = <<>>
  /\ phase = "show" => opts.command = "list"
  /\ phase \in {"show", "done"} => IF opts.command = "list" THEN ShowInv ELSE Unshown

\* The file just read is a column of its own or is merged with one.
LEMMA MergedIs ==
  ASSUME lt # <<>> => Column(lt), \A k \in DOMAIN tl : Column(tl[k]), NEW t \in Merged
  PROVE  \A k \in DOMAIN t : Column(t[k])
<1>1. \A k, s : Column(s) => \A j \in DOMAIN Put(tl, k, s) : Column(Put(tl, k, s)[j])
  BY DEF Put
<1>2. CASE lt = <<>>
  BY <1>2 DEF Merged
<1>3. CASE lt # <<>>
  <2>1. \E k, s : t = Put(tl, k, s) /\ Column(s)
    <3>1. \A k \in DOMAIN tl : Column(MergeTimeline(tl[k], lt))
      BY <1>3, MergeIs
    <3>2. \A key : \A fits \in SUBSET DOMAIN tl : \A u \in MergeWithAny(tl, key, lt, fits) :
            \E k, s : u = Put(tl, k, s) /\ Column(s)
      BY <1>3, <3>1 DEF MergeWithAny
    <3>3. \/ t \in {Put(tl, Path, lt)} \/ t \in MergeByPodnameElsePath(tl, Path, lt)
          \/ t \in MergeByDirectory(tl, Path, lt) \/ t \in MergeByIdentifier(tl, lt, m.db)
      BY <1>3 DEF Merged
    <3>4. CASE t \in {Put(tl, Path, lt)}
      BY <1>3, <3>4
    <3>5. CASE t \in MergeByPodnameElsePath(tl, Path, lt)
      BY <1>3, <3>2, <3>5 DEF MergeByPodnameElsePath
    <3>6. CASE t \in MergeByDirectory(tl, Path, lt)
      BY <3>2, <3>6 DEF MergeByDirectory
    <3>7. CASE t \in MergeByIdentifier(tl, lt, m.db)
      <4>1. PICK node : t = Put(tl, node, IF node \in DOMAIN tl THEN MergeTimeline(tl[node], lt) ELSE lt)
        BY <3>7 DEF MergeByIdentifier
      <4> QED
        BY <1>3, <3>1, <4>1
    <3> QED
      BY <3>3, <3>4, <3>5, <3>6, <3>7
  <2> QED
    BY <1>1, <2>1
<1> QED
  BY <1>2, <1>3

LEMMA NothingPicked == ASSUME NEW is PROVE PickAt(<<>>, is) = <<>>
<1>1. <<>> \in Seq({}) /\ Len(<<>>) = 0
  OBVIOUS
<1>2. PICK f : Picks(<<>>, is, f) /\ PickAt(<<>>, is) = f[Len(<<>>)]
  BY <1>1, PickedInTurn
<1> QED
  BY <1>1, <1>2 DEF Picks

LEMMA ListStart == Init => ListInv
<1> SUFFICES ASSUME Init PROVE ListInv
  OBVIOUS
<1>1. DOMAIN EmptyMap = {}
  BY DEF EmptyMap
<1> QED
  BY <1>1 DEF Init, ListInv, Unshown

LEMMA HeaderStep == ListInv /\ ListHeader => ListInv'
<1> SUFFICES ASSUME ListInv, ListHeader PROVE ListInv'
  OBVIOUS
<1>1. PICK keys : tl' = [k \in keys |-> tl[k]] /\ keys \subseteq DOMAIN tl
  BY DEF ListHeader, RemoveEmptyColumns
<1>2. /\ phase = "open" /\ todo = <<>> /\ opts.command = "list" /\ phase' = "show"
      /\ current' = [k \in DOMAIN tl' |-> tl'[k][1].ctx] /\ announced' = [k \in DOMAIN tl' |-> <<>>]
      /\ report' = tl' /\ UNCHANGED <<todo, opts, last, rows>>
  BY DEF ListHeader, Command
<1>3. rows = <<>> /\ last = EmptyMap /\ \A k \in DOMAIN tl : Column(tl[k])
  BY <1>2 DEF ListInv, Unshown
<1>4. DOMAIN last' = {}
  BY <1>2, <1>3 DEF EmptyMap
<1>5. \A k : ShownRows(k)' = <<>>
  BY <1>2, <1>3, NothingPicked DEF ShownRows
<1>6. ASSUME NEW k \in DOMAIN tl' PROVE Shown(k, 0)'
  <2>1. Column(tl'[k])
    BY <1>1, <1>3
  <2>2. PICK s : s = tl'[k]
    OBVIOUS
  <2>3. Len(s) \in Nat /\ SubSeq(s, 0 + 1, Len(s)) = s
    BY <2>1, <2>2 DEF Column, IsSeq
  <2>4. ChangesTo(k, 0)' = <<>>
    BY DEF ChangesTo
  <2>5. FlattenSeq(<<>>) = <<>> /\ IsSeq(<<>>)
    BY DEF FlattenSeq, IsSeq
  <2>6. k \notin DOMAIN last'
    BY <1>4
  <2>7. current'[k] = s[1].ctx /\ announced'[k] = <<>> /\ report'[k] = s
    BY <1>2, <2>2
  <2> QED
    BY <2>1, <2>2, <2>3, <2>4, <2>5, <2>6, <2>7 DEF Shown
<1>7. IsSeq(<<>>) /\ Len(<<>>) = 0
  BY DEF IsSeq
<1>8. ASSUME NEW k \in DOMAIN tl' PROVE Shown(k, Len(ShownRows(k)))'
  <2>1. PICK d : d = Len(ShownRows(k))'
    OBVIOUS
  <2>2. d = 0
    BY <1>5, <1>7, <2>1
  <2>3. Shown(k, d)'
    BY <1>6, <2>2
  <2> QED
    BY <2>1, <2>3
<1>9. ShowInv'
  BY <1>2, <1>3, <1>4, <1>7, <1>8 DEF ShowInv
<1> QED
  BY <1>2, <1>9 DEF ListInv

LEMMA ListStep == ReadInv /\ ListInv /\ [Next]_vars => ListInv'
<1> SUFFICES ASSUME ReadInv, ListInv, [Next]_vars PROVE ListInv'
  OBVIOUS
<1> USE DEF printed, reading
<1>1. CASE BadPath \/ NothingFound
  <2>1. phase = "open" /\ phase' = "failed" /\ UNCHANGED <<rows, last, current, announced, tl, pos>>
    BY <1>1 DEF BadPath, NothingFound, Fail
  <2> QED
    BY <2>1 DEF ListInv, Unshown
<1>2. CASE Open \/ ReadLine \/ EndOfFile
  <2>1. /\ phase \in {"open", "read"} /\ phase' \in {"read", "merge"}
        /\ UNCHANGED <<rows, last, current, announced, tl>>
    BY <1>2 DEF Open, ReadLine, EndOfFile
  <2> QED
    BY <2>1 DEF ListInv, Unshown
<1>3. CASE Merge
  <2>1. phase = "merge" /\ phase' = "open" /\ pos' = 0 /\ UNCHANGED <<rows, last, current, announced>> /\ tl' \in Merged
    BY <1>3 DEF Merge
  <2>2. lt # <<>> => Column(lt)
    BY <2>1 DEF ReadInv, FileRead, Told, FoundInfos, Column, IsSeq
  <2>3. \A k \in DOMAIN tl : Column(tl[k])
    BY <2>1 DEF ListInv
  <2>4. PICK t : t = tl'
    OBVIOUS
  <2>5. \A k \in DOMAIN t : Column(t[k])
    BY <2>1, <2>2, <2>3, <2>4, MergedIs
  <2> QED
    BY <2>1, <2>4, <2>5 DEF ListInv, Unshown
<1>4. CASE Conflicts \/ Ctx
  <2>1. /\ phase = "open" /\ phase' = "done" /\ opts.command # "list" /\ todo = <<>>
        /\ UNCHANGED <<rows, last, current, announced, opts, todo>>
    BY <1>4 DEF Conflicts, Ctx, Command
  <2> QED
    BY <2>1 DEF ListInv, Unshown
<1>5. CASE ListHeader
  BY <1>5, HeaderStep
<1>6. CASE Row
  <2>1. phase = "show" /\ UNCHANGED <<phase, todo, opts>>
    BY <1>6 DEF Row
  <2>2. ShowInv'
    BY <1>6, <2>1, RowStep DEF ListInv
  <2> QED
    BY <2>1, <2>2 DEF ListInv
<1>7. CASE Footer
  <2>1. /\ phase = "show" /\ phase' = "done"
        /\ UNCHANGED <<todo, opts, tl, report, current, announced, last, rows>>
    BY <1>7 DEF Footer
  <2>2. ShowInv'
    BY <2>1 DEF ListInv, ShowInv, Shown, ShownRows, ChangesTo, ChangesAt
  <2> QED
    BY <2>1, <2>2 DEF ListInv
<1>8. CASE UNCHANGED vars
  BY <1>8 DEF vars, ListInv, Unshown, ShowInv, Shown, ShownRows, ChangesTo, ChangesAt
<1> QED
  BY <1>1, <1>2, <1>3, <1>4, <1>5, <1>6, <1>7, <1>8 DEF Next, Reading, Showing

LEMMA ListInvHolds == Spec => [](ReadInv /\ ListInv)
BY ReadStart, ReadStep, ListStart, ListStep, PTL DEF Spec

\* For every log and command line: no column is without events until they are
\* shown, the last row's contexts are of columns, and pos is a line grep printed.
THEOREM TypeCorrect == Spec => []TypeOK
<1>1. ASSUME ReadInv, ListInv PROVE TypeOK
  <2>1. phase \in {"open", "read", "merge", "failed"} => \A k \in DOMAIN tl : tl[k] # <<>>
    BY <1>1 DEF ListInv, Column
  <2>2. DOMAIN last \subseteq DOMAIN current
    BY <1>1 DEF ListInv, ShowInv, Unshown, EmptyMap
  <2>3. todo # <<>> => pos \in {0} \cup Scanned(Path)
    BY <1>1 DEF ListInv, ReadInv, FileRead
  <2> QED
    BY <1>1, <2>1, <2>2, <2>3 DEF TypeOK, ListInv
<1> QED
  BY <1>1, ListInvHolds, PTL

\* For any logs and columns, a transition of a column is announced once, where it
\* is: neither aligning the columns nor a row of another column loses or repeats one.
THEOREM TransitionsOnceTheorem == Spec => []TransitionsOnce
<1>1. ASSUME ListInv PROVE TransitionsOnce
  <2> SUFFICES ASSUME phase \in {"show", "done"}, NEW k \in DOMAIN announced
               PROVE  LET changes(i) == IF i = 1 THEN <<>> ELSE Changes(Tests(report[k][i - 1].ctx, report[k][i].ctx))
                      IN announced[k] = FlattenSeq([i \in 1..Len(ShownOf(k)) |-> changes(i)])
    BY DEF TransitionsOnce
  <2>1. ShowInv
    BY <1>1 DEF ListInv, Unshown, EmptyMap
  <2>2. PICK s : s = ShownRows(k)
    OBVIOUS
  <2>3. Shown(k, Len(s)) /\ IsSeq(rows)
    BY <2>1, <2>2 DEF ShowInv
  <2>4. IsSeq(s)
    BY <2>2, <2>3, PickOneMore DEF ShownRows
  <2>5. ShownOf(k) = [i \in DOMAIN s |-> s[i].events[k]]
    BY <2>2 DEF ShownOf, ShownRows
  <2>6. Len(ShownOf(k)) = Len(s)
    <3>1. DOMAIN s = 1..Len(s) /\ Len(s) \in Nat
      BY <2>4, SeqFacts
    <3> QED
      BY <2>5, <3>1
  <2>7. announced[k] = FlattenSeq(ChangesTo(k, Len(s)))
    BY <2>3 DEF Shown
  <2>8. ChangesTo(k, Len(s)) = [i \in 1..Len(s) |-> IF i = 1 THEN <<>> ELSE Changes(Tests(report[k][i - 1].ctx, report[k][i].ctx))]
    BY DEF ChangesTo, ChangesAt
  <2> QED
    BY <2>6, <2>7, <2>8
<1> QED
  BY <1>1, ListInvHolds, PTL
-----------------------------------------------------------------------------
(* The handlers keep the path and the type of the file.                     *)

\* A context, and a context with maps, of a file with the path and type of ft.
Fine(c, ft) == /\ {"path", "ftype", "ssts"} \subseteq DOMAIN c
               /\ c.path = ft.path /\ c.ftype = ft.type /\ IsFiniteSet(DOMAIN c.ssts)
FineM(x, ft) == "ctx" \in DOMAIN x /\ Fine(x.ctx, ft)

LEMMA FieldSet ==
  ASSUME NEW c, NEW ft, Fine(c, ft), NEW v
  PROVE  /\ Fine([c EXCEPT !.names = v], ft) /\ Fine([c EXCEPT !.ips = v], ft)
         /\ Fine([c EXCEPT !.hashes = v], ft) /\ Fine([c EXCEPT !.states = v], ft)
         /\ Fine([c EXCEPT !.version = v], ft) /\ Fine([c EXCEPT !.pod = v], ft)
         /\ Fine([c EXCEPT !.myIdx = v], ft) /\ Fine([c EXCEPT !.members = v], ft)
         /\ Fine([c EXCEPT !.desynced = v], ft) /\ Fine([c EXCEPT !.conflicts = v], ft)
BY DEF Fine

LEMMA TransfersSet ==
  ASSUME NEW c, NEW ft, Fine(c, ft), NEW ssts, IsFiniteSet(DOMAIN ssts)
  PROVE  Fine([c EXCEPT !.ssts = ssts], ft)
BY DEF Fine

LEMMA OnCtxFine ==
  ASSUME NEW x, NEW ft, FineM(x, ft), NEW c, Fine(c, ft), NEW r \in OnCtx(x, c)
  PROVE  FineM(r, ft)
BY DEF FineM, OnCtx

LEMMA DBFine == ASSUME NEW x, NEW ft, FineM(x, ft), NEW d PROVE FineM([x EXCEPT !.db = d], ft)
BY DEF FineM

LEMMA StateFine == ASSUME NEW c, NEW ft, Fine(c, ft), NEW s PROVE Fine(SetState(c, s), ft)
<1>1. [c EXCEPT !.states[Slot(c)] = s] = [c EXCEPT !.states = [c.states EXCEPT ![Slot(c)] = s]]
  OBVIOUS
<1> QED
  BY <1>1, FieldSet DEF SetState

LEMMA OwnFine ==
  ASSUME NEW x, NEW ft, FineM(x, ft), NEW v, NEW t
  PROVE  FineM(AddOwnName(x, v, t), ft) /\ FineM(AddOwnIP(x, v, t), ft) /\ FineM(AddOwnHash(x, v, t), ft)
<1>1. \A c, d : Fine(c, ft) => FineM([ctx |-> c, db |-> d], ft)
  BY DEF FineM
<1>2. Fine(x.ctx, ft)
  BY DEF FineM
<1>3. FineM(AddOwnName(x, v, t), ft)
  BY <1>1, <1>2, FieldSet DEF AddOwnName
<1>4. FineM(AddOwnIP(x, v, t), ft)
  BY <1>1, <1>2, FieldSet DEF AddOwnIP
<1>5. FineM(AddOwnHash(x, v, t), ft)
  BY <1>1, <1>2, FieldSet DEF AddOwnHash
<1> QED
  BY <1>3, <1>4, <1>5

LEMMA MemberFine ==
  ASSUME NEW x, NEW ft, FineM(x, ft), NEW a, NEW t
  PROVE  FineM(MemberAssociation(x, a, t), ft)
<1> DEFINE told == [x EXCEPT !.db = AddHashToNodeName(@, a.hash, a.name, t)]
<1>1. FineM(told, ft)
  BY DBFine
<1>2. MemberAssociation(x, a, t) \in {x, told, AddOwnName(AddOwnHash(told, a.hash, t), Short[a.name], t)}
  BY DEF MemberAssociation
<1> HIDE DEF told
<1> QED
  BY <1>1, <1>2, OwnFine

LEMMA OwnNamesFine ==
  ASSUME NEW x, NEW ft, FineM(x, ft), NEW ns, IsSeq(ns), NEW t
  PROVE  FineM(AddOwnNames(x, ns, t), ft)
<1> DEFINE N == Len(ns)
           F(g, k) == [i \in 0..k |-> IF i = 0 THEN x ELSE AddOwnName(g[i - 1], ns[i], t)]
           c == CHOOSE g : g = F(g, N)
<1>0. N \in Nat
  BY DEF IsSeq
<1>1. AddOwnNames(x, ns, t) = c[N]
  BY DEF AddOwnNames
<1> HIDE DEF N
<1>2. \A k \in Nat : \E g : g = F(g, k)
  <2> DEFINE T == {k \in Nat : ~\E g : g = F(g, k)}
  <2> SUFFICES ASSUME T # {} PROVE FALSE
    OBVIOUS
  <2>1. PICK k \in T : \A j \in T : k <= j
    BY LeastNumber
  <2>2. k # 0
    <3> DEFINE g == [i \in 0..0 |-> x]
    <3>1. g = F(g, 0)
      OBVIOUS
    <3> QED
      BY <3>1
  <2>3. PICK f : f = F(f, k - 1)
    <3>1. k - 1 \in Nat /\ ~(k <= k - 1)
      BY <2>1, <2>2
    <3>2. k - 1 \notin T
      BY <2>1, <3>1
    <3> QED
      BY <3>1, <3>2
  <2> DEFINE end == AddOwnName(f[k - 1], ns[k], t)
             g == [i \in 0..k |-> IF i = k THEN end ELSE f[i]]
  <2>4. g = F(g, k)
    <3>1. k \in Nat /\ k - 1 \in Nat
      BY <2>1, <2>2
    <3>2. ASSUME NEW i \in 0..k
          PROVE  g[i] = IF i = 0 THEN x ELSE AddOwnName(g[i - 1], ns[i], t)
      <4>1. CASE i = k
        <5>1. g[k - 1] = f[k - 1]
          BY <3>1
        <5> QED
          BY <2>2, <3>1, <4>1, <5>1
      <4>2. CASE i # k
        <5>1. i \in 0..(k - 1) /\ g[i] = f[i]
          BY <3>1, <4>2
        <5>2. f[i] = IF i = 0 THEN x ELSE AddOwnName(f[i - 1], ns[i], t)
          BY <2>3, <5>1
        <5>3. i # 0 => g[i - 1] = f[i - 1]
          BY <3>1, <4>2
        <5> QED
          BY <5>1, <5>2, <5>3
      <4> QED
        BY <4>1, <4>2
    <3> QED
      BY <3>2
  <2> QED
    BY <2>4
<1>3. c = F(c, N)
  BY <1>0, <1>2
<1> HIDE DEF c
<1>4. \A i \in 0..N : c[i] = IF i = 0 THEN x ELSE AddOwnName(c[i - 1], ns[i], t)
  BY <1>3
<1>5. \A i \in 0..N : FineM(c[i], ft)
  <2> DEFINE T == {i \in 0..N : ~FineM(c[i], ft)}
  <2> SUFFICES ASSUME T # {} PROVE FALSE
    OBVIOUS
  <2>0. T \in SUBSET Nat
    OBVIOUS
  <2>1. PICK i \in T : \A j \in T : i <= j
    <3> HIDE DEF T
    <3> QED
      BY <2>0, LeastNumber
  <2>2. c[0] = x /\ FineM(x, ft)
    BY <1>0, <1>4
  <2>3. i # 0
    BY <2>2
  <2>4. i \in 1..N /\ i - 1 \in 0..N /\ ~(i <= i - 1)
    BY <1>0, <2>3
  <2>5. i - 1 \notin T
    <3> HIDE DEF T
    <3> QED
      BY <2>1, <2>4
  <2>6. FineM(c[i - 1], ft)
    BY <2>4, <2>5
  <2>7. c[i] = AddOwnName(c[i - 1], ns[i], t)
    BY <1>4, <2>3
  <2> QED
    BY <2>6, <2>7, OwnFine, MemberFine
<1> QED
  BY <1>0, <1>1, <1>5

LEMMA MembersFine ==
  ASSUME NEW x, NEW ft, FineM(x, ft), NEW e, IsSeq(e.assocs)
  PROVE  FineM(OperatorMemberAssociations(x, e), ft)
<1> DEFINE N == Len(e.assocs)
           F(g, k) == [i \in 0..k |-> IF i = 0 THEN [x EXCEPT !.ctx.myIdx = e.idx] ELSE MemberAssociation(g[i - 1], e.assocs[i], e.ts)]
           c == CHOOSE g : g = F(g, N)
<1>0. N \in Nat
  BY DEF IsSeq
<1>1. OperatorMemberAssociations(x, e) = c[N]
  BY DEF OperatorMemberAssociations
<1> HIDE DEF N
<1>2. \A k \in Nat : \E g : g = F(g, k)
  <2> DEFINE T == {k \in Nat : ~\E g : g = F(g, k)}
  <2> SUFFICES ASSUME T # {} PROVE FALSE
    OBVIOUS
  <2>1. PICK k \in T : \A j \in T : k <= j
    BY LeastNumber
  <2>2. k # 0
    <3> DEFINE g == [i \in 0..0 |-> [x EXCEPT !.ctx.myIdx = e.idx]]
    <3>1. g = F(g, 0)
      OBVIOUS
    <3> QED
      BY <3>1
  <2>3. PICK f : f = F(f, k - 1)
    <3>1. k - 1 \in Nat /\ ~(k <= k - 1)
      BY <2>1, <2>2
    <3>2. k - 1 \notin T
      BY <2>1, <3>1
    <3> QED
      BY <3>1, <3>2
  <2> DEFINE end == MemberAssociation(f[k - 1], e.assocs[k], e.ts)
             g == [i \in 0..k |-> IF i = k THEN end ELSE f[i]]
  <2>4. g = F(g, k)
    <3>1. k \in Nat /\ k - 1 \in Nat
      BY <2>1, <2>2
    <3>2. ASSUME NEW i \in 0..k
          PROVE  g[i] = IF i = 0 THEN [x EXCEPT !.ctx.myIdx = e.idx] ELSE MemberAssociation(g[i - 1], e.assocs[i], e.ts)
      <4>1. CASE i = k
        <5>1. g[k - 1] = f[k - 1]
          BY <3>1
        <5> QED
          BY <2>2, <3>1, <4>1, <5>1
      <4>2. CASE i # k
        <5>1. i \in 0..(k - 1) /\ g[i] = f[i]
          BY <3>1, <4>2
        <5>2. f[i] = IF i = 0 THEN [x EXCEPT !.ctx.myIdx = e.idx] ELSE MemberAssociation(f[i - 1], e.assocs[i], e.ts)
          BY <2>3, <5>1
        <5>3. i # 0 => g[i - 1] = f[i - 1]
          BY <3>1, <4>2
        <5> QED
          BY <5>1, <5>2, <5>3
      <4> QED
        BY <4>1, <4>2
    <3> QED
      BY <3>2
  <2> QED
    BY <2>4
<1>3. c = F(c, N)
  BY <1>0, <1>2
<1> HIDE DEF c
<1>4. \A i \in 0..N : c[i] = IF i = 0 THEN [x EXCEPT !.ctx.myIdx = e.idx] ELSE MemberAssociation(c[i - 1], e.assocs[i], e.ts)
  BY <1>3
<1>5. \A i \in 0..N : FineM(c[i], ft)
  <2> DEFINE T == {i \in 0..N : ~FineM(c[i], ft)}
  <2> SUFFICES ASSUME T # {} PROVE FALSE
    OBVIOUS
  <2>0. T \in SUBSET Nat
    OBVIOUS
  <2>1. PICK i \in T : \A j \in T : i <= j
    <3> HIDE DEF T
    <3> QED
      BY <2>0, LeastNumber
  <2>2. c[0] = [x EXCEPT !.ctx.myIdx = e.idx] /\ FineM([x EXCEPT !.ctx.myIdx = e.idx], ft)
    <3>1. Fine([x.ctx EXCEPT !.myIdx = e.idx], ft)
      BY FieldSet DEF FineM
    <3>2. [x EXCEPT !.ctx.myIdx = e.idx] = [x EXCEPT !.ctx = [x.ctx EXCEPT !.myIdx = e.idx]]
      OBVIOUS
    <3>3. FineM([x EXCEPT !.ctx.myIdx = e.idx], ft)
      BY <3>1, <3>2 DEF FineM
    <3> QED
      BY <1>0, <1>4, <3>3
  <2>3. i # 0
    BY <2>2
  <2>4. i \in 1..N /\ i - 1 \in 0..N /\ ~(i <= i - 1)
    BY <1>0, <2>3
  <2>5. i - 1 \notin T
    <3> HIDE DEF T
    <3> QED
      BY <2>1, <2>4
  <2>6. FineM(c[i - 1], ft)
    BY <2>4, <2>5
  <2>7. c[i] = MemberAssociation(c[i - 1], e.assocs[i], e.ts)
    BY <1>4, <2>3
  <2> QED
    BY <2>6, <2>7, OwnFine, MemberFine
<1> QED
  BY <1>0, <1>1, <1>5

LEMMA ConfirmFine ==
  ASSUME NEW x, NEW ft, FineM(x, ft), NEW t, NEW r \in ConfirmSSTMetadata(x, t)
  PROVE  FineM(r, ft)
<1> DEFINE here == {k \in DOMAIN x.ctx.ssts : MustHaveHappenedLocally(x.ctx.ssts[k], t)}
           own(k) == IF State(x.ctx) = "DONOR" THEN k ELSE x.ctx.ssts[k].joiner
<1>1. CASE r = x
  BY <1>1
<1>2. ASSUME NEW order \in SetToSeqs(here), r = AddOwnNames(x, [i \in DOMAIN order |-> own(order[i])], t)
      PROVE  FineM(r, ft)
  <2>1. IsFiniteSet(here)
    BY FS_Subset DEF FineM, Fine
  <2> DEFINE ns == [i \in DOMAIN order |-> own(order[i])]
  <2>2. order \in Seq(here)
    <3> HIDE DEF here
    <3> QED
      BY <2>1, AllListed
  <2>3. Len(order) \in Nat /\ DOMAIN order = 1..Len(order)
    BY <2>2
  <2>4. DOMAIN ns = 1..Len(order) /\ ns = [i \in 1..Len(order) |-> ns[i]]
    BY <2>3
  <2> HIDE DEF ns
  <2>5. IsSeq(ns)
    BY <2>3, <2>4, SeqOfItsOwn DEF IsSeq
  <2> QED
    BY <1>2, <2>5, OwnNamesFine DEF ns
<1> QED
  BY <1>1, <1>2 DEF ConfirmSSTMetadata

LEMMA ShiftFine ==
  ASSUME NEW x, NEW ft, FineM(x, ft), NEW e, NEW r \in Shift(x, e)
  PROVE  FineM(r, ft)
<1> DEFINE s == [x EXCEPT !.ctx = SetState(x.ctx, e.state2)]
<1>1. FineM(s, ft)
  <2>1. Fine(SetState(x.ctx, e.state2), ft)
    BY StateFine DEF FineM
  <2> QED
    BY <2>1 DEF FineM
<1>2. r = s \/ r \in ConfirmSSTMetadata(s, e.ts)
  BY DEF Shift
<1> HIDE DEF s
<1> QED
  BY <1>1, <1>2, ConfirmFine

LEMMA StatesFine ==
  ASSUME NEW c, NEW ft, Fine(c, ft), NEW e
  PROVE  Fine(Event(c, e), ft) /\ Fine(NewComponent(c, e), ft)
<1>1. \A s : Fine(SetState(c, s), ft)
  BY StateFine
<1>2. Fine(Event(c, e), ft)
  <2>1. PICK s : s = SetState(c, EventState[e.re])
    OBVIOUS
  <2>2. Event(c, e) \in {s, [s EXCEPT !.version = e.version]}
    BY <2>1 DEF Event
  <2>3. Fine(s, ft)
    BY <1>1, <2>1
  <2>4. Fine([s EXCEPT !.version = e.version], ft)
    BY <2>3, FieldSet
  <2> QED
    BY <2>2, <2>3, <2>4
<1>3. PICK d : d = [c EXCEPT !.members = e.members]
  OBVIOUS
<1>4. Fine(d, ft)
  BY <1>3, FieldSet
<1>5. NewComponent(c, e) \in {d, SetState(d, "NON-PRIMARY"), SetState(d, "PRIMARY")}
  BY <1>3 DEF NewComponent
<1> QED
  BY <1>2, <1>4, <1>5, StateFine

LEMMA TransfersFine ==
  ASSUME NEW c, NEW ft, Fine(c, ft), NEW e
  PROVE  /\ Fine(SSTSelected(c, e), ft) /\ Fine(SSTOver(c, e), ft)
         /\ \A s \in SSTProgress(c, e) : Fine(s, ft)
<1>0. IsFiniteSet(DOMAIN c.ssts)
  BY DEF Fine
<1>1. Fine(SSTSelected(c, e), ft)
  <2>1. PICK v : SSTSelected(c, e) = [c EXCEPT !.ssts = Put(c.ssts, Short[e.donor], v)]
    BY DEF SSTSelected
  <2>2. IsFiniteSet(DOMAIN Put(c.ssts, Short[e.donor], v))
    BY <1>0, FS_AddElement DEF Put
  <2> QED
    BY <2>1, <2>2, TransfersSet
<1>2. Fine(SSTOver(c, e), ft)
  <2>1. SSTOver(c, e) = [c EXCEPT !.ssts = Drop(c.ssts, Short[e.donor])]
    BY DEF SSTOver
  <2>2. IsFiniteSet(DOMAIN Drop(c.ssts, Short[e.donor]))
    BY <1>0, FS_Subset DEF Drop
  <2> QED
    BY <2>1, <2>2, TransfersSet
<1>3. ASSUME NEW d, Fine(d, ft), NEW type, NEW s \in SetSSTTypeMaybe(d, type) PROVE Fine(s, ft)
  <2>1. CASE s = d
    BY <1>3, <2>1
  <2>2. ASSUME NEW k, s = [d EXCEPT !.ssts[k].type = type] PROVE Fine(s, ft)
    <3>1. PICK f : f = [d.ssts EXCEPT ![k].type = type]
      OBVIOUS
    <3>2. s = [d EXCEPT !.ssts = f]
      BY <2>2, <3>1
    <3>3. IsFiniteSet(DOMAIN f)
      BY <1>3, <3>1 DEF Fine
    <3> QED
      BY <1>3, <3>2, <3>3, TransfersSet
  <2> QED
    BY <1>3, <2>1, <2>2 DEF SetSSTTypeMaybe
<1>4. ASSUME NEW s \in SSTProgress(c, e) PROVE Fine(s, ft)
  <2>1. PICK d, type : d = SetState(c, SSTStage[e.re].state) /\ (s = d \/ s \in SetSSTTypeMaybe(d, type))
    BY <1>4 DEF SSTProgress
  <2> QED
    BY <1>3, <2>1, StateFine
<1> QED
  BY <1>1, <1>2, <1>4

LEMMA VotesFine ==
  ASSUME NEW c, NEW ft, Fine(c, ft), NEW e
  PROVE  /\ Fine(VoteInit(c, e), ft) /\ Fine(VoteRespond(c, e), ft) /\ Fine(InconsistentWithGroup(c, e), ft)
         /\ Fine(VoteWinner(c, e), ft) /\ Fine(VoteRecovery(c, e), ft) /\ Fine(VoteRecomputed(c, e), ft)
<1>1. \A i, node, md5 : Fine(Vote(c, i, node, md5), ft)
  BY DEF Vote, Fine
<1>2. \A i, w : Fine([c EXCEPT !.conflicts[i].winner = w], ft)
  BY DEF Fine
<1>3. Fine(VoteInit(c, e), ft)
  BY <1>1, FieldSet DEF VoteInit
<1>4. Fine(VoteRespond(c, e), ft)
  BY <1>1 DEF VoteRespond
<1>5. Fine(InconsistentWithGroup(c, e), ft)
  BY <1>1 DEF InconsistentWithGroup
<1>6. Fine(VoteWinner(c, e), ft)
  BY <1>2 DEF VoteWinner
<1>7. Fine(VoteRecovery(c, e), ft)
  BY <1>1 DEF VoteRecovery
<1>8. Fine(VoteRecomputed(c, e), ft)
  BY FieldSet DEF VoteRecomputed
<1> QED
  BY <1>3, <1>4, <1>5, <1>6, <1>7, <1>8

\* What a handler may do.
Does(x, e, rs) ==
  LET c == x.ctx IN
  \/ rs \in {{AddOwnIP(x, e.ip, e.ts)}, {AddOwnHash(x, e.hash, e.ts)}, {AddOwnName(x, e.name, e.ts)},
             {MemberAssociation(x, e, e.ts)}}
  \/ e.re = "RegexOperatorMemberAssociations" /\ rs = {OperatorMemberAssociations(x, e)}
  \/ rs \in {OnCtx(x, [c EXCEPT !.myIdx = e.idx]), OnCtx(x, [c EXCEPT !.members = e.members]),
             OnCtx(x, [c EXCEPT !.pod = e.pod]), OnCtx(x, [c EXCEPT !.desynced = (e.re = "RegexDesync")])}
  \/ rs = Shift(x, e)
  \/ rs \in {OnCtx(x, Event(c, e)), OnCtx(x, SetState(c, ViewState[e.re])), OnCtx(x, NewComponent(c, e)),
             OnCtx(x, SSTSelected(c, e)), OnCtx(x, SSTOver(c, e))}
  \/ rs \in {{NodeEstablished(x, e)}, {NodeSeen(x, e)}, {NodeChangedIdentity(x, e)}, {x}}
  \/ rs = {[x EXCEPT !.ctx = s] : s \in SSTProgress(c, e)}
  \/ rs \in {OnCtx(x, VoteInit(c, e)), OnCtx(x, VoteRespond(c, e)), OnCtx(x, InconsistentWithGroup(c, e)),
             OnCtx(x, VoteWinner(c, e)), OnCtx(x, VoteRecovery(c, e)), OnCtx(x, VoteRecomputed(c, e))}

LEMMA HandlerDoes == ASSUME NEW x, NEW e PROVE Does(x, e, Handler(x, e))
<1> DEFINE c == x.ctx
           a1 == {AddOwnIP(x, e.ip, e.ts)}
           a2 == {AddOwnHash(x, e.hash, e.ts)}
           a3 == OnCtx(x, [c EXCEPT !.myIdx = e.idx])
           a4 == OnCtx(x, [c EXCEPT !.members = e.members])
           a5 == {MemberAssociation(x, e, e.ts)}
           a6 == {AddOwnName(x, e.name, e.ts)}
           a7 == OnCtx(x, [c EXCEPT !.pod = e.pod])
           a8 == {OperatorMemberAssociations(x, e)}
           a9 == Shift(x, e)
           a10 == OnCtx(x, Event(c, e))
           a11 == OnCtx(x, SetState(c, ViewState[e.re]))
           a12 == OnCtx(x, NewComponent(c, e))
           a13 == {NodeEstablished(x, e)}
           a14 == {NodeSeen(x, e)}
           a15 == {NodeChangedIdentity(x, e)}
           a16 == OnCtx(x, SSTSelected(c, e))
           a17 == OnCtx(x, SSTOver(c, e))
           a18 == {[x EXCEPT !.ctx = s] : s \in SSTProgress(c, e)}
           a19 == OnCtx(x, [c EXCEPT !.desynced = (e.re = "RegexDesync")])
           a20 == OnCtx(x, VoteInit(c, e))
           a21 == OnCtx(x, VoteRespond(c, e))
           a22 == OnCtx(x, InconsistentWithGroup(c, e))
           a23 == OnCtx(x, VoteWinner(c, e))
           a24 == OnCtx(x, VoteRecovery(c, e))
           a25 == OnCtx(x, VoteRecomputed(c, e))
           a26 == {x}
<1>1. PICK h : h = Handler(x, e)
  OBVIOUS
<1>2. h =
       CASE e.re \in OwnIPLines -> a1
         [] e.re \in OwnHashLines -> a2
         [] e.re \in IdxLines -> a3
         [] e.re = "RegexMemberCount" -> a4
         [] e.re = "RegexMemberAssociations" -> a5
         [] e.re = "RegexNodeNameFromEnv" -> a6
         [] e.re = "RegexPodName" -> a7
         [] e.re = "RegexOperatorMemberAssociations" -> a8
         [] e.re \in {"RegexShift", "RegexRestoredState"} -> a9
         [] e.re \in DOMAIN EventState -> a10
         [] e.re \in DOMAIN ViewState -> a11
         [] e.re = "RegexNewComponent" -> a12
         [] e.re = "RegexNodeEstablished" -> a13
         [] e.re \in {"RegexNodeJoined", "RegexNodeLeft"} -> a14
         [] e.re = "RegexNodeChangedIdentity" -> a15
         [] e.re = "RegexSSTRequestSuccess" -> a16
         [] e.re \in SSTEnds -> a17
         [] e.re \in DOMAIN SSTStage -> a18
         [] e.re \in {"RegexDesync", "RegexResync"} -> a19
         [] e.re = "RegexInconsistencyVoteInit" -> a20
         [] e.re = "RegexInconsistencyVoteRespond" -> a21
         [] e.re = "RegexInconsistencyVoteInconsistentWithGroup" -> a22
         [] e.re = "RegexInconsistencyWinner" -> a23
         [] e.re = "RegexInconsistencyRecovery" -> a24
         [] e.re = "RegexInconsistencyVoteRecomputed" -> a25
         [] OTHER -> a26
  BY <1>1 DEF Handler
<1> HIDE DEF a1, a2, a3, a4, a5, a6, a7, a8, a9, a10, a11, a12, a13, a14, a15, a16, a17, a18, a19, a20, a21, a22, a23, a24, a25, a26
<1>3. \/ h \in {a1, a2, a3, a4, a5, a6, a7, a9, a10, a11, a12, a13, a14, a15, a16, a17, a18, a19, a20, a21, a22, a23, a24, a25, a26}
      \/ e.re = "RegexOperatorMemberAssociations" /\ h = a8
  BY <1>2
<1>4. Does(x, e, h)
  BY <1>3 DEF Does, a1, a2, a3, a4, a5, a6, a7, a8, a9, a10, a11, a12, a13, a14, a15, a16, a17, a18, a19, a20, a21, a22, a23, a24, a25, a26
<1> QED
  BY <1>1, <1>4

LEMMA HandlerFine ==
  ASSUME NEW x, NEW ft, FineM(x, ft), NEW e,
         e.re = "RegexOperatorMemberAssociations" => IsSeq(e.assocs), NEW r \in Handler(x, e)
  PROVE  FineM(r, ft)
<1> DEFINE c == x.ctx
<1>1. PICK rs : rs = Handler(x, e)
  OBVIOUS
<1>2. Does(x, e, rs) /\ r \in rs
  BY <1>1, HandlerDoes
<1>3. Fine(c, ft)
  BY DEF FineM
<1>4. CASE rs \in {{AddOwnIP(x, e.ip, e.ts)}, {AddOwnHash(x, e.hash, e.ts)}, {AddOwnName(x, e.name, e.ts)},
                   {MemberAssociation(x, e, e.ts)}}
  BY <1>2, <1>4, OwnFine, MemberFine
<1>5. CASE e.re = "RegexOperatorMemberAssociations" /\ rs = {OperatorMemberAssociations(x, e)}
  BY <1>2, <1>5, MembersFine
<1>6. CASE rs \in {OnCtx(x, [c EXCEPT !.myIdx = e.idx]), OnCtx(x, [c EXCEPT !.members = e.members]),
                   OnCtx(x, [c EXCEPT !.pod = e.pod]), OnCtx(x, [c EXCEPT !.desynced = (e.re = "RegexDesync")])}
  <2>1. /\ Fine([c EXCEPT !.myIdx = e.idx], ft) /\ Fine([c EXCEPT !.members = e.members], ft)
        /\ Fine([c EXCEPT !.pod = e.pod], ft) /\ Fine([c EXCEPT !.desynced = (e.re = "RegexDesync")], ft)
    BY <1>3, FieldSet
  <2> QED
    BY <1>2, <1>6, <2>1, OnCtxFine
<1>7. CASE rs = Shift(x, e)
  BY <1>2, <1>7, ShiftFine
<1>8. CASE rs \in {OnCtx(x, Event(c, e)), OnCtx(x, SetState(c, ViewState[e.re])), OnCtx(x, NewComponent(c, e)),
                   OnCtx(x, SSTSelected(c, e)), OnCtx(x, SSTOver(c, e))}
  <2>1. Fine(Event(c, e), ft) /\ Fine(NewComponent(c, e), ft)
    BY <1>3, StatesFine
  <2>2. Fine(SSTSelected(c, e), ft) /\ Fine(SSTOver(c, e), ft)
    BY <1>3, TransfersFine
  <2>3. Fine(SetState(c, ViewState[e.re]), ft)
    BY <1>3, StateFine
  <2> QED
    BY <1>2, <1>8, <2>1, <2>2, <2>3, OnCtxFine
<1>9. CASE rs \in {{NodeEstablished(x, e)}, {NodeSeen(x, e)}, {NodeChangedIdentity(x, e)}, {x}}
  <2>1. \E d : r = [x EXCEPT !.db = d] \/ r = x
    BY <1>2, <1>9 DEF NodeEstablished, NodeSeen, NodeChangedIdentity
  <2> QED
    BY <2>1, DBFine
<1>10. CASE rs = {[x EXCEPT !.ctx = s] : s \in SSTProgress(c, e)}
  <2>1. PICK s \in SSTProgress(c, e) : r = [x EXCEPT !.ctx = s]
    BY <1>2, <1>10
  <2>2. Fine(s, ft)
    BY <1>3, TransfersFine
  <2> QED
    BY <2>1, <2>2 DEF FineM
<1>11. CASE rs \in {OnCtx(x, VoteInit(c, e)), OnCtx(x, VoteRespond(c, e)), OnCtx(x, InconsistentWithGroup(c, e)),
                    OnCtx(x, VoteWinner(c, e)), OnCtx(x, VoteRecovery(c, e)), OnCtx(x, VoteRecomputed(c, e))}
  <2>1. /\ Fine(VoteInit(c, e), ft) /\ Fine(VoteRespond(c, e), ft) /\ Fine(InconsistentWithGroup(c, e), ft)
        /\ Fine(VoteWinner(c, e), ft) /\ Fine(VoteRecovery(c, e), ft) /\ Fine(VoteRecomputed(c, e), ft)
    BY <1>3, VotesFine
  <2> QED
    BY <1>2, <1>11, <2>1, OnCtxFine
<1> QED
  BY <1>2, <1>4, <1>5, <1>6, <1>7, <1>8, <1>9, <1>10, <1>11 DEF Does

\* A line leaves a context of the type its file type is.
LEMMA HandledFine ==
  ASSUME NEW x, NEW ft, "ctx" \in DOMAIN x, {"path", "ftype", "ssts"} \subseteq DOMAIN x.ctx,
         x.ctx.path = ft.path, IsFiniteSet(DOMAIN x.ctx.ssts), NEW e, e.ftype = ft.type,
         e.re = "RegexOperatorMemberAssociations" => IsSeq(e.assocs),
         NEW v, NEW r \in HandleAt(x, e, v)
  PROVE  FineM(r, ft)
<1>1. PICK least : HandleAt(x, e, v) =
        LET seen == [x EXCEPT !.ctx = [x.ctx EXCEPT !.ftype = e.ftype, !.minVerbosity = least]]
        IN IF e.parsed THEN Handler(seen, e) ELSE {seen}
  BY DEF HandleAt
<1> DEFINE c == [x.ctx EXCEPT !.ftype = e.ftype, !.minVerbosity = least]
           seen == [x EXCEPT !.ctx = c]
<1>2. Fine(c, ft)
  BY DEF Fine
<1>3. seen.ctx = c /\ "ctx" \in DOMAIN seen
  OBVIOUS
<1> HIDE DEF c
<1>4. FineM(seen, ft)
  BY <1>2, <1>3 DEF FineM
<1>5. r = seen \/ r \in Handler(seen, e)
  BY <1>1 DEF c
<1> HIDE DEF seen
<1> QED
  BY <1>4, <1>5, HandlerFine
-----------------------------------------------------------------------------
(* The order of time in a column, where every file is an error log.         *)

Stored(x) == /\ {"date", "ctx"} \subseteq DOMAIN x /\ x.date \in 0..MaxTime
             /\ "ftype" \in DOMAIN x.ctx /\ x.ctx.ftype = "error.log"
NoLater(a, b) == a.date = 0 \/ b.date = 0 \/ a.date <= b.date
InOrder(s) == \A i, j \in DOMAIN s : i < j => NoLater(s[i], s[j])
Timed(s) == IsSeq(s) /\ (\A i \in DOMAIN s : Stored(s[i])) /\ InOrder(s)

LEMMA TimeIsNat == MaxTime \in Nat
BY TimesAssumption

LEMMA StoredDated == ASSUME NEW x, Stored(x) PROVE (Dated(x) <=> x.date # 0) /\ x.date \in Nat /\ x.date <= MaxTime
BY TimeIsNat DEF Stored, Dated

\* The first and the last time of a column.
LEMMA TimesAre ==
  ASSUME NEW s, Timed(s)
  PROVE  /\ FirstTime(s) \in 0..MaxTime /\ LastTime(s) \in 0..MaxTime
         /\ \A i \in DOMAIN s : s[i].date # 0 => /\ FirstTime(s) # 0 /\ FirstTime(s) <= s[i].date
                                                 /\ LastTime(s) # 0 /\ s[i].date <= LastTime(s)
         /\ FirstTime(s) # 0 => \E i \in DOMAIN s : s[i].date = FirstTime(s)
<1> DEFINE is == {i \in DOMAIN s : Dated(s[i])}
<1>1. DOMAIN s = 1..Len(s) /\ Len(s) \in Nat /\ MaxTime \in Nat
  BY SeqFacts, TimeIsNat DEF Timed
<1>2. \A i \in DOMAIN s : (i \in is <=> s[i].date # 0) /\ s[i].date \in 0..MaxTime
  BY StoredDated DEF Timed, Stored
<1>3. is \in SUBSET Nat /\ is \in SUBSET (0..Len(s)) /\ is \subseteq DOMAIN s
  BY <1>1
<1>4. PICK a, b : a = Min(is) /\ b = Max(is)
  OBVIOUS
<1>5. FirstTime(s) = (IF is = {} THEN 0 ELSE s[a].date) /\ LastTime(s) = (IF is = {} THEN 0 ELSE s[b].date)
  BY <1>4 DEF FirstTime, LastTime
<1>6. \A i, j \in is : i <= j => s[i].date <= s[j].date
  <2> TAKE i, j \in is
  <2> HAVE i <= j
  <2>1. CASE i = j
    BY <1>2, <1>3, <2>1
  <2>2. CASE i # j
    <3>1. i < j /\ i \in DOMAIN s /\ j \in DOMAIN s
      BY <1>3, <2>2
    <3>2. NoLater(s[i], s[j])
      BY <3>1 DEF Timed, InOrder
    <3> QED
      BY <1>2, <3>1, <3>2 DEF NoLater
  <2> QED
    BY <2>1, <2>2
<1> HIDE DEF is
<1>7. CASE is = {}
  BY <1>1, <1>2, <1>5, <1>7
<1>8. CASE is # {}
  <2>1. a \in is /\ \A i \in is : a <= i
    BY <1>3, <1>4, <1>8, MinNumber
  <2>2. b \in is /\ \A i \in is : i <= b
    BY <1>1, <1>3, <1>4, <1>8, MaxNumber
  <2>3. FirstTime(s) = s[a].date /\ LastTime(s) = s[b].date /\ a \in DOMAIN s /\ b \in DOMAIN s
    BY <1>3, <1>5, <1>8, <2>1, <2>2
  <2>4. \A i \in is : s[a].date <= s[i].date /\ s[i].date <= s[b].date
    BY <1>6, <2>1, <2>2
  <2> QED
    BY <1>2, <2>1, <2>2, <2>3, <2>4
<1> QED
  BY <1>7, <1>8

LEMMA TimedPart ==
  ASSUME NEW s, Timed(s), NEW i \in 1..(Len(s) + 1)
  PROVE  Timed(SubSeq(s, i, Len(s)))
<1> DEFINE n == Len(s) - i + 1  r == SubSeq(s, i, Len(s))
<1>1. IsSeq(s) /\ DOMAIN s = 1..Len(s) /\ Len(s) \in Nat
  BY SeqFacts DEF Timed
<1>2. IsSeq(r) /\ Len(r) = n /\ n \in Nat /\ \A j \in 1..n : r[j] = s[i + j - 1]
  BY <1>1, Part
<1> HIDE DEF r
<1>3. DOMAIN r = 1..n
  BY <1>2, SeqFacts
<1>4. \A j \in DOMAIN r : i + j - 1 \in DOMAIN s
  BY <1>1, <1>3
<1>5. \A j \in DOMAIN r : Stored(r[j])
  BY <1>2, <1>3, <1>4 DEF Timed
<1>6. ASSUME NEW j \in DOMAIN r, NEW k \in DOMAIN r, j < k PROVE NoLater(r[j], r[k])
  <2>1. i + j - 1 < i + k - 1
    BY <1>1, <1>3, <1>6
  <2>2. NoLater(s[i + j - 1], s[i + k - 1])
    BY <1>4, <2>1 DEF Timed, InOrder
  <2> QED
    BY <1>2, <1>3, <2>2
<1>7. Timed(r)
  BY <1>2, <1>5, <1>6 DEF Timed, InOrder
<1> QED
  BY <1>7 DEF r

LEMMA TimedJoined ==
  ASSUME NEW s, Timed(s), NEW t, Timed(t), \A i \in DOMAIN s, j \in DOMAIN t : NoLater(s[i], t[j])
  PROVE  Timed(s \o t)
<1> DEFINE n == Len(s)  r == s \o t
<1>1. /\ IsSeq(s) /\ DOMAIN s = 1..n /\ n \in Nat /\ IsSeq(t) /\ DOMAIN t = 1..Len(t) /\ Len(t) \in Nat
  BY SeqFacts DEF Timed
<1>2. IsSeq(r) /\ Len(r) = n + Len(t)
  BY <1>1, Joined
<1>3. (\A i \in 1..n : r[i] = s[i]) /\ \A i \in 1..Len(t) : r[n + i] = t[i]
  <2>1. s \in Seq(ToSet(s) \cup ToSet(t)) /\ t \in Seq(ToSet(s) \cup ToSet(t))
    BY <1>1 DEF IsSeq
  <2> QED
    BY <1>1, <2>1
<1>4. DOMAIN r = 1..(n + Len(t))
  <2> HIDE DEF r
  <2> QED
    BY <1>2, SeqFacts
<1> HIDE DEF r, n
<1>5. \A i \in DOMAIN r : \/ i \in DOMAIN s /\ r[i] = s[i]
                          \/ i > n /\ i - n \in DOMAIN t /\ r[i] = t[i - n]
  <2> TAKE i \in DOMAIN r
  <2>1. CASE i <= n
    BY <1>1, <1>3, <1>4, <2>1
  <2>2. CASE i > n
    <3>1. i - n \in 1..Len(t) /\ n + (i - n) = i
      BY <1>1, <1>4, <2>2
    <3>2. r[n + (i - n)] = t[i - n]
      BY <1>3, <3>1
    <3> QED
      BY <1>1, <2>2, <3>1, <3>2
  <2> QED
    BY <1>1, <1>4, <2>1, <2>2
<1>6. \A i \in DOMAIN r : Stored(r[i])
  BY <1>5 DEF Timed
<1>7. ASSUME NEW i \in DOMAIN r, NEW j \in DOMAIN r, i < j PROVE NoLater(r[i], r[j])
  <2>0. i \in Nat /\ j \in Nat
    BY <1>1, <1>4
  <2>1. CASE i \in DOMAIN s /\ r[i] = s[i] /\ j \in DOMAIN s /\ r[j] = s[j]
    BY <1>7, <2>1 DEF Timed, InOrder
  <2>2. CASE i \in DOMAIN s /\ r[i] = s[i] /\ j > n /\ j - n \in DOMAIN t /\ r[j] = t[j - n]
    BY <2>2
  <2>3. CASE i > n /\ i - n \in DOMAIN t /\ r[i] = t[i - n] /\ j > n /\ j - n \in DOMAIN t /\ r[j] = t[j - n]
    <3>1. i - n < j - n
      BY <1>1, <1>7, <2>0
    <3> QED
      BY <2>3, <3>1 DEF Timed, InOrder
  <2>4. CASE i > n /\ j \in DOMAIN s
    BY <1>1, <1>7, <2>0, <2>4
  <2> QED
    BY <1>5, <2>1, <2>2, <2>3, <2>4
<1> QED
  BY <1>2, <1>6, <1>7 DEF Timed, InOrder, r

LEMMA TimedCut ==
  ASSUME NEW s, Timed(s), NEW at \in 0..MaxTime
  PROVE  LET r == CutTimelineAt(s, at) IN Timed(r) /\ \A i \in DOMAIN r : r[i].date = 0 \/ at <= r[i].date
<1> DEFINE after == {i \in DOMAIN s : s[i].date > at}
<1>0. DOMAIN s = 1..Len(s) /\ Len(s) \in Nat /\ IsSeq(s)
  BY SeqFacts DEF Timed
<1>1. CASE after = {}
  <2>1. IsSeq(<<>>) /\ DOMAIN <<>> = {}
    BY DEF IsSeq
  <2>2. Timed(<<>>)
    BY <2>1 DEF Timed, InOrder
  <2> QED
    BY <1>1, <2>1, <2>2 DEF CutTimelineAt
<1>2. CASE after # {}
  <2>1. after \in SUBSET Nat /\ \A i \in after : i \in DOMAIN s /\ s[i].date > at
    BY <1>0
  <2>2. PICK i : i = Min(after)
    OBVIOUS
  <2> DEFINE n == Len(s) - i + 1  r == SubSeq(s, i, Len(s))
  <2>3. CutTimelineAt(s, at) = r
    BY <1>2, <2>2 DEF CutTimelineAt
  <2> HIDE DEF after
  <2>4. i \in after
    BY <1>2, <2>1, <2>2, MinNumber
  <2>5. i \in 1..(Len(s) + 1) /\ i \in DOMAIN s /\ s[i].date > at
    BY <1>0, <2>1, <2>4
  <2>6. Timed(r)
    BY <2>5, TimedPart
  <2>7. IsSeq(r) /\ Len(r) = n /\ n \in Nat /\ \A j \in 1..n : r[j] = s[i + j - 1]
    BY <1>0, <2>5, Part
  <2> HIDE DEF r
  <2>8. ASSUME NEW j \in DOMAIN r PROVE r[j].date = 0 \/ at <= r[j].date
    <3>1. j \in 1..n
      BY <2>7, SeqFacts
    <3>2. r[j] = s[i + j - 1] /\ i + j - 1 \in DOMAIN s /\ i + j - 1 >= i
      BY <1>0, <2>5, <2>7, <3>1
    <3>3. /\ s[i].date \in 0..MaxTime /\ s[i + j - 1].date \in 0..MaxTime /\ MaxTime \in Nat
      BY <2>5, <3>2, TimeIsNat DEF Timed, Stored
    <3>4. CASE i + j - 1 = i
      BY <2>5, <3>2, <3>3, <3>4
    <3>5. CASE i + j - 1 > i
      <4>1. NoLater(s[i], s[i + j - 1])
        BY <2>5, <3>2, <3>5 DEF Timed, InOrder
      <4> QED
        BY <2>5, <3>2, <3>3, <4>1 DEF NoLater
    <3> QED
      BY <2>5, <3>1, <3>2, <3>4, <3>5, <1>0
  <2> QED
    BY <2>3, <2>6, <2>8
<1> QED
  BY <1>1, <1>2

LEMMA InheritKeeps ==
  ASSUME NEW c, NEW d, "ftype" \in DOMAIN c
  PROVE  "ftype" \in DOMAIN Inherit(c, d) /\ Inherit(c, d).ftype = c.ftype
BY DEF Inherit

\* t is s with what c knew inherited by its last context.
Inherits(t, s, c) == t = [s EXCEPT ![Len(s)].ctx = Inherit(s[Len(s)].ctx, c)]

LEMMA TimedLast ==
  ASSUME NEW s, Timed(s), NEW t, NEW c, Inherits(t, s, c)
  PROVE  Timed(t) /\ DOMAIN t = DOMAIN s /\ \A i \in DOMAIN t : t[i].date = s[i].date
<1>0. IsSeq(s) /\ Len(s) \in Nat /\ DOMAIN s = 1..Len(s)
  BY SeqFacts DEF Timed
<1>1. t = [s EXCEPT ![Len(s)].ctx = Inherit(s[Len(s)].ctx, c)]
  BY DEF Inherits
<1>2. PICK v : v = Inherit(s[Len(s)].ctx, c)
  OBVIOUS
<1>3. IsSeq(t) /\ Len(t) = Len(s)
  BY <1>0, <1>1, LastChanged
<1>4. DOMAIN t = DOMAIN s
  BY <1>1
<1>5. ASSUME NEW i \in DOMAIN s PROVE Stored(t[i]) /\ t[i].date = s[i].date
  <2>0. Stored(s[i])
    BY DEF Timed
  <2>1. CASE i # Len(s)
    <3>1. t[i] = s[i]
      BY <1>1, <2>1
    <3> QED
      BY <2>0, <3>1
  <2>2. CASE i = Len(s)
    <3>1. t[i] = [s[i] EXCEPT !.ctx = v]
      BY <1>1, <1>2, <2>2
    <3>2. "ftype" \in DOMAIN v /\ v.ftype = s[i].ctx.ftype
      BY <1>2, <2>0, <2>2, InheritKeeps DEF Stored
    <3>3. t[i].ctx = v /\ t[i].date = s[i].date /\ DOMAIN t[i] = DOMAIN s[i]
      BY <2>0, <3>1 DEF Stored
    <3> QED
      BY <2>0, <3>2, <3>3 DEF Stored
  <2> QED
    BY <2>1, <2>2
<1>6. \A i, j \in DOMAIN t : i < j => NoLater(t[i], t[j])
  BY <1>4, <1>5 DEF Timed, InOrder, NoLater
<1> QED
  BY <1>3, <1>4, <1>5, <1>6 DEF Timed, InOrder

TimedColumn(s) == Timed(s) /\ s # <<>>

LEMMA ContinueTimed ==
  ASSUME NEW s, TimedColumn(s), NEW t, TimedColumn(t)
  PROVE  TimedColumn(Continue(s, t))
<1> DEFINE rest == IF LastTime(s) > FirstTime(t) THEN CutTimelineAt(t, LastTime(s)) ELSE t
           more == [rest EXCEPT ![Len(rest)].ctx = Inherit(@, Last(s).ctx)]
<1>1. Timed(s) /\ Timed(t) /\ MaxTime \in Nat
  BY TimeIsNat DEF TimedColumn
<1>2. PICK a, b : a = LastTime(s) /\ b = FirstTime(t)
  OBVIOUS
<1>3. /\ a \in 0..MaxTime /\ b \in 0..MaxTime
      /\ \A i \in DOMAIN s : s[i].date # 0 => a # 0 /\ s[i].date <= a
      /\ \A j \in DOMAIN t : t[j].date # 0 => b # 0 /\ b <= t[j].date
  BY <1>1, <1>2, TimesAre
<1>4. (\A i \in DOMAIN s : s[i].date \in 0..MaxTime) /\ \A i \in DOMAIN t : t[i].date \in 0..MaxTime
  BY <1>1 DEF Timed, Stored
<1>5. Timed(rest) /\ \A j \in DOMAIN rest : rest[j].date \in 0..MaxTime /\ (rest[j].date # 0 => a <= rest[j].date)
  <2>1. CASE a > b
    <3>1. rest = CutTimelineAt(t, a)
      BY <1>2, <2>1
    <3>2. Timed(CutTimelineAt(t, a)) /\ \A i \in DOMAIN CutTimelineAt(t, a) :
             CutTimelineAt(t, a)[i].date = 0 \/ a <= CutTimelineAt(t, a)[i].date
      BY <1>1, <1>3, TimedCut
    <3> HIDE DEF rest
    <3> QED
      BY <3>1, <3>2 DEF Timed, Stored
  <2>2. CASE ~(a > b)
    <3>1. rest = t
      BY <1>2, <2>2
    <3> HIDE DEF rest
    <3>2. ASSUME NEW j \in DOMAIN t, t[j].date # 0 PROVE a <= t[j].date
      BY <1>1, <1>3, <1>4, <2>2, <3>2
    <3> QED
      BY <1>1, <1>4, <3>1, <3>2
  <2> QED
    BY <2>1, <2>2
<1>6. Continue(s, t) = s \o more
  BY DEF Continue
<1> HIDE DEF rest
<1>7. Timed(more) /\ DOMAIN more = DOMAIN rest /\ \A i \in DOMAIN more : more[i].date = rest[i].date
  <2>1. more = [rest EXCEPT ![Len(rest)].ctx = Inherit(rest[Len(rest)].ctx, Last(s).ctx)]
    OBVIOUS
  <2> HIDE DEF more
  <2>2. PICK c : c = Last(s).ctx
    OBVIOUS
  <2>3. Inherits(more, rest, c)
    BY <2>1, <2>2 DEF Inherits
  <2> QED
    BY <1>5, <2>3, TimedLast
<1> HIDE DEF more
<1>8. ASSUME NEW i \in DOMAIN s, NEW j \in DOMAIN more PROVE NoLater(s[i], more[j])
  <2>1. more[j].date = rest[j].date /\ j \in DOMAIN rest
    BY <1>7
  <2> QED
    BY <1>1, <1>3, <1>4, <1>5, <2>1 DEF NoLater
<1>9. Timed(s \o more)
  BY <1>1, <1>7, <1>8, TimedJoined
<1>10. s \o more # <<>>
  <2>1. Len(s) \in Nat /\ Len(s) # 0 /\ IsSeq(s) /\ IsSeq(more) /\ Len(more) \in Nat
    BY <1>1, <1>7, SeqFacts DEF Timed, TimedColumn
  <2>2. IsSeq(s \o more) /\ Len(s \o more) = Len(s) + Len(more)
    BY <2>1, Joined
  <2>3. Len(s \o more) # 0
    BY <2>1, <2>2
  <2> QED
    BY <2>2, <2>3, SeqFacts
<1> QED
  BY <1>6, <1>9, <1>10 DEF TimedColumn

LEMMA MergeTimed ==
  ASSUME NEW s, TimedColumn(s), NEW t, TimedColumn(t)
  PROVE  TimedColumn(MergeTimeline(s, t))
<1>1. \A a, b : TimedColumn(a) /\ TimedColumn(b) => TimedColumn(MergeOrdered(a, b))
  BY ContinueTimed DEF MergeOrdered
<1> QED
  BY <1>1 DEF MergeTimeline
-----------------------------------------------------------------------------
(* A file is read in the order of time.                                     *)

\* No event of s is later than one of the times D.
UpTo(s, D) == \A i \in DOMAIN s, u \in D : s[i].date = 0 \/ u = 0 \/ s[i].date <= u
Found(s, D) == FoundInfos(s) /\ Timed(s) /\ UpTo(s, D)

LEMMA AddedInOrder ==
  ASSUME NEW D, NEW s, Found(s, D), NEW li, FoundInfo(li), Stored(li),
         li.date \in D, \A u \in D : li.date = 0 \/ u = 0 \/ li.date <= u
  PROVE  Found(AddEvent(s, li), D)
<1> DEFINE t == AddEvent(s, li)
<1>1. FoundInfos(s) /\ Timed(s) /\ UpTo(s, D)
  BY DEF Found
<1>2. CASE t = Append(s, li)
  <2>1. /\ FoundInfos(t) /\ Len(s) \in Nat /\ DOMAIN s = 1..Len(s) /\ DOMAIN t = 1..(Len(s) + 1)
        /\ t[Len(s) + 1] = li /\ \A i \in 1..Len(s) : t[i] = s[i]
    BY <1>1, <1>2, AppendEvents
  <2> HIDE DEF t
  <2>2. \A i \in DOMAIN t : (i = Len(s) + 1 /\ t[i] = li) \/ (i \in DOMAIN s /\ t[i] = s[i])
    BY <2>1
  <2>3. \A i \in DOMAIN t : Stored(t[i])
    BY <1>1, <2>2 DEF Timed
  <2>4. UpTo(t, D)
    BY <1>1, <2>2 DEF UpTo
  <2>5. ASSUME NEW i \in DOMAIN t, NEW j \in DOMAIN t, i < j PROVE NoLater(t[i], t[j])
    <3>1. i # Len(s) + 1
      BY <2>1, <2>5
    <3>2. i \in DOMAIN s /\ t[i] = s[i]
      BY <2>2, <3>1
    <3>3. CASE j = Len(s) + 1 /\ t[j] = li
      BY <1>1, <3>2, <3>3 DEF UpTo, NoLater
    <3>4. CASE j \in DOMAIN s /\ t[j] = s[j]
      BY <1>1, <2>5, <3>2, <3>4 DEF Timed, InOrder
    <3> QED
      BY <2>2, <3>3, <3>4
  <2> QED
    BY <2>1, <2>3, <2>4, <2>5 DEF Found, Timed, InOrder, FoundInfos, IsSeq, t
<1>3. CASE t # Append(s, li)
  <2>0. PICK n \in Nat : \E y :
          /\ n > 1 /\ n = Len(s) /\ FoundInfo(y) /\ y.date = s[n - 1].date /\ y.ctx = s[n - 1].ctx
          /\ t = [i \in 1..n |-> IF i = n THEN li ELSE IF i = n - 1 THEN y ELSE s[i]]
    BY <1>1, <1>3, AddEventCases
  <2>1. PICK y :
          /\ n > 1 /\ n = Len(s) /\ FoundInfo(y) /\ y.date = s[n - 1].date /\ y.ctx = s[n - 1].ctx
          /\ t = [i \in 1..n |-> IF i = n THEN li ELSE IF i = n - 1 THEN y ELSE s[i]]
    BY <2>0
  <2> HIDE DEF t
  <2>2. DOMAIN s = 1..n /\ DOMAIN t = 1..n /\ n - 1 \in 1..n /\ t = [i \in 1..n |-> t[i]]
    BY <1>1, <2>1 DEF FoundInfos
  <2>3. IsSeq(t)
    BY <2>2, SeqOfItsOwn DEF IsSeq
  <2>4. \A i \in 1..n : \/ i = n /\ t[i] = li
                        \/ i = n - 1 /\ t[i] = y
                        \/ i < n /\ t[i] = s[i]
    BY <2>1
  <2>5. Stored(y)
    <3>1. Stored(s[n - 1])
      BY <1>1, <2>2 DEF Timed
    <3>2. {"date", "ctx"} \subseteq DOMAIN y
      BY <2>1 DEF FoundInfo
    <3> QED
      BY <2>1, <3>1, <3>2 DEF Stored
  <2>6. \A i \in 1..n : Stored(t[i]) /\ (i < n => t[i].date = s[i].date)
    BY <1>1, <2>1, <2>2, <2>4, <2>5 DEF Timed
  <2>7. FoundInfos(t)
    BY <1>1, <2>1, <2>2, <2>3, <2>4 DEF FoundInfos, IsSeq
  <2>8. UpTo(t, D)
    <3> SUFFICES ASSUME NEW i \in 1..n, NEW u \in D PROVE t[i].date = 0 \/ u = 0 \/ t[i].date <= u
      BY <2>2 DEF UpTo
    <3>1. CASE i = n
      <4>1. t[i] = li
        BY <2>1, <3>1
      <4> QED
        BY <4>1
    <3>2. CASE i # n
      <4>1. t[i].date = s[i].date /\ i \in DOMAIN s
        BY <2>2, <2>6, <3>2
      <4> QED
        BY <1>1, <4>1 DEF UpTo
    <3> QED
      BY <3>1, <3>2
  <2>9. ASSUME NEW i \in 1..n, NEW j \in 1..n, i < j PROVE NoLater(t[i], t[j])
    <3>1. t[i].date = s[i].date /\ i \in DOMAIN s /\ j \in DOMAIN s
      BY <2>2, <2>6, <2>9
    <3>2. CASE j = n
      <4>1. t[j] = li
        BY <2>1, <3>2
      <4> QED
        BY <1>1, <3>1, <4>1 DEF UpTo, NoLater
    <3>3. CASE j # n
      <4>1. t[j].date = s[j].date
        BY <2>6, <3>3
      <4>2. NoLater(s[i], s[j])
        BY <1>1, <2>9, <3>1 DEF Timed, InOrder
      <4> QED
        BY <3>1, <4>1, <4>2 DEF NoLater
    <3> QED
      BY <3>2, <3>3
  <2> QED
    BY <2>2, <2>3, <2>6, <2>7, <2>8, <2>9 DEF Found, Timed, InOrder, t
<1> QED
  BY <1>2, <1>3

\* A context with maps of which the handlers can make something.
Ready(x) == /\ "ctx" \in DOMAIN x /\ {"path", "ftype", "ssts"} \subseteq DOMAIN x.ctx
            /\ IsFiniteSet(DOMAIN x.ctx.ssts)
\* An event of a line.
WellMade(e) == "re" \in DOMAIN e /\ (e.re = "RegexOperatorMemberAssociations" =>
                                     "assocs" \in DOMAIN e /\ IsSeq(e.assocs))

\* The line comes first of those with the times D, and is an error log's.
Comes(line, D) ==
  /\ FileType(line) = "error.log" /\ line.date \in D /\ line.date \in 0..MaxTime
  /\ \A u \in D : line.date = 0 \/ u = 0 \/ line.date <= u
Ordered(s, D) == Ready(s.m) /\ Found(s.lt, D)

LEMMA OneInOrder ==
  ASSUME NEW D, NEW s, Ordered(s, D), NEW line, Comes(line, D),
         NEW e, WellMade(e), NEW ts, NEW x \in HandleEvent(s, line, e, ts)
  PROVE  Ordered(x, D)
<1>1. PICK f : f = Put(Put(e, "ftype", FileType(line)), "ts", ts)
  OBVIOUS
<1>2. PICK y : y = [s.m EXCEPT !.ctx.ftype = FileType(line)]
  OBVIOUS
<1>3. PICK r \in HandleAt(y, f, SetVerbosity(e.re)) :
        x = [m |-> r, lt |-> AddEvent(s.lt, LogInfo(line.id, line.date, e, SetVerbosity(e.re), r.ctx))]
  BY <1>1, <1>2 DEF HandleEvent
<1>4. Ready(y)
  BY <1>2 DEF Ordered, Ready
<1>5. f.ftype = "error.log" /\ f.re = e.re /\ ("assocs" \in DOMAIN e => f.assocs = e.assocs)
  BY <1>1 DEF Put, WellMade, Comes
<1>6. r.ctx.ftype = "error.log" /\ Ready(r)
  <2>1. f.re = "RegexOperatorMemberAssociations" => IsSeq(f.assocs)
    BY <1>5 DEF WellMade
  <2>2. PICK ft : ft = [type |-> "error.log", path |-> y.ctx.path]
    OBVIOUS
  <2>3. FineM(r, ft)
    BY <1>3, <1>4, <1>5, <2>1, <2>2, HandledFine DEF Ready
  <2> QED
    BY <2>2, <2>3 DEF FineM, Fine, Ready
<1>7. PICK li : li = LogInfo(line.id, line.date, e, SetVerbosity(e.re), r.ctx)
  OBVIOUS
<1>8. FoundInfo(li) /\ li.date = line.date /\ li.ctx = r.ctx /\ {"date", "ctx"} \subseteq DOMAIN li
  BY <1>7 DEF LogInfo, FoundInfo
<1>9. Stored(li)
  BY <1>6, <1>8 DEF Stored, Ready, Comes
<1>10. Found(AddEvent(s.lt, li), D)
  BY <1>8, <1>9, AddedInOrder DEF Comes, Ordered
<1> QED
  BY <1>3, <1>6, <1>7, <1>10 DEF Ordered

LEMMA LineInOrder ==
  ASSUME NEW D, Ready(m), Found(lt, D), NEW line, Comes(line, D),
         IsFiniteSet(line.es), \A e \in line.es : WellMade(e), NEW ts, NEW x \in HandleMatches(line, ts)
  PROVE  Ordered(x, D)
<1>1. PICK order \in SetToSeqs(Matching(line)) : x \in HandleInOrder(line, order, ts)
  BY DEF HandleMatches
<1>2. IsFiniteSet(Matching(line)) /\ Matching(line) \subseteq line.es
  BY FS_Subset DEF Matching
<1>3. order \in Seq(Matching(line))
  BY <1>2, AllListed
<1>4. PICK a : After(line, order, ts, a) /\ HandleInOrder(line, order, ts) = a[Len(order)]
  BY <1>3, HandledInTurn
<1>5. PICK n : n = Len(order)
  OBVIOUS
<1>6. n \in Nat /\ \A i \in 1..n : WellMade(order[i])
  BY <1>2, <1>3, <1>5
<1>7. \A i \in 0..n : \A y \in a[i] : Ordered(y, D)
  <2> DEFINE T == {i \in 0..n : \E y \in a[i] : ~Ordered(y, D)}
  <2> SUFFICES ASSUME T # {} PROVE FALSE
    OBVIOUS
  <2>0. T \in SUBSET Nat /\ \A i \in T : i \in 0..n
    BY <1>6
  <2>1. PICK i \in T : \A j \in T : i <= j
    <3> HIDE DEF T
    <3> QED
      BY <2>0, LeastNumber
  <2>2. PICK y \in a[i] : ~Ordered(y, D)
    BY <2>1
  <2>3. CASE i = 0
    <3>1. y = [m |-> m, lt |-> lt]
      BY <1>4, <2>2, <2>3 DEF After
    <3> QED
      BY <2>2, <3>1 DEF Ordered
  <2>4. CASE i # 0
    <3>1. i \in 1..n /\ i - 1 \in 0..n /\ i - 1 \notin T
      <4> HIDE DEF T
      <4>1. i \in 1..n /\ i - 1 \in 0..n /\ ~(i <= i - 1)
        BY <1>6, <2>0, <2>1, <2>4
      <4> QED
        BY <2>1, <4>1
    <3>2. PICK s \in a[i - 1] : y \in HandleEvent(s, line, order[i], ts)
      BY <1>4, <1>5, <2>2, <3>1 DEF After, Turn
    <3>3. Ordered(s, D)
      BY <3>1, <3>2
    <3> HIDE DEF T
    <3> QED
      BY <1>6, <2>2, <3>1, <3>2, <3>3, OneInOrder
  <2> QED
    BY <2>3, <2>4
<1>8. n \in 0..n /\ x \in a[n]
  BY <1>1, <1>4, <1>5, <1>6
<1> QED
  BY <1>7, <1>8

LEMMA MergedTimed ==
  ASSUME lt # <<>> => TimedColumn(lt), \A k \in DOMAIN tl : TimedColumn(tl[k]), NEW t \in Merged
  PROVE  \A k \in DOMAIN t : TimedColumn(t[k])
<1>1. \A k, s : TimedColumn(s) => \A j \in DOMAIN Put(tl, k, s) : TimedColumn(Put(tl, k, s)[j])
  BY DEF Put
<1>2. CASE lt = <<>>
  BY <1>2 DEF Merged
<1>3. CASE lt # <<>>
  <2>1. \E k, s : t = Put(tl, k, s) /\ TimedColumn(s)
    <3>1. \A k \in DOMAIN tl : TimedColumn(MergeTimeline(tl[k], lt))
      BY <1>3, MergeTimed
    <3>2. \A key : \A fits \in SUBSET DOMAIN tl : \A u \in MergeWithAny(tl, key, lt, fits) :
            \E k, s : u = Put(tl, k, s) /\ TimedColumn(s)
      BY <1>3, <3>1 DEF MergeWithAny
    <3>3. \/ t \in {Put(tl, Path, lt)} \/ t \in MergeByPodnameElsePath(tl, Path, lt)
          \/ t \in MergeByDirectory(tl, Path, lt) \/ t \in MergeByIdentifier(tl, lt, m.db)
      BY <1>3 DEF Merged
    <3>4. CASE t \in {Put(tl, Path, lt)}
      BY <1>3, <3>4
    <3>5. CASE t \in MergeByPodnameElsePath(tl, Path, lt)
      BY <1>3, <3>2, <3>5 DEF MergeByPodnameElsePath
    <3>6. CASE t \in MergeByDirectory(tl, Path, lt)
      BY <3>2, <3>6 DEF MergeByDirectory
    <3>7. CASE t \in MergeByIdentifier(tl, lt, m.db)
      <4>1. PICK node : t = Put(tl, node, IF node \in DOMAIN tl THEN MergeTimeline(tl[node], lt) ELSE lt)
        BY <3>7 DEF MergeByIdentifier
      <4> QED
        BY <1>3, <3>1, <4>1
    <3> QED
      BY <3>3, <3>4, <3>5, <3>6, <3>7
  <2> QED
    BY <1>1, <2>1
<1> QED
  BY <1>2, <1>3

\* The operator's logs hold error log lines only.  Merging places a file by the
\* dates of these (Dated) but cuts it at any date (CutTimelineAt), so that a
\* line of another kind may bring what is before the cut behind it.
OneFileEach ==
  \A o \in Options : o.merge = "pod" =>
    \A n \in DOMAIN History : \A i \in DOMAIN History[n] : History[n][i].ftype = "error.log"

\* The times of the lines behind n, and from k on.
TimesAfter(p, n) == {LineAt(p, i).date : i \in {j \in Lines(p) : j > n}}
TimesFrom(p, k) == {LineAt(p, i).date : i \in {j \in Lines(p) : j >= k}}

LEMMA LineComes ==
  ASSUME Run(opts, held), OneFileEach, NEW p \in ToSet(Paths), NEW k \in Lines(p)
  PROVE  /\ Comes(LineAt(p, k), TimesFrom(p, k)) /\ IsFiniteSet(LineAt(p, k).es)
         /\ \A e \in LineAt(p, k).es : WellMade(e)
<1> DEFINE n == NodeOf[p]  log == History[n]
<1>1. n \in DOMAIN History /\ held[p] \in (DOMAIN log) \X (DOMAIN log)
  BY PathsAssumption DEF Run
<1>2. log \in Seq(ToSet(log)) /\ DOMAIN log = 1..Len(log) /\ Len(log) \in Nat
  BY <1>1, HistoryAssumption
<1>3. held[p][1] \in 1..Len(log) /\ held[p][2] \in 1..Len(log)
  BY <1>1, <1>2
<1>4. k \in DOMAIN log /\ LineAt(p, k) = log[k]
  BY <1>2, <1>3 DEF Lines, LineAt
<1>5. FileType(log[k]) = "error.log"
  BY <1>1, <1>4 DEF OneFileEach, FileType, Operator, Run
<1>6. \A e \in log[k].es : WellMade(e)
  BY <1>1, <1>4, HistoryAssumption DEF WellMade, IsSeq
<1>7. log[k].date \in 0..MaxTime /\ IsFiniteSet(log[k].es) /\ k \in Nat
  BY <1>4, LineFacts
<1>8. log[k].date \in TimesFrom(p, k)
  BY <1>4, <1>7 DEF TimesFrom
<1>9. ASSUME NEW u \in TimesFrom(p, k) PROVE log[k].date = 0 \/ u = 0 \/ log[k].date <= u
  <2>1. PICK j \in Lines(p) : j >= k /\ u = LineAt(p, j).date
    BY DEF TimesFrom
  <2>2. j \in Nat
    BY LineFacts
  <2>3. CASE j = k
    BY <1>4, <1>7, <2>1, <2>3, TimeIsNat
  <2>4. CASE j # k
    <3>1. k < j
      BY <1>7, <2>1, <2>2, <2>4
    <3> QED
      BY <1>4, <2>1, <3>1, LineFacts
  <2> QED
    BY <2>3, <2>4
<1> QED
  BY <1>4, <1>5, <1>6, <1>7, <1>8, <1>9 DEF Comes

LEMMA UpToFewer ==
  ASSUME NEW s, NEW D, Found(s, D), NEW E \in SUBSET D
  PROVE  Found(s, E)
BY DEF Found, UpTo

\* While a file is read.
FileOrder == Ready(m) /\ Found(lt, TimesAfter(Path, pos))

LEMMA ReadLineOrder ==
  ASSUME ReadInv, OneFileEach, ReadLine, FileOrder
  PROVE  FileOrder' /\ Timed(lt')
<1>0. /\ Run(opts, held) /\ phase = "read" /\ FileRead /\ UNCHANGED <<opts, held, todo>>
      /\ todo \in Seq(ToSet(Paths))
  BY DEF ReadInv, ReadLine
<1>1. PICK p \in ToSet(Paths) : p = Path
  BY <1>0 DEF FileRead, Path
<1>2. PICK k, n, t : k = pos' /\ n = pos /\ t = stamp'
  OBVIOUS
<1>3. /\ n \in {0} \cup Scanned(p) /\ Found(lt, TimesAfter(p, n)) /\ Ready(m)
  BY <1>0, <1>1, <1>2 DEF FileRead, FileOrder
<1>4. /\ {i \in Scanned(p) : i > n} # {} /\ k = Min({i \in Scanned(p) : i > n})
      /\ \/ UNCHANGED <<m, lt>>
         \/ \E s \in HandleMatches(LineAt(p, k), t) : m' = s.m /\ lt' = s.lt
  BY <1>1, <1>2 DEF ReadLine, Ahead
<1>5. k \in Lines(p) /\ k \in Nat /\ n \in Nat /\ k > n
  <2>1. k \in Scanned(p) /\ k \in Nat /\ n \in Nat /\ k > n
    BY <1>0, <1>3, <1>4, NextLine
  <2> QED
    BY <2>1, ScannedLines
<1>6. \A i \in Lines(p) : i \in Nat
  BY <1>0, LineFacts
<1>7. TimesFrom(p, k) \in SUBSET TimesAfter(p, n)
  BY <1>5, <1>6 DEF TimesFrom, TimesAfter
<1>8. TimesAfter(p, k) \in SUBSET TimesFrom(p, k)
  BY <1>5, <1>6 DEF TimesFrom, TimesAfter
<1>9. Found(lt, TimesFrom(p, k))
  BY <1>3, <1>7, UpToFewer
<1>10. Ready(m') /\ Found(lt', TimesFrom(p, k))
  <2>1. CASE UNCHANGED <<m, lt>>
    BY <1>3, <1>9, <2>1
  <2>2. CASE \E s \in HandleMatches(LineAt(p, k), t) : m' = s.m /\ lt' = s.lt
    <3>1. PICK s \in HandleMatches(LineAt(p, k), t) : m' = s.m /\ lt' = s.lt
      BY <2>2
    <3>2. /\ Comes(LineAt(p, k), TimesFrom(p, k)) /\ IsFiniteSet(LineAt(p, k).es)
          /\ \A e \in LineAt(p, k).es : WellMade(e)
      BY <1>0, <1>5, LineComes
    <3>3. Ordered(s, TimesFrom(p, k))
      BY <1>3, <1>9, <3>1, <3>2, LineInOrder
    <3> QED
      BY <3>1, <3>3 DEF Ordered
  <2> QED
    BY <1>4, <2>1, <2>2
<1>11. Found(lt', TimesAfter(p, k))
  BY <1>8, <1>10, UpToFewer
<1>12. Path' = p /\ pos' = k
  BY <1>0, <1>1, <1>2 DEF Path
<1>13. TimesAfter(p, k)' = TimesAfter(p, k)
  BY <1>0 DEF TimesAfter, Lines, LineAt
<1>14. TimesAfter(Path, pos)' = TimesAfter(p, k)
  BY <1>12, <1>13
<1> QED
  BY <1>10, <1>11, <1>14 DEF FileOrder, Found

LEMMA OpenOrder == ASSUME Open PROVE FileOrder'
<1>1. lt' = <<>> /\ m' = NoContext(Path)
  BY DEF Open
<1>2. Ready(m')
  <2>1. DOMAIN EmptyMap = {} /\ IsFiniteSet({})
    BY FS_EmptySet DEF EmptyMap
  <2>2. m'.ctx = NewLogCtx(Path) /\ "ctx" \in DOMAIN m'
    BY <1>1 DEF NoContext
  <2>3. {"path", "ftype", "ssts"} \subseteq DOMAIN NewLogCtx(Path) /\ NewLogCtx(Path).ssts = EmptyMap
    BY DEF NewLogCtx
  <2> QED
    BY <2>1, <2>2, <2>3 DEF Ready
<1>3. \A D : Found(<<>>, D)
  <2>1. IsSeq(<<>>) /\ DOMAIN <<>> = {}
    BY DEF IsSeq
  <2> QED
    BY <2>1 DEF Found, FoundInfos, Timed, InOrder, UpTo, IsSeq
<1>4. Found(lt', TimesAfter(Path, pos)')
  BY <1>1, <1>3
<1> QED
  BY <1>2, <1>4 DEF FileOrder
-----------------------------------------------------------------------------
(* Rows in the order of time.                                               *)

\* No event is later than what can be shown (IterateNode).
Before2038 == Horizon \in Nat /\ MaxTime <= Horizon

InTime(a, b) == a = 0 \/ b = 0 \/ a <= b
RowsInTime ==
  \A i, j \in DOMAIN rows : i <= j =>
    \A k \in DOMAIN rows[i].events, l \in DOMAIN rows[j].events :
      InTime(rows[i].events[k].at, rows[j].events[l].at)
\* What is left to show is not earlier than what was shown.
LeftInTime ==
  \A i \in DOMAIN rows : \A k \in DOMAIN rows[i].events :
    \A l \in DOMAIN tl : \A j \in DOMAIN tl[l] : InTime(rows[i].events[k].at, tl[l][j].date)
LeftTimed == \A k \in DOMAIN tl : Timed(tl[k])
SaidInTurn ==
  \A k \in DOMAIN tl : \A i \in 1..Len(ShownRows(k)) : ShownRows(k)[i].events[k] = Said(report[k][i])
ShowOrder == RowsInTime /\ LeftInTime /\ LeftTimed /\ SaidInTurn

\* The first event of a column has its first time or none.
LEMMA FirstIs ==
  ASSUME NEW s, Timed(s), s # <<>>
  PROVE  s[1].date \in {0, FirstTime(s)} /\ 1 \in DOMAIN s /\ Said(s[1]).at = s[1].date
<1>1. DOMAIN s = 1..Len(s) /\ Len(s) \in Nat /\ Len(s) # 0
  BY SeqFacts DEF Timed
<1>2. PICK f : f = FirstTime(s)
  OBVIOUS
<1>3. /\ f \in 0..MaxTime /\ (f # 0 => \E i \in DOMAIN s : s[i].date = f)
      /\ \A i \in DOMAIN s : s[i].date # 0 => f # 0 /\ f <= s[i].date
  BY <1>2, TimesAre
<1>4. 1 \in DOMAIN s /\ Stored(s[1])
  BY <1>1 DEF Timed
<1>5. s[1].date \in 0..MaxTime /\ MaxTime \in Nat
  BY <1>4, TimeIsNat DEF Stored
<1>6. ASSUME s[1].date # 0 PROVE s[1].date = f
  <2>1. f # 0 /\ f <= s[1].date
    BY <1>3, <1>4, <1>6
  <2>2. PICK i \in DOMAIN s : s[i].date = f
    BY <1>3, <2>1
  <2>3. CASE i = 1
    BY <2>2, <2>3
  <2>4. CASE i # 1
    <3>1. 1 < i
      BY <1>1, <2>4
    <3>2. NoLater(s[1], s[i])
      BY <1>4, <3>1 DEF Timed, InOrder
    <3>3. s[1].date <= f
      BY <1>6, <2>1, <2>2, <3>2 DEF NoLater
    <3> QED
      BY <1>3, <1>5, <2>1, <3>3
  <2> QED
    BY <2>3, <2>4
<1>7. Said(s[1]).at = s[1].date
  BY <1>4, StoredDated DEF Said
<1> QED
  BY <1>2, <1>4, <1>6, <1>7

\* The next row: its events have one time or none, and nothing left is earlier.
LEMMA NextRow ==
  ASSUME LeftTimed, Before2038, NEW next, next = IterateNode(tl)
  PROVE  /\ \A k \in next : k \in DOMAIN tl /\ tl[k] # <<>>
         /\ next = {} => \A k \in DOMAIN tl : tl[k] = <<>>
         /\ \E t \in Nat :
              /\ \A k \in next : tl[k][1].date \in {0, t}
              /\ t # 0 => \A l \in DOMAIN tl : \A j \in DOMAIN tl[l] : tl[l][j].date = 0 \/ t <= tl[l][j].date
<1> DEFINE live == {k \in DOMAIN tl : tl[k] # <<>>}
           T == {FirstTime(tl[k]) : k \in live}
<1>1. PICK t : t = Min(T)
  OBVIOUS
<1>2. next = IF live = {} \/ t > Horizon THEN {} ELSE {k \in live : FirstTime(tl[k]) = t}
  BY <1>1 DEF IterateNode
<1>3. \A k \in live : FirstTime(tl[k]) \in 0..MaxTime
  BY TimesAre DEF LeftTimed
<1>4. T \in SUBSET Nat /\ \A x \in T : x <= MaxTime
  BY <1>3, TimeIsNat
<1>5. CASE live = {}
  <2>1. next = {} /\ \A k \in DOMAIN tl : tl[k] = <<>>
    BY <1>2, <1>5
  <2> QED
    BY <2>1
<1>6. CASE live # {}
  <2>1. T # {}
    BY <1>6
  <2>2. \A k \in live : FirstTime(tl[k]) \in T
    OBVIOUS
  <2>3. \A x \in T : \E k \in live : x = FirstTime(tl[k])
    OBVIOUS
  <2> HIDE DEF T
  <2>4. t \in T /\ \A x \in T : t <= x
    BY <1>1, <1>4, <2>1, MinNumber
  <2>5. t \in Nat /\ ~(t > Horizon)
    BY <1>4, <2>4, TimeIsNat DEF Before2038
  <2>6. next = {k \in live : FirstTime(tl[k]) = t} /\ next # {}
    BY <1>2, <1>6, <2>3, <2>4, <2>5
  <2>7. ASSUME NEW k \in next PROVE k \in DOMAIN tl /\ tl[k] # <<>> /\ tl[k][1].date \in {0, t}
    <3>1. k \in DOMAIN tl /\ tl[k] # <<>> /\ FirstTime(tl[k]) = t /\ Timed(tl[k])
      BY <2>6 DEF LeftTimed
    <3> QED
      BY <3>1, FirstIs
  <2>8. ASSUME t # 0, NEW l \in DOMAIN tl, NEW j \in DOMAIN tl[l], tl[l][j].date # 0
        PROVE  t <= tl[l][j].date
    <3>1. Timed(tl[l])
      BY DEF LeftTimed
    <3>2. PICK f : f = FirstTime(tl[l])
      OBVIOUS
    <3>3. f <= tl[l][j].date /\ f \in 0..MaxTime
      BY <2>8, <3>1, <3>2, TimesAre
    <3>4. tl[l] # <<>>
      <4>1. DOMAIN <<>> = {}
        OBVIOUS
      <4> QED
        BY <4>1
    <3>5. t <= f
      BY <2>2, <2>4, <3>2, <3>4
    <3>6. tl[l][j].date \in 0..MaxTime /\ MaxTime \in Nat
      BY <3>1, TimeIsNat DEF Timed, Stored
    <3> QED
      BY <2>5, <3>3, <3>5, <3>6
  <2> QED
    BY <2>5, <2>6, <2>7, <2>8
<1> QED
  BY <1>5, <1>6

LEMMA TimedTail ==
  ASSUME NEW s, Timed(s), s # <<>>
  PROVE  Timed(Tail(s)) /\ \A j \in DOMAIN Tail(s) : \E i \in DOMAIN s : Tail(s)[j] = s[i]
<1>1. IsSeq(s) /\ DOMAIN s = 1..Len(s) /\ Len(s) \in Nat /\ Len(s) # 0
  BY SeqFacts DEF Timed
<1>2. Tail(s) = SubSeq(s, 2, Len(s))
  BY <1>1 DEF IsSeq
<1>3. 2 \in 1..(Len(s) + 1) /\ Len(s) - 1 = Len(s) - 2 + 1
  BY <1>1
<1> DEFINE n == Len(s) - 1  r == SubSeq(s, 2, Len(s))
<1>4. Timed(r)
  BY <1>3, TimedPart
<1>5. IsSeq(r) /\ Len(r) = n /\ n \in Nat /\ \A j \in 1..n : r[j] = s[2 + j - 1]
  BY <1>1, <1>3, Part
<1> HIDE DEF r
<1>6. ASSUME NEW j \in DOMAIN r PROVE \E i \in DOMAIN s : r[j] = s[i]
  <2>1. j \in 1..n
    BY <1>5, SeqFacts
  <2>2. 2 + j - 1 \in DOMAIN s
    BY <1>1, <1>5, <2>1
  <2> QED
    BY <1>5, <2>1, <2>2
<1> QED
  BY <1>2, <1>4, <1>6 DEF r

LEMMA RowInOrder ==
  ASSUME ShowInv, ShowOrder, Row, Before2038
  PROVE  ShowOrder'
<1>1. PICK next : next = IterateNode(tl)
  OBVIOUS
<1>2. PICK row : row = RowOf(next)
  OBVIOUS
<1>3. RowsInTime /\ LeftInTime /\ LeftTimed /\ SaidInTurn /\ IsSeq(rows)
  BY DEF ShowOrder, ShowInv
<1>4. report' = report /\ tl' = [k \in DOMAIN tl |-> IF k \in next THEN Tail(tl[k]) ELSE tl[k]]
  BY <1>1 DEF Row
<1>5. PICK n : n = Len(rows)
  OBVIOUS
<1>6. /\ n \in Nat /\ DOMAIN rows = 1..n /\ DOMAIN rows' = 1..(n + 1) /\ rows'[n + 1] = row
      /\ \A i \in 1..n : rows'[i] = rows[i]
      /\ \A k : /\ IsSeq(ShownRows(k))
                /\ ShownRows(k)' = IF k \in next THEN Append(ShownRows(k), row) ELSE ShownRows(k)
  BY <1>1, <1>2, <1>3, <1>5, RowAdded
<1>7. PICK t \in Nat :
        /\ \A k \in next : k \in DOMAIN tl /\ tl[k] # <<>> /\ tl[k][1].date \in {0, t}
        /\ t # 0 => \A l \in DOMAIN tl : \A j \in DOMAIN tl[l] : tl[l][j].date = 0 \/ t <= tl[l][j].date
  BY <1>1, <1>3, NextRow
<1>8. DOMAIN row.events = next /\ \A k \in next : row.events[k] = Said(tl[k][1])
  BY <1>2 DEF RowOf
<1>9. \A k \in next : row.events[k].at = tl[k][1].date /\ row.events[k].at \in {0, t} /\ 1 \in DOMAIN tl[k]
  BY <1>3, <1>7, <1>8, FirstIs DEF LeftTimed
<1>10. DOMAIN tl' = DOMAIN tl /\ \A l \in DOMAIN tl :
         Timed(tl'[l]) /\ \A j \in DOMAIN tl'[l] : \E i \in DOMAIN tl[l] : tl'[l][j] = tl[l][i]
  <2> SUFFICES ASSUME NEW l \in DOMAIN tl
               PROVE Timed(tl'[l]) /\ \A j \in DOMAIN tl'[l] : \E i \in DOMAIN tl[l] : tl'[l][j] = tl[l][i]
    BY <1>4
  <2>1. CASE l \in next
    <3>1. tl'[l] = Tail(tl[l]) /\ Timed(tl[l]) /\ tl[l] # <<>>
      BY <1>3, <1>4, <1>7, <2>1 DEF LeftTimed
    <3> QED
      BY <3>1, TimedTail
  <2>2. CASE l \notin next
    <3>1. tl'[l] = tl[l] /\ Timed(tl[l])
      BY <1>3, <1>4, <2>2 DEF LeftTimed
    <3> QED
      BY <3>1
  <2> QED
    BY <2>1, <2>2
<1>11. LeftTimed'
  BY <1>10 DEF LeftTimed
<1>12. RowsInTime'
  <2> SUFFICES ASSUME NEW i \in 1..(n + 1), NEW j \in 1..(n + 1), i <= j,
                      NEW k \in DOMAIN rows'[i].events, NEW l \in DOMAIN rows'[j].events
               PROVE  InTime(rows'[i].events[k].at, rows'[j].events[l].at)
    BY <1>6 DEF RowsInTime
  <2>1. CASE i # n + 1 /\ j # n + 1
    <3>1. i \in DOMAIN rows /\ j \in DOMAIN rows /\ rows'[i] = rows[i] /\ rows'[j] = rows[j]
      BY <1>6, <2>1
    <3> QED
      BY <1>3, <3>1 DEF RowsInTime
  <2>2. CASE i # n + 1 /\ j = n + 1
    <3>1. i \in DOMAIN rows /\ rows'[i] = rows[i] /\ rows'[j] = row
      BY <1>6, <2>2
    <3>2. l \in next /\ l \in DOMAIN tl /\ 1 \in DOMAIN tl[l] /\ row.events[l].at = tl[l][1].date
      BY <1>7, <1>8, <1>9, <3>1
    <3>3. InTime(rows[i].events[k].at, tl[l][1].date)
      BY <1>3, <3>1, <3>2 DEF LeftInTime
    <3> QED
      BY <3>1, <3>2, <3>3
  <2>3. CASE i = n + 1
    <3>1. j = n + 1
      BY <1>6, <2>3
    <3>2. rows'[i] = row /\ rows'[j] = row
      BY <1>6, <2>3, <3>1
    <3>3. row.events[k].at \in {0, t} /\ row.events[l].at \in {0, t}
      BY <1>8, <1>9, <3>2
    <3> QED
      BY <3>2, <3>3 DEF InTime
  <2> QED
    BY <2>1, <2>2, <2>3
<1>13. LeftInTime'
  <2> SUFFICES ASSUME NEW i \in 1..(n + 1), NEW k \in DOMAIN rows'[i].events,
                      NEW l \in DOMAIN tl, NEW j \in DOMAIN tl'[l]
               PROVE  InTime(rows'[i].events[k].at, tl'[l][j].date)
    BY <1>6, <1>10 DEF LeftInTime
  <2>1. PICK h \in DOMAIN tl[l] : tl'[l][j] = tl[l][h]
    BY <1>10
  <2>2. CASE i # n + 1
    <3>1. i \in DOMAIN rows /\ rows'[i] = rows[i]
      BY <1>6, <2>2
    <3> QED
      BY <1>3, <2>1, <3>1 DEF LeftInTime
  <2>3. CASE i = n + 1
    <3>1. rows'[i] = row /\ row.events[k].at \in {0, t}
      BY <1>6, <1>8, <1>9, <2>3
    <3> QED
      BY <1>7, <2>1, <3>1 DEF InTime
  <2> QED
    BY <2>2, <2>3
<1>14. SaidInTurn'
  <2> SUFFICES ASSUME NEW k \in DOMAIN tl, NEW i \in 1..Len(ShownRows(k)')
               PROVE  ShownRows(k)'[i].events[k] = Said(report[k][i])
    BY <1>4, <1>10 DEF SaidInTurn
  <2>1. PICK s, r : s = ShownRows(k) /\ r = ShownRows(k)'
    OBVIOUS
  <2>2. IsSeq(s) /\ Len(s) \in Nat /\ r = IF k \in next THEN Append(s, row) ELSE s
    BY <1>6, <2>1, SeqFacts
  <2>3. \A h \in 1..Len(s) : s[h].events[k] = Said(report[k][h])
    BY <1>3, <2>1 DEF SaidInTurn
  <2>4. CASE k \notin next
    BY <2>1, <2>2, <2>3, <2>4
  <2>5. CASE k \in next
    <3>1. /\ Len(r) = Len(s) + 1 /\ r[Len(s) + 1] = row /\ \A h \in 1..Len(s) : r[h] = s[h]
      <4>1. s \in Seq(ToSet(s) \cup {row})
        BY <2>2 DEF IsSeq
      <4> QED
        BY <2>2, <2>5, <4>1
    <3>2. Shown(k, Len(s)) /\ tl[k] # <<>>
      BY <1>7, <2>1, <2>5 DEF ShowInv
    <3>3. tl[k][1] = report[k][Len(s) + 1]
      BY <3>2, ShownNext
    <3>4. row.events[k] = Said(report[k][Len(s) + 1])
      BY <1>8, <2>5, <3>3
    <3>5. CASE i = Len(s) + 1
      BY <2>1, <3>1, <3>4, <3>5
    <3>6. CASE i # Len(s) + 1
      <4>1. i \in 1..Len(s)
        BY <2>1, <2>2, <3>1, <3>6
      <4> QED
        BY <2>1, <2>3, <3>1, <4>1
    <3> QED
      BY <3>5, <3>6
  <2> QED
    BY <2>4, <2>5
<1> QED
  BY <1>11, <1>12, <1>13, <1>14 DEF ShowOrder

FilesInOrder ==
  /\ phase \in {"open", "read", "merge", "failed"} => \A k \in DOMAIN tl : TimedColumn(tl[k])
  /\ phase = "read" => FileOrder
  /\ phase = "merge" => Timed(lt)
OrderInv ==
  /\ FilesInOrder
  /\ phase \in {"show", "done"} /\ opts.command = "list" => ShowOrder
  /\ phase = "show" => heads = <<Header(GetLatestContexts(report))>>
  /\ phase = "done" /\ opts.command = "list" =>
       (\A h \in ToSet(heads) : h = heads[1]) /\ \A k \in DOMAIN tl : tl[k] = <<>>

LEMMA HeaderInOrder ==
  ASSUME ListInv, OrderInv, ListHeader
  PROVE  ShowOrder' /\ heads' = <<Header(GetLatestContexts(report'))>>
<1>1. PICK keys : tl' = [k \in keys |-> tl[k]] /\ keys \subseteq DOMAIN tl
  BY DEF ListHeader, RemoveEmptyColumns
<1>2. phase = "open" /\ rows' = rows /\ report' = tl' /\ heads' = <<Header(GetLatestContexts(tl'))>>
  BY DEF ListHeader, Command
<1>3. rows' = <<>> /\ DOMAIN <<>> = {} /\ \A k \in DOMAIN tl : TimedColumn(tl[k])
  BY <1>2 DEF ListInv, OrderInv, FilesInOrder, Unshown
<1>4. \A k : ShownRows(k)' = <<>>
  BY <1>3, NothingPicked DEF ShownRows
<1>5. Len(<<>>) = 0 /\ 1..0 = {}
  OBVIOUS
<1>6. SaidInTurn'
  BY <1>4, <1>5 DEF SaidInTurn
<1>7. RowsInTime' /\ LeftInTime'
  BY <1>3 DEF RowsInTime, LeftInTime
<1>8. LeftTimed'
  BY <1>1, <1>3 DEF LeftTimed, TimedColumn
<1> QED
  BY <1>2, <1>6, <1>7, <1>8 DEF ShowOrder

\* A column of which nothing is left has been shown to its end.
LEMMA AllShown ==
  ASSUME NEW k, NEW c, Shown(k, c), tl[k] = <<>>
  PROVE  c = Len(report[k]) /\ current[k] = Last(report[k]).ctx
<1>1. PICK s : s = report[k]
  OBVIOUS
<1>2. IsSeq(s) /\ s # <<>> /\ c \in 0..Len(s) /\ SubSeq(s, c + 1, Len(s)) = <<>>
      /\ current[k] = s[IF c = 0 THEN 1 ELSE c].ctx
  BY <1>1 DEF Shown, Column
<1>3. Len(s) \in Nat /\ Len(s) # 0
  BY <1>2, SeqFacts
<1>4. c + 1 \in 1..(Len(s) + 1) /\ Len(s) - c = Len(s) - (c + 1) + 1
  BY <1>2, <1>3
<1>5. Len(SubSeq(s, c + 1, Len(s))) = Len(s) - c
  BY <1>2, <1>4, Part
<1>6. c = Len(s)
  <2>1. Len(<<>>) = 0
    OBVIOUS
  <2>2. PICK n \in Nat : n = Len(s)
    BY <1>3
  <2>3. c \in 0..n /\ n - c = 0
    BY <1>2, <1>5, <2>1, <2>2
  <2> QED
    BY <2>2, <2>3
<1> QED
  BY <1>1, <1>2, <1>3, <1>6 DEF Last

LEMMA FooterInOrder ==
  ASSUME ListInv, OrderInv, Footer, Before2038
  PROVE  (\A h \in ToSet(heads') : h = heads'[1]) /\ \A k \in DOMAIN tl : tl[k] = <<>>
<1>1. /\ phase = "show" /\ IterateNode(tl) = {}
      /\ heads' = heads \/ heads' = Append(heads, Header(current))
  BY DEF Footer
<1>2. ShowInv /\ ShowOrder /\ heads = <<Header(GetLatestContexts(report))>>
  BY <1>1 DEF ListInv, OrderInv
<1>3. \A k \in DOMAIN tl : tl[k] = <<>>
  BY <1>1, <1>2, NextRow DEF ShowOrder
<1>4. \A k \in DOMAIN tl : current[k] = Last(report[k]).ctx
  BY <1>2, <1>3, AllShown DEF ShowInv
<1>5. PICK x, y : x = Header(current) /\ y = Header(GetLatestContexts(report))
  OBVIOUS
<1>6. x = y
  <2>1. PICK g : g = GetLatestContexts(report)
    OBVIOUS
  <2>2. DOMAIN g = DOMAIN tl /\ DOMAIN current = DOMAIN tl /\ \A k \in DOMAIN tl : g[k] = current[k]
    BY <1>2, <1>4, <2>1 DEF GetLatestContexts, ShowInv
  <2> QED
    BY <1>5, <2>1, <2>2 DEF Header
<1>7. heads' \in {<<y>>, <<y, y>>}
  BY <1>1, <1>2, <1>5, <1>6
<1>8. \A h \in ToSet(heads') : h = heads'[1]
  BY <1>7 DEF ToSet
<1> QED
  BY <1>3, <1>8

LEMMA OrderStart == Init => OrderInv
<1> SUFFICES ASSUME Init PROVE OrderInv
  OBVIOUS
<1>1. phase = "open" /\ tl = EmptyMap /\ DOMAIN EmptyMap = {}
  BY DEF Init, EmptyMap
<1> QED
  BY <1>1 DEF OrderInv, FilesInOrder

LEMMA FilesStep ==
  ASSUME OneFileEach
  PROVE  ReadInv /\ FilesInOrder /\ [Next]_vars => FilesInOrder'
<1> SUFFICES ASSUME ReadInv, FilesInOrder, [Next]_vars PROVE FilesInOrder'
  OBVIOUS
<1> USE DEF printed, reading
<1>1. CASE BadPath \/ NothingFound
  <2>1. phase = "open" /\ phase' = "failed" /\ UNCHANGED tl
    BY <1>1 DEF BadPath, NothingFound, Fail
  <2> QED
    BY <2>1 DEF FilesInOrder
<1>2. CASE Open
  <2>1. phase = "open" /\ phase' = "read" /\ UNCHANGED tl
    BY <1>2 DEF Open
  <2>2. FileOrder'
    BY <1>2, OpenOrder
  <2> QED
    BY <2>1, <2>2 DEF FilesInOrder
<1>3. CASE ReadLine
  <2>1. phase = "read" /\ phase' \in {"read", "merge"} /\ UNCHANGED tl
    BY <1>3 DEF ReadLine
  <2>2. FileOrder' /\ Timed(lt')
    BY <1>3, <2>1, ReadLineOrder DEF FilesInOrder
  <2> QED
    BY <2>1, <2>2 DEF FilesInOrder
<1>4. CASE EndOfFile
  <2>1. phase = "read" /\ phase' = "merge" /\ UNCHANGED <<tl, lt>>
    BY <1>4 DEF EndOfFile
  <2>2. Timed(lt)
    BY <2>1 DEF FilesInOrder, FileOrder, Found
  <2> QED
    BY <2>1, <2>2 DEF FilesInOrder
<1>5. CASE Merge
  <2>1. phase = "merge" /\ phase' = "open" /\ tl' \in Merged
    BY <1>5 DEF Merge
  <2>2. lt # <<>> => TimedColumn(lt)
    BY <2>1 DEF FilesInOrder, TimedColumn
  <2>3. \A k \in DOMAIN tl : TimedColumn(tl[k])
    BY <2>1 DEF FilesInOrder
  <2>4. PICK t : t = tl'
    OBVIOUS
  <2>5. \A k \in DOMAIN t : TimedColumn(t[k])
    BY <2>1, <2>2, <2>3, <2>4, MergedTimed
  <2> QED
    BY <2>1, <2>4, <2>5 DEF FilesInOrder
<1>6. CASE Conflicts \/ Ctx \/ ListHeader \/ Row \/ Footer
  <2>1. phase' \in {"done", "show"}
    BY <1>6 DEF Conflicts, Ctx, ListHeader, Row, Footer
  <2> QED
    BY <2>1 DEF FilesInOrder
<1>7. CASE UNCHANGED vars
  <2>1. UNCHANGED <<held, phase, todo, pos, m, lt, tl>>
    BY <1>7 DEF vars
  <2>2. FileOrder => FileOrder'
    BY <2>1 DEF FileOrder, TimesAfter, Lines, LineAt, Path
  <2> QED
    BY <2>1, <2>2 DEF FilesInOrder
<1> QED
  BY <1>1, <1>2, <1>3, <1>4, <1>5, <1>6, <1>7 DEF Next, Reading, Showing

LEMMA OrderStep ==
  ASSUME Before2038, OneFileEach
  PROVE  ReadInv /\ ListInv /\ OrderInv /\ [Next]_vars => OrderInv'
<1> SUFFICES ASSUME ReadInv, ListInv, OrderInv, [Next]_vars PROVE OrderInv'
  OBVIOUS
<1> USE DEF printed, reading
<1>0. FilesInOrder'
  BY FilesStep DEF OrderInv
<1>1. CASE Reading \/ NothingFound
  <2>1. phase' \notin {"show", "done"}
    BY <1>1 DEF Reading, BadPath, NothingFound, Fail, Open, ReadLine, EndOfFile, Merge
  <2> QED
    BY <1>0, <2>1 DEF OrderInv
<1>2. CASE Conflicts \/ Ctx
  <2>1. phase' = "done" /\ opts'.command # "list"
    BY <1>2 DEF Conflicts, Ctx, Command
  <2> QED
    BY <1>0, <2>1 DEF OrderInv
<1>3. CASE ListHeader
  <2>1. phase' = "show"
    BY <1>3 DEF ListHeader
  <2>2. ShowOrder' /\ heads' = <<Header(GetLatestContexts(report'))>>
    BY <1>3, HeaderInOrder
  <2> QED
    BY <1>0, <2>1, <2>2 DEF OrderInv
<1>4. CASE Row
  <2>1. phase = "show" /\ UNCHANGED <<phase, heads, report>>
    BY <1>4 DEF Row
  <2>2. ShowInv /\ ShowOrder /\ heads = <<Header(GetLatestContexts(report))>>
    BY <2>1 DEF ListInv, OrderInv
  <2>3. ShowOrder'
    BY <1>4, <2>2, RowInOrder
  <2> QED
    BY <1>0, <2>1, <2>2, <2>3 DEF OrderInv
<1>5. CASE Footer
  <2>1. phase = "show" /\ phase' = "done" /\ UNCHANGED <<rows, tl, report, opts>>
    BY <1>5 DEF Footer
  <2>2. ShowOrder
    BY <2>1 DEF ListInv, OrderInv
  <2>3. ShowOrder'
    BY <2>1, <2>2 DEF ShowOrder, RowsInTime, LeftInTime, LeftTimed, SaidInTurn, ShownRows
  <2>4. (\A h \in ToSet(heads') : h = heads'[1]) /\ \A k \in DOMAIN tl : tl[k] = <<>>
    BY <1>5, FooterInOrder
  <2> QED
    BY <1>0, <2>1, <2>3, <2>4 DEF OrderInv
<1>6. CASE UNCHANGED vars
  <2>1. UNCHANGED <<opts, phase, tl, rows, report, heads>>
    BY <1>6 DEF vars
  <2>2. ShowOrder => ShowOrder'
    BY <2>1 DEF ShowOrder, RowsInTime, LeftInTime, LeftTimed, SaidInTurn, ShownRows
  <2> QED
    BY <1>0, <2>1, <2>2 DEF OrderInv
<1> QED
  BY <1>1, <1>2, <1>3, <1>4, <1>5, <1>6 DEF Next, Showing

LEMMA OrderInvHolds ==
  ASSUME Before2038, OneFileEach
  PROVE  Spec => [](ReadInv /\ ListInv /\ OrderInv)
<1>1. ReadInv /\ ListInv /\ OrderInv /\ [Next]_vars => OrderInv'
  BY OrderStep
<1> QED
  BY <1>1, ReadStart, ReadStep, ListStart, ListStep, OrderStart, PTL DEF Spec

\* For any logs, columns and levels: each event of each column is shown once, in
\* the column's order, rows follow each other in time, and the footer is the header.
THEOREM ShownOnceInOrderTheorem ==
  ASSUME Before2038, OneFileEach
  PROVE  Spec => []ShownOnceInOrder
<1>1. ASSUME ListInv, OrderInv PROVE ShownOnceInOrder
  <2>1. ASSUME phase = "done", opts.command = "list", NEW k \in DOMAIN report
        PROVE  ShownOf(k) = [i \in DOMAIN report[k] |-> Said(report[k][i])]
    <3>1. ShowInv /\ ShowOrder /\ \A j \in DOMAIN tl : tl[j] = <<>>
      BY <1>1, <2>1 DEF ListInv, OrderInv
    <3>2. PICK s : s = ShownRows(k)
      OBVIOUS
    <3>3. k \in DOMAIN tl /\ Shown(k, Len(s)) /\ IsSeq(rows)
      BY <3>1, <3>2, <2>1 DEF ShowInv
    <3>4. IsSeq(s)
      BY <3>2, <3>3, PickOneMore DEF ShownRows
    <3>5. Len(s) = Len(report[k])
      BY <3>1, <3>3, AllShown
    <3>6. DOMAIN s = 1..Len(s)
      BY <3>4, SeqFacts
    <3>7. DOMAIN report[k] = 1..Len(report[k])
      BY <3>3, SeqFacts DEF Shown, Column
    <3>8. \A i \in 1..Len(s) : s[i].events[k] = Said(report[k][i])
      BY <3>1, <3>2, <3>3 DEF ShowOrder, SaidInTurn
    <3>9. ShownOf(k) = [i \in DOMAIN s |-> s[i].events[k]]
      BY <3>2 DEF ShownOf, ShownRows
    <3> QED
      BY <3>5, <3>6, <3>7, <3>8, <3>9
  <2>2. phase = "done" /\ opts.command = "list" => \A h \in ToSet(heads) : h = heads[1]
    BY <1>1 DEF OrderInv
  <2>3. RowsInTime
    <3>1. CASE phase \in {"show", "done"} /\ opts.command = "list"
      BY <1>1, <3>1 DEF OrderInv, ShowOrder
    <3>2. CASE ~(phase \in {"show", "done"} /\ opts.command = "list")
      <4>1. rows = <<>> /\ DOMAIN <<>> = {}
        BY <1>1, <3>2 DEF ListInv, Unshown
      <4> QED
        BY <4>1 DEF RowsInTime
    <3> QED
      BY <3>1, <3>2
  <2> QED
    BY <2>1, <2>2, <2>3 DEF ShownOnceInOrder, RowsInTime, InTime
<1> QED
  BY <1>1, OrderInvHolds, PTL
-----------------------------------------------------------------------------
(* Two pieces of one log.                                                   *)

\* x is of a line of the file p.
OfFile(x, p) == /\ x.ctx.path = p
                /\ \E j \in Lines(p) : x.id = LineAt(p, j).id /\ x.date = LineAt(p, j).date
FromFile(s, p) == FoundInfos(s) /\ \A i \in DOMAIN s : OfFile(s[i], p)
ReadFrom(s, p) == Ready(s.m) /\ s.m.ctx.path = p /\ FromFile(s.lt, p)

LEMMA AddedFrom ==
  ASSUME NEW p, NEW s, FromFile(s, p), NEW li, FoundInfo(li), OfFile(li, p)
  PROVE  FromFile(AddEvent(s, li), p)
<1> DEFINE t == AddEvent(s, li)
<1>1. FoundInfos(s) /\ \A i \in DOMAIN s : OfFile(s[i], p)
  BY DEF FromFile
<1>2. CASE t = Append(s, li)
  <2>1. /\ FoundInfos(t) /\ DOMAIN s = 1..Len(s) /\ DOMAIN t = 1..(Len(s) + 1) /\ Len(s) \in Nat
        /\ t[Len(s) + 1] = li /\ \A i \in 1..Len(s) : t[i] = s[i]
    BY <1>1, <1>2, AppendEvents
  <2> HIDE DEF t
  <2>2. \A i \in DOMAIN t : t[i] = li \/ (i \in DOMAIN s /\ t[i] = s[i])
    BY <2>1
  <2> QED
    BY <1>1, <2>1, <2>2 DEF FromFile, t
<1>3. CASE t # Append(s, li)
  <2>1. PICK n \in Nat : \E y :
          /\ n > 1 /\ n = Len(s) /\ FoundInfo(y) /\ y.rep = s[n - 1].rep + 1
          /\ y.id = s[n - 1].id /\ y.date = s[n - 1].date /\ y.ctx = s[n - 1].ctx
          /\ t = [i \in 1..n |-> IF i = n THEN li ELSE IF i = n - 1 THEN y ELSE s[i]]
    BY <1>1, <1>3, AddEventCases
  <2>2. PICK y :
          /\ n > 1 /\ n = Len(s) /\ FoundInfo(y)
          /\ y.id = s[n - 1].id /\ y.date = s[n - 1].date /\ y.ctx = s[n - 1].ctx
          /\ t = [i \in 1..n |-> IF i = n THEN li ELSE IF i = n - 1 THEN y ELSE s[i]]
    BY <2>1
  <2> HIDE DEF t
  <2>3. DOMAIN s = 1..n /\ DOMAIN t = 1..n /\ n - 1 \in 1..n /\ t = [i \in 1..n |-> t[i]]
    BY <1>1, <2>2 DEF FoundInfos
  <2>4. IsSeq(t)
    BY <2>3, SeqOfItsOwn DEF IsSeq
  <2>5. OfFile(y, p)
    <3>1. OfFile(s[n - 1], p)
      BY <1>1, <2>3
    <3> QED
      BY <2>2, <3>1 DEF OfFile
  <2>6. \A i \in 1..n : t[i] = li \/ t[i] = y \/ t[i] = s[i]
    BY <2>2
  <2>7. \A i \in 1..n : FoundInfo(t[i]) /\ OfFile(t[i], p)
    BY <1>1, <2>2, <2>3, <2>5, <2>6 DEF FoundInfos
  <2> QED
    BY <2>3, <2>4, <2>7 DEF FromFile, FoundInfos, IsSeq, t
<1> QED
  BY <1>2, <1>3

LEMMA LineWellMade ==
  ASSUME Run(opts, held), NEW p \in ToSet(Paths), NEW k \in Lines(p)
  PROVE  IsFiniteSet(LineAt(p, k).es) /\ \A e \in LineAt(p, k).es : WellMade(e)
<1> DEFINE n == NodeOf[p]  log == History[n]
<1>1. n \in DOMAIN History /\ held[p] \in (DOMAIN log) \X (DOMAIN log)
  BY PathsAssumption DEF Run
<1>2. log \in Seq(ToSet(log)) /\ DOMAIN log = 1..Len(log) /\ Len(log) \in Nat
  BY <1>1, HistoryAssumption
<1>3. held[p][1] \in 1..Len(log) /\ held[p][2] \in 1..Len(log)
  BY <1>1, <1>2
<1>4. k \in DOMAIN log /\ LineAt(p, k) = log[k]
  BY <1>2, <1>3 DEF Lines, LineAt
<1> QED
  BY <1>1, <1>4, HistoryAssumption DEF WellMade, IsSeq

LEMMA OneFrom ==
  ASSUME NEW p, NEW s, ReadFrom(s, p), NEW k \in Lines(p), NEW line, line = LineAt(p, k),
         NEW e, WellMade(e), NEW ts, NEW x \in HandleEvent(s, line, e, ts)
  PROVE  ReadFrom(x, p)
<1>1. PICK f : f = Put(Put(e, "ftype", FileType(line)), "ts", ts)
  OBVIOUS
<1>2. PICK y : y = [s.m EXCEPT !.ctx.ftype = FileType(line)]
  OBVIOUS
<1>3. PICK r \in HandleAt(y, f, SetVerbosity(e.re)) :
        x = [m |-> r, lt |-> AddEvent(s.lt, LogInfo(line.id, line.date, e, SetVerbosity(e.re), r.ctx))]
  BY <1>1, <1>2 DEF HandleEvent
<1>4. Ready(y) /\ y.ctx.path = p
  BY <1>2 DEF ReadFrom, Ready
<1>5. f.ftype = FileType(line) /\ f.re = e.re /\ ("assocs" \in DOMAIN e => f.assocs = e.assocs)
  BY <1>1 DEF Put, WellMade
<1>6. r.ctx.path = p /\ Ready(r)
  <2>1. f.re = "RegexOperatorMemberAssociations" => IsSeq(f.assocs)
    BY <1>5 DEF WellMade
  <2>2. PICK ft : ft = [type |-> FileType(line), path |-> p]
    OBVIOUS
  <2>3. FineM(r, ft)
    BY <1>3, <1>4, <1>5, <2>1, <2>2, HandledFine DEF Ready
  <2> QED
    BY <2>2, <2>3 DEF FineM, Fine, Ready
<1>7. PICK li : li = LogInfo(line.id, line.date, e, SetVerbosity(e.re), r.ctx)
  OBVIOUS
<1>8. FoundInfo(li) /\ OfFile(li, p)
  BY <1>6, <1>7 DEF LogInfo, FoundInfo, OfFile
<1>9. FromFile(AddEvent(s.lt, li), p)
  BY <1>8, AddedFrom DEF ReadFrom
<1> QED
  BY <1>3, <1>6, <1>7, <1>9 DEF ReadFrom

LEMMA LineFrom ==
  ASSUME NEW p, Ready(m), m.ctx.path = p, FromFile(lt, p), NEW k \in Lines(p), NEW line, line = LineAt(p, k),
         IsFiniteSet(line.es), \A e \in line.es : WellMade(e), NEW ts, NEW x \in HandleMatches(line, ts)
  PROVE  ReadFrom(x, p)
<1>1. PICK order \in SetToSeqs(Matching(line)) : x \in HandleInOrder(line, order, ts)
  BY DEF HandleMatches
<1>2. IsFiniteSet(Matching(line)) /\ Matching(line) \subseteq line.es
  BY FS_Subset DEF Matching
<1>3. order \in Seq(Matching(line))
  BY <1>2, AllListed
<1>4. PICK a : After(line, order, ts, a) /\ HandleInOrder(line, order, ts) = a[Len(order)]
  BY <1>3, HandledInTurn
<1>5. PICK n : n = Len(order)
  OBVIOUS
<1>6. n \in Nat /\ \A i \in 1..n : WellMade(order[i])
  BY <1>2, <1>3, <1>5
<1>7. \A i \in 0..n : \A y \in a[i] : ReadFrom(y, p)
  <2> DEFINE T == {i \in 0..n : \E y \in a[i] : ~ReadFrom(y, p)}
  <2> SUFFICES ASSUME T # {} PROVE FALSE
    OBVIOUS
  <2>0. T \in SUBSET Nat /\ \A i \in T : i \in 0..n
    BY <1>6
  <2>1. PICK i \in T : \A j \in T : i <= j
    <3> HIDE DEF T
    <3> QED
      BY <2>0, LeastNumber
  <2>2. PICK y \in a[i] : ~ReadFrom(y, p)
    BY <2>1
  <2>3. CASE i = 0
    <3>1. y = [m |-> m, lt |-> lt]
      BY <1>4, <2>2, <2>3 DEF After
    <3> QED
      BY <2>2, <3>1 DEF ReadFrom
  <2>4. CASE i # 0
    <3>1. i \in 1..n /\ i - 1 \in 0..n /\ i - 1 \notin T
      <4> HIDE DEF T
      <4>1. i \in 1..n /\ i - 1 \in 0..n /\ ~(i <= i - 1)
        BY <1>6, <2>0, <2>1, <2>4
      <4> QED
        BY <2>1, <4>1
    <3>2. PICK s \in a[i - 1] : y \in HandleEvent(s, line, order[i], ts)
      BY <1>4, <1>5, <2>2, <3>1 DEF After, Turn
    <3>3. ReadFrom(s, p)
      BY <3>1, <3>2
    <3> HIDE DEF T
    <3> QED
      BY <1>6, <2>2, <3>1, <3>2, <3>3, OneFrom
  <2> QED
    BY <2>3, <2>4
<1>8. n \in 0..n /\ x \in a[n]
  BY <1>1, <1>4, <1>5, <1>6
<1> QED
  BY <1>7, <1>8

FileFrom == phase \in {"read", "merge"} => ReadFrom([m |-> m, lt |-> lt], Path)

LEMMA SameFrom ==
  ASSUME UNCHANGED held, NEW s, NEW p, ReadFrom(s, p)
  PROVE  ReadFrom(s, p)'
BY DEF ReadFrom, FromFile, OfFile, Lines, LineAt

LEMMA FromStep == ReadInv /\ FileFrom /\ [Next]_vars => FileFrom'
<1> SUFFICES ASSUME ReadInv, FileFrom, [Next]_vars PROVE FileFrom'
  OBVIOUS
<1> USE DEF printed, reading
<1>0. PICK s, t : s = [m |-> m, lt |-> lt] /\ t = [m |-> m', lt |-> lt']
  OBVIOUS
<1>1. CASE Open
  <2>1. lt' = <<>> /\ m' = NoContext(Path) /\ UNCHANGED <<todo, held>>
    BY <1>1 DEF Open
  <2>2. Ready(m') /\ m'.ctx.path = Path
    <3>1. DOMAIN EmptyMap = {} /\ IsFiniteSet({})
      BY FS_EmptySet DEF EmptyMap
    <3>2. m'.ctx = NewLogCtx(Path) /\ "ctx" \in DOMAIN m'
      BY <2>1 DEF NoContext
    <3>3. /\ {"path", "ftype", "ssts"} \subseteq DOMAIN NewLogCtx(Path)
          /\ NewLogCtx(Path).ssts = EmptyMap /\ NewLogCtx(Path).path = Path
      BY DEF NewLogCtx
    <3> QED
      BY <3>1, <3>2, <3>3 DEF Ready
  <2>3. PICK p : p = Path
    OBVIOUS
  <2>4. FromFile(<<>>, p)'
    <3>1. IsSeq(<<>>) /\ DOMAIN <<>> = {}
      BY DEF IsSeq
    <3> QED
      BY <3>1 DEF FromFile, FoundInfos, IsSeq
  <2>5. ReadFrom(t, p)'
    BY <1>0, <2>1, <2>2, <2>3, <2>4 DEF ReadFrom
  <2>6. Path' = p
    BY <2>1, <2>3 DEF Path
  <2> QED
    BY <1>0, <2>5, <2>6 DEF FileFrom
<1>2. CASE ReadLine
  <2>1. /\ Run(opts, held) /\ phase = "read" /\ FileRead /\ UNCHANGED <<opts, held, todo>>
        /\ todo \in Seq(ToSet(Paths))
    BY <1>2 DEF ReadInv, ReadLine
  <2>2. PICK p \in ToSet(Paths) : p = Path
    BY <2>1 DEF FileRead, Path
  <2>3. PICK k, n, u : k = pos' /\ n = pos /\ u = stamp'
    OBVIOUS
  <2>4. n \in {0} \cup Scanned(p) /\ ReadFrom(s, p)
    BY <1>0, <2>1, <2>2, <2>3 DEF FileRead, FileFrom
  <2>5. /\ {i \in Scanned(p) : i > n} # {} /\ k = Min({i \in Scanned(p) : i > n})
        /\ \/ UNCHANGED <<m, lt>>
           \/ \E x \in HandleMatches(LineAt(p, k), u) : m' = x.m /\ lt' = x.lt
    BY <1>2, <2>2, <2>3 DEF ReadLine, Ahead
  <2>6. k \in Lines(p)
    <3>1. k \in Scanned(p)
      BY <2>1, <2>4, <2>5, NextLine
    <3> QED
      BY <3>1, ScannedLines
  <2>7. ReadFrom(t, p)
    <3>1. CASE UNCHANGED <<m, lt>>
      BY <1>0, <2>4, <3>1
    <3>2. CASE \E x \in HandleMatches(LineAt(p, k), u) : m' = x.m /\ lt' = x.lt
      <4>1. PICK x \in HandleMatches(LineAt(p, k), u) : m' = x.m /\ lt' = x.lt
        BY <3>2
      <4>2. IsFiniteSet(LineAt(p, k).es) /\ \A e \in LineAt(p, k).es : WellMade(e)
        BY <2>1, <2>6, LineWellMade
      <4>3. Ready(m) /\ m.ctx.path = p /\ FromFile(lt, p)
        BY <1>0, <2>4 DEF ReadFrom
      <4>4. ReadFrom(x, p)
        BY <2>6, <4>1, <4>2, <4>3, LineFrom
      <4> QED
        BY <1>0, <4>1, <4>4 DEF ReadFrom
    <3> QED
      BY <2>5, <3>1, <3>2
  <2>8. ReadFrom(t, p)' /\ Path' = p
    BY <2>1, <2>2, <2>7, SameFrom DEF Path
  <2> QED
    BY <1>0, <2>8 DEF FileFrom
<1>3. CASE EndOfFile \/ UNCHANGED vars
  <2>1. /\ UNCHANGED <<held, todo, m, lt>>
        /\ phase' \in {"read", "merge"} => phase \in {"read", "merge"}
    BY <1>3 DEF EndOfFile, vars
  <2>2. Path' = Path /\ s = t
    BY <1>0, <2>1 DEF Path
  <2>3. PICK p : p = Path
    OBVIOUS
  <2>4. phase \in {"read", "merge"} => ReadFrom(s, p)
    BY <1>0, <2>3 DEF FileFrom
  <2>5. phase \in {"read", "merge"} => ReadFrom(s, p)'
    BY <2>1, <2>4, SameFrom
  <2> QED
    BY <1>0, <2>1, <2>2, <2>3, <2>5 DEF FileFrom
<1>4. CASE BadPath \/ Merge \/ Showing
  <2>1. phase' \notin {"read", "merge"}
    BY <1>4 DEF BadPath, Merge, Showing, NothingFound, Fail, Conflicts, Ctx, ListHeader, Row, Footer
  <2> QED
    BY <2>1 DEF FileFrom
<1> QED
  BY <1>1, <1>2, <1>3, <1>4 DEF Next, Reading

\* What a whole file yielded.
Whole(s, p) == Told(s, EventsIn(p, Wanted(p))) /\ FromFile(s, p) /\ Timed(s)

\* Every event found is of a line of the file that was asked for.
LEMMA LineOf ==
  ASSUME Run(opts, held), NEW p \in ToSet(Paths), NEW s, Whole(s, p), NEW i \in DOMAIN s
  PROVE  \E j \in Wanted(p) : /\ s[i].id = LineAt(p, j).id /\ s[i].date = LineAt(p, j).date
                              /\ \E e \in Matching(LineAt(p, j)) : s[i].re = e.re
<1>1. PICK x : x = s[i]
  OBVIOUS
<1>2. Named(x) \in EventsIn(p, Wanted(p))
  BY <1>1 DEF Whole, Told
<1>3. PICK j \in Wanted(p) : Named(x) \in EventsOf(LineAt(p, j))
  BY <1>2 DEF EventsIn
<1>4. PICK e \in Matching(LineAt(p, j)) : Named(x) = [id |-> LineAt(p, j).id, re |-> e.re]
  BY <1>3 DEF EventsOf
<1>5. x.id = LineAt(p, j).id /\ x.re = e.re
  BY <1>4 DEF Named
<1>6. PICK k \in Lines(p) : x.id = LineAt(p, k).id /\ x.date = LineAt(p, k).date
  BY <1>1 DEF Whole, FromFile, OfFile
<1>7. j \in Lines(p)
  BY ScannedLines DEF Wanted
<1>8. j = k
  <2>1. j \in Nat /\ k \in Nat
    BY <1>6, <1>7, LineFacts
  <2>2. ~(j < k) /\ ~(k < j)
    BY <1>5, <1>6, <1>7, LineFacts
  <2> QED
    BY <2>1, <2>2
<1> QED
  BY <1>1, <1>5, <1>6, <1>8

LEMMA DatedInForce ==
  ASSUME Run(opts, held), NEW p \in ToSet(Paths), NEW j \in Searched(p), LineAt(p, j).date # 0
  PROVE  InForceAt(p, Searched(p), j) = LineAt(p, j).date
<1>1. Searched(p) \in SUBSET Lines(p)
  BY ScannedLines
<1>2. \A i \in Searched(p) : i \in Nat
  BY <1>1, LineFacts
<1>3. j \in DatedBy(p, Searched(p), j)
  BY <1>2 DEF DatedBy
<1>4. PICK k \in DatedBy(p, Searched(p), j) :
        InForceAt(p, Searched(p), j) = LineAt(p, k).date /\ \A l \in DatedBy(p, Searched(p), j) : l <= k
  BY <1>1, <1>3, InForceFacts
<1>5. j <= k /\ k <= j /\ k \in Searched(p)
  BY <1>3, <1>4 DEF DatedBy
<1>6. j = k
  BY <1>2, <1>5
<1> QED
  BY <1>4, <1>6

LEMMA LineInLog ==
  ASSUME Run(opts, held), NEW p \in ToSet(Paths), NEW j \in Lines(p)
  PROVE  j \in DOMAIN History[NodeOf[p]] /\ DOMAIN History[NodeOf[p]] \in SUBSET Nat
<1> DEFINE n == NodeOf[p]  log == History[n]
<1>1. n \in DOMAIN History /\ held[p] \in (DOMAIN log) \X (DOMAIN log)
  BY PathsAssumption DEF Run
<1>2. log \in Seq(ToSet(log)) /\ DOMAIN log = 1..Len(log) /\ Len(log) \in Nat
  BY <1>1, HistoryAssumption
<1>3. held[p][1] \in 1..Len(log) /\ held[p][2] \in 1..Len(log)
  BY <1>1, <1>2
<1> QED
  BY <1>2, <1>3 DEF Lines

\* A log is written in the order of time.
LEMMA EarlierLine ==
  ASSUME NEW p \in ToSet(Paths), NEW i \in DOMAIN History[NodeOf[p]], NEW j \in DOMAIN History[NodeOf[p]],
         i < j, LineAt(p, j).date # 0
  PROVE  LineAt(p, i).date <= LineAt(p, j).date
BY PathsAssumption, HistoryAssumption DEF LineAt

LEMMA BetweenLines ==
  ASSUME Run(opts, held), NEW p \in ToSet(Paths), NEW a \in Lines(p), NEW b \in Lines(p),
         NEW j \in Nat, a < j, j < b
  PROVE  j \in Lines(p)
<1> DEFINE n == NodeOf[p]  log == History[n]
<1>1. n \in DOMAIN History /\ held[p] \in (DOMAIN log) \X (DOMAIN log)
  BY PathsAssumption DEF Run
<1>2. log \in Seq(ToSet(log)) /\ DOMAIN log = 1..Len(log) /\ Len(log) \in Nat
  BY <1>1, HistoryAssumption
<1>3. held[p][1] \in 1..Len(log) /\ held[p][2] \in 1..Len(log)
  BY <1>1, <1>2
<1> QED
  BY <1>2, <1>3 DEF Lines

\* The last time is that of an event, as the first is.
LEMMA LastIs ==
  ASSUME NEW s, Timed(s), LastTime(s) # 0
  PROVE  \E i \in DOMAIN s : s[i].date = LastTime(s)
<1> DEFINE is == {i \in DOMAIN s : Dated(s[i])}
<1>1. DOMAIN s = 1..Len(s) /\ Len(s) \in Nat
  BY SeqFacts DEF Timed
<1>2. is \in SUBSET (0..Len(s)) /\ is \subseteq DOMAIN s
  BY <1>1
<1>3. PICK b : b = Max(is)
  OBVIOUS
<1>4. is # {} /\ LastTime(s) = s[b].date
  BY <1>3 DEF LastTime
<1> HIDE DEF is
<1>5. b \in is
  BY <1>1, <1>2, <1>3, <1>4, MaxNumber
<1> QED
  BY <1>2, <1>4, <1>5

\* What one piece has of a time within another, the other has too.
LEMMA Within ==
  ASSUME Run(opts, held), NEW p \in ToSet(Paths), NEW q \in ToSet(Paths), NodeOf[p] = NodeOf[q],
         NEW s, Whole(s, p), NEW t, Whole(t, q), NEW i \in DOMAIN t,
         FirstTime(s) # 0, FirstTime(s) < t[i].date, t[i].date < LastTime(s)
  PROVE  Kept(s, t[i].id, t[i].re)
<1>1. PICK x : x = t[i]
  OBVIOUS
<1>2. PICK j \in Wanted(q) : /\ x.id = LineAt(q, j).id /\ x.date = LineAt(q, j).date
                             /\ \E e \in Matching(LineAt(q, j)) : x.re = e.re
  BY <1>1, LineOf
<1>3. Timed(s) /\ Timed(t) /\ MaxTime \in Nat
  BY TimeIsNat DEF Whole
<1>4. x.date \in 0..MaxTime
  BY <1>1, <1>3 DEF Timed, Stored
<1>5. PICK a \in DOMAIN s : s[a].date = FirstTime(s)
  BY <1>3, TimesAre
<1>6. PICK b \in DOMAIN s : s[b].date = LastTime(s)
  <2>1. LastTime(s) # 0
    BY <1>3, <1>5, TimesAre
  <2> QED
    BY <1>3, <2>1, LastIs
<1>7. PICK c \in Wanted(p) : LineAt(p, c).date = FirstTime(s)
  BY <1>5, LineOf
<1>8. PICK d \in Wanted(p) : LineAt(p, d).date = LastTime(s)
  BY <1>6, LineOf
<1>9. c \in Lines(p) /\ d \in Lines(p) /\ d \in Scanned(p) /\ j \in Lines(q) /\ j \in Searched(q)
  <2>1. d \in Scanned(p)
    BY <1>8, WantedIs
  <2> QED
    BY <2>1, ScannedLines DEF Wanted
<1>10. \A k : LineAt(q, k) = LineAt(p, k)
  BY DEF LineAt
<1>11. c < j /\ j < d
  <2>1. j \in DOMAIN History[NodeOf[p]] /\ c \in DOMAIN History[NodeOf[p]] /\ d \in DOMAIN History[NodeOf[p]]
    BY <1>9, LineInLog
  <2>2. LineAt(p, j).date = x.date /\ x.date # 0 /\ LastTime(s) # 0
    BY <1>1, <1>2, <1>3, <1>4, <1>10, TimesAre
  <2>3. ~(j < c) /\ j # c
    BY <1>1, <1>3, <1>4, <1>7, <2>1, <2>2, EarlierLine, TimesAre
  <2>4. ~(d < j) /\ j # d
    BY <1>1, <1>3, <1>4, <1>8, <2>1, <2>2, EarlierLine, TimesAre
  <2>5. c \in Nat /\ d \in Nat /\ j \in Nat
    BY <1>9, LineFacts
  <2> QED
    BY <2>3, <2>4, <2>5
<1>12. j \in Lines(p)
  <2>1. j \in Nat
    BY <1>9, LineFacts
  <2> QED
    BY <1>9, <1>11, <2>1, BetweenLines
<1>13. j \in Searched(p)
  <2>1. \A l \in Grep(p) : LineAt(p, l).long => d < l
    BY <1>9 DEF Scanned, UpToLong
  <2>2. \A l \in Grep(p) : LineAt(p, l).long => j < l
    <3> TAKE l \in Grep(p)
    <3>1. l \in Lines(p)
      BY DEF Grep
    <3>2. l \in Nat /\ d \in Nat /\ j \in Nat
      BY <1>9, <3>1, LineFacts
    <3> QED
      BY <1>11, <2>1, <3>2
  <2>3. \E e \in LineAt(p, j).es : Kind(e.re) \in RegexesToUse
    BY <1>2, <1>10 DEF Matching
  <2> QED
    BY <1>12, <2>2, <2>3 DEF Searched, UpToLong
<1>14. j \in Wanted(p)
  <2>1. LineAt(p, j).date = x.date /\ x.date # 0
    BY <1>1, <1>2, <1>3, <1>4, <1>10, TimesAre
  <2>2. InForceAt(q, Searched(q), j) = x.date /\ InForceAt(p, Searched(p), j) = x.date
    BY <1>9, <1>10, <1>13, <2>1, DatedInForce
  <2>3. Asked(x.date)
    BY <1>2, <2>2 DEF Wanted
  <2> QED
    BY <1>13, <2>2, <2>3 DEF Wanted
<1>15. PICK y : y = [id |-> x.id, re |-> x.re]
  OBVIOUS
<1>16. y \in EventsOf(LineAt(p, j))
  BY <1>2, <1>10, <1>15 DEF EventsOf
<1>17. y \in EventsIn(p, Wanted(p))
  BY <1>14, <1>16 DEF EventsIn
<1>18. Kept(s, y.id, y.re)
  BY <1>17 DEF Whole, Told
<1> QED
  BY <1>1, <1>15, <1>18

LEMMA KeptJoined ==
  ASSUME NEW s, IsSeq(s), NEW t, IsSeq(t), NEW id, NEW re, Kept(s, id, re) \/ Kept(t, id, re)
  PROVE  Kept(s \o t, id, re)
<1> DEFINE r == s \o t
<1>1. /\ DOMAIN s = 1..Len(s) /\ Len(s) \in Nat /\ DOMAIN t = 1..Len(t) /\ Len(t) \in Nat
      /\ IsSeq(r) /\ Len(r) = Len(s) + Len(t)
  BY SeqFacts, Joined
<1>2. (\A i \in 1..Len(s) : r[i] = s[i]) /\ \A i \in 1..Len(t) : r[Len(s) + i] = t[i]
  <2>1. s \in Seq(ToSet(s) \cup ToSet(t)) /\ t \in Seq(ToSet(s) \cup ToSet(t))
    BY DEF IsSeq
  <2> QED
    BY <1>1, <2>1
<1> HIDE DEF r
<1>3. DOMAIN r = 1..(Len(s) + Len(t))
  BY <1>1, SeqFacts
<1>4. \A i \in DOMAIN s : \E j \in DOMAIN r : r[j] = s[i]
  BY <1>1, <1>2, <1>3
<1>5. \A i \in DOMAIN t : \E j \in DOMAIN r : r[j] = t[i]
  <2> TAKE i \in DOMAIN t
  <2>1. Len(s) + i \in DOMAIN r /\ r[Len(s) + i] = t[i]
    BY <1>1, <1>2, <1>3
  <2> QED
    BY <2>1
<1>6. Kept(r, id, re)
  BY <1>4, <1>5 DEF Kept
<1> QED
  BY <1>6 DEF r

LEMMA KeptInherited ==
  ASSUME NEW s, FoundInfos(s), NEW t, NEW c, Inherits(t, s, c), NEW id, NEW re, Kept(s, id, re)
  PROVE  Kept(t, id, re)
<1>1. PICK v : v = Inherit(s[Len(s)].ctx, c)
  OBVIOUS
<1>2. t = [s EXCEPT ![Len(s)].ctx = v]
  BY <1>1 DEF Inherits
<1>3. DOMAIN t = DOMAIN s
  BY <1>2
<1>4. ASSUME NEW i \in DOMAIN s PROVE t[i].id = s[i].id /\ t[i].re = s[i].re /\ t[i].rep = s[i].rep
  <2>1. CASE i # Len(s)
    BY <1>2, <2>1
  <2>2. CASE i = Len(s)
    <3>1. PICK x : x = s[i]
      OBVIOUS
    <3>2. t[i] = [x EXCEPT !.ctx = v]
      BY <1>2, <2>2, <3>1
    <3>3. FoundInfo(x)
      BY <3>1 DEF FoundInfos
    <3>4. {"id", "re", "rep", "ctx"} \subseteq DOMAIN x
      BY <3>3 DEF FoundInfo
    <3> QED
      BY <3>1, <3>2, <3>4
  <2> QED
    BY <2>1, <2>2
<1> QED
  BY <1>3, <1>4 DEF Kept

\* Cutting keeps what is later.
LEMMA CutKeeps ==
  ASSUME NEW s, FoundInfos(s), NEW at
  PROVE  LET r == CutTimelineAt(s, at)
         IN FoundInfos(r) /\ \A i \in DOMAIN s : s[i].date > at => \E j \in DOMAIN r : r[j] = s[i]
<1> DEFINE after == {i \in DOMAIN s : s[i].date > at}
<1>0. DOMAIN s = 1..Len(s) /\ Len(s) \in Nat /\ IsSeq(s)
  BY SeqFacts DEF FoundInfos, IsSeq
<1>1. CASE after = {}
  <2>1. IsSeq(<<>>) /\ DOMAIN <<>> = {}
    BY DEF IsSeq
  <2>2. CutTimelineAt(s, at) = <<>>
    BY <1>1 DEF CutTimelineAt
  <2> QED
    BY <1>1, <2>1, <2>2 DEF FoundInfos, IsSeq
<1>2. CASE after # {}
  <2>1. after \in SUBSET Nat /\ (\A i \in after : i \in DOMAIN s) /\ \A i \in DOMAIN s : s[i].date > at => i \in after
    BY <1>0
  <2>2. PICK i : i = Min(after)
    OBVIOUS
  <2> DEFINE n == Len(s) - i + 1  r == SubSeq(s, i, Len(s))
  <2>3. CutTimelineAt(s, at) = r
    BY <1>2, <2>2 DEF CutTimelineAt
  <2> HIDE DEF after
  <2>4. i \in after /\ \A j \in after : i <= j
    BY <1>2, <2>1, <2>2, MinNumber
  <2>5. i \in 1..(Len(s) + 1) /\ i \in 1..Len(s)
    BY <1>0, <2>1, <2>4
  <2>6. IsSeq(r) /\ Len(r) = n /\ n \in Nat /\ \A j \in 1..n : r[j] = s[i + j - 1]
    BY <1>0, <2>5, Part
  <2>7. DOMAIN r = 1..n
    BY <2>6, SeqFacts
  <2> HIDE DEF r
  <2>8. \A j \in 1..n : i + j - 1 \in DOMAIN s
    BY <1>0, <2>5
  <2>9. FoundInfos(r)
    BY <2>6, <2>7, <2>8 DEF FoundInfos, IsSeq
  <2>10. ASSUME NEW k \in DOMAIN s, s[k].date > at PROVE \E j \in DOMAIN r : r[j] = s[k]
    <3>1. i <= k /\ k \in 1..Len(s)
      BY <1>0, <2>1, <2>4, <2>10
    <3>2. k - i + 1 \in 1..n /\ i + (k - i + 1) - 1 = k
      BY <1>0, <2>5, <3>1
    <3>3. r[k - i + 1] = s[k]
      BY <2>6, <3>2
    <3> QED
      BY <2>7, <3>2, <3>3
  <2> QED
    BY <2>3, <2>9, <2>10
<1> QED
  BY <1>1, <1>2

\* Continuing a timeline keeps all of it, and of the other what is later.
LEMMA ContinueKeeps ==
  ASSUME NEW s, FoundInfos(s), NEW t, FoundInfos(t)
  PROVE  /\ \A id, re : Kept(s, id, re) => Kept(Continue(s, t), id, re)
         /\ \A i \in DOMAIN t : ~(LastTime(s) > FirstTime(t)) \/ t[i].date > LastTime(s) =>
              Kept(Continue(s, t), t[i].id, t[i].re)
<1> DEFINE rest == IF LastTime(s) > FirstTime(t) THEN CutTimelineAt(t, LastTime(s)) ELSE t
           more == [rest EXCEPT ![Len(rest)].ctx = Inherit(@, Last(s).ctx)]
<1>1. Continue(s, t) = s \o more
  BY DEF Continue
<1>2. FoundInfos(rest) /\ \A i \in DOMAIN t : ~(LastTime(s) > FirstTime(t)) \/ t[i].date > LastTime(s) =>
        \E j \in DOMAIN rest : rest[j] = t[i]
  <2>1. CASE LastTime(s) > FirstTime(t)
    <3>1. rest = CutTimelineAt(t, LastTime(s))
      BY <2>1
    <3> HIDE DEF rest
    <3> QED
      BY <2>1, <3>1, CutKeeps
  <2>2. CASE ~(LastTime(s) > FirstTime(t))
    <3>1. rest = t
      BY <2>2
    <3> HIDE DEF rest
    <3> QED
      BY <3>1
  <2> QED
    BY <2>1, <2>2
<1> HIDE DEF rest
<1>3. PICK c : c = Last(s).ctx
  OBVIOUS
<1>4. Inherits(more, rest, c)
  <2>1. more = [rest EXCEPT ![Len(rest)].ctx = Inherit(rest[Len(rest)].ctx, Last(s).ctx)]
    OBVIOUS
  <2> QED
    BY <1>3, <2>1 DEF Inherits
<1>5. IsSeq(more)
  <2>1. \E v : more = [rest EXCEPT ![Len(rest)].ctx = v]
    BY <1>4 DEF Inherits
  <2>2. IsSeq(rest)
    BY <1>2 DEF FoundInfos, IsSeq
  <2> HIDE DEF more
  <2> QED
    BY <2>1, <2>2, LastChanged
<1> HIDE DEF more
<1>6. IsSeq(s)
  BY DEF FoundInfos, IsSeq
<1>7. \A id, re : Kept(s, id, re) => Kept(Continue(s, t), id, re)
  BY <1>1, <1>5, <1>6, KeptJoined
<1>8. ASSUME NEW i \in DOMAIN t, ~(LastTime(s) > FirstTime(t)) \/ t[i].date > LastTime(s)
      PROVE  Kept(Continue(s, t), t[i].id, t[i].re)
  <2>1. PICK id, re : id = t[i].id /\ re = t[i].re
    OBVIOUS
  <2>2. Kept(rest, id, re)
    BY <1>2, <1>8, <2>1 DEF Kept
  <2>3. Kept(more, id, re)
    BY <1>2, <1>4, <2>2, KeptInherited
  <2> QED
    BY <1>1, <1>5, <1>6, <2>1, <2>3, KeptJoined
<1> QED
  BY <1>7, <1>8

In(x, s) == \E i \in DOMAIN s : s[i] = x
Inside(x, s) == x.date # FirstTime(s) /\ x.date # LastTime(s)

LEMMA WithinIt ==
  ASSUME Run(opts, held), NEW p \in ToSet(Paths), NEW q \in ToSet(Paths), NodeOf[p] = NodeOf[q],
         NEW s, Whole(s, p), NEW t, Whole(t, q), NEW x, In(x, t),
         FirstTime(s) # 0, FirstTime(s) < x.date, x.date < LastTime(s)
  PROVE  Kept(s, x.id, x.re)
<1>1. PICK i \in DOMAIN t : t[i] = x
  BY DEF In
<1> QED
  BY <1>1, Within

\* The piece that starts first, then the other.
LEMMA OrderedPieces ==
  ASSUME Run(opts, held), NEW p \in ToSet(Paths), NEW q \in ToSet(Paths), NodeOf[p] = NodeOf[q],
         NEW s, Whole(s, p), NEW t, Whole(t, q), FirstTime(s) <= FirstTime(t),
         NEW x, In(x, s) \/ In(x, t), x.date # 0, Inside(x, s), Inside(x, t)
  PROVE  Kept(MergeOrdered(s, t), x.id, x.re)
<1> DEFINE kept(r) == Kept(r, x.id, x.re)
<1>1. PICK a, b, c, d, u : a = FirstTime(s) /\ b = LastTime(s) /\ c = FirstTime(t) /\ d = LastTime(t) /\ u = x.date
  OBVIOUS
<1>2. Timed(s) /\ Timed(t) /\ FoundInfos(s) /\ FoundInfos(t)
  BY DEF Whole, FromFile
<1>3. /\ a \in Nat /\ b \in Nat /\ c \in Nat /\ d \in Nat /\ u \in Nat
      /\ (b # 0 => a # 0) /\ (d # 0 => c # 0)
      /\ In(x, s) => a # 0 /\ a <= u /\ u <= b
      /\ In(x, t) => c # 0 /\ c <= u /\ u <= d
  <2>1. MaxTime \in Nat
    BY TimeIsNat
  <2>2. a \in 0..MaxTime /\ b \in 0..MaxTime /\ c \in 0..MaxTime /\ d \in 0..MaxTime
    BY <1>1, <1>2, TimesAre
  <2>3. In(x, s) => u \in 0..MaxTime /\ a # 0 /\ a <= u /\ u <= b
    BY <1>1, <1>2, TimesAre DEF In, Timed, Stored
  <2>4. In(x, t) => u \in 0..MaxTime /\ c # 0 /\ c <= u /\ u <= d
    BY <1>1, <1>2, TimesAre DEF In, Timed, Stored
  <2>5. b # 0 => a # 0
    BY <1>1, <1>2, LastIs, TimesAre
  <2>6. d # 0 => c # 0
    BY <1>1, <1>2, LastIs, TimesAre
  <2> QED
    BY <2>1, <2>2, <2>3, <2>4, <2>5, <2>6
<1>4. u # 0 /\ u # a /\ u # b /\ u # c /\ u # d /\ a <= c
  BY <1>1 DEF Inside
<1>5. (In(x, s) => kept(s)) /\ (In(x, t) => kept(t))
  BY DEF In, Kept
<1>6. In(x, t) /\ a # 0 /\ a < u /\ u < b => kept(s)
  BY <1>1, WithinIt
<1>7. In(x, s) /\ c # 0 /\ c < u /\ u < d => kept(t)
  BY <1>1, WithinIt
<1>8. MergeOrdered(s, t) = IF a = c THEN IF b < d THEN t ELSE s
                           ELSE IF b >= d THEN s ELSE Continue(s, t)
  BY <1>1 DEF MergeOrdered
<1>9. /\ kept(s) => kept(Continue(s, t))
      /\ In(x, t) => (~(b > c) \/ u > b => kept(Continue(s, t)))
  BY <1>1, <1>2, ContinueKeeps DEF In
<1> HIDE DEF kept
<1>10. CASE a = c /\ b < d
  <2>1. kept(t)
    BY <1>3, <1>4, <1>5, <1>7, <1>10
  <2> QED
    BY <1>8, <1>10, <2>1 DEF kept
<1>11. CASE a = c /\ ~(b < d)
  <2>1. kept(s)
    BY <1>3, <1>4, <1>5, <1>6, <1>11
  <2> QED
    BY <1>8, <1>11, <2>1 DEF kept
<1>12. CASE a # c /\ b >= d
  <2>1. In(x, t) => a # 0 /\ a < u /\ u < b
    BY <1>3, <1>4, <1>12
  <2>2. kept(s)
    BY <1>5, <1>6, <2>1
  <2> QED
    BY <1>8, <1>12, <2>2 DEF kept
<1>13. CASE a # c /\ ~(b >= d)
  <2>1. In(x, t) => (~(b > c) \/ u > b) \/ (a # 0 /\ a < u /\ u < b)
    BY <1>3, <1>4, <1>13
  <2>2. In(x, t) => kept(Continue(s, t))
    BY <1>6, <1>9, <2>1
  <2>3. kept(Continue(s, t))
    BY <1>5, <1>9, <2>2
  <2> QED
    BY <1>8, <1>13, <2>3 DEF kept
<1> QED
  BY <1>10, <1>11, <1>12, <1>13

\* Two pieces of a log, in either order: all is kept, but at the very instants
\* where one of them starts or ends.
LEMMA PiecesMerged ==
  ASSUME Run(opts, held), NEW p \in ToSet(Paths), NEW q \in ToSet(Paths), NodeOf[p] = NodeOf[q],
         NEW s, Whole(s, p), NEW t, Whole(t, q),
         NEW x, In(x, s) \/ In(x, t), x.date # 0, Inside(x, s), Inside(x, t)
  PROVE  Kept(MergeTimeline(s, t), x.id, x.re)
<1>1. CASE s = <<>> \/ t = <<>>
  <2>1. DOMAIN <<>> = {}
    OBVIOUS
  <2>2. \/ s = <<>> /\ In(x, t) /\ MergeTimeline(s, t) = t
        \/ t = <<>> /\ In(x, s) /\ MergeTimeline(s, t) = s
    BY <1>1, <2>1 DEF In, MergeTimeline
  <2> QED
    BY <2>2 DEF In, Kept
<1>2. CASE s # <<>> /\ t # <<>>
  <2>1. PICK a, b : a = FirstTime(s) /\ b = FirstTime(t)
    OBVIOUS
  <2>2. a \in Nat /\ b \in Nat
    BY <2>1, TimesAre, TimeIsNat DEF Whole
  <2>3. CASE a > b
    <3>1. MergeTimeline(s, t) = MergeOrdered(t, s)
      BY <1>2, <2>1, <2>3 DEF MergeTimeline
    <3>2. FirstTime(t) <= FirstTime(s)
      BY <2>1, <2>2, <2>3
    <3> QED
      BY <3>1, <3>2, OrderedPieces
  <2>4. CASE ~(a > b)
    <3>1. MergeTimeline(s, t) = MergeOrdered(s, t)
      BY <1>2, <2>1, <2>4 DEF MergeTimeline
    <3>2. FirstTime(s) <= FirstTime(t)
      BY <2>1, <2>2, <2>4
    <3> QED
      BY <3>1, <3>2, OrderedPieces
  <2> QED
    BY <2>3, <2>4
<1> QED
  BY <1>1, <1>2

\* The same file twice.
LEMMA SameMerged ==
  ASSUME NEW p, NEW s, Whole(s, p), NEW t, Whole(t, p), NEW x, In(x, t)
  PROVE  Kept(MergeTimeline(s, t), x.id, x.re)
<1> DEFINE kept(r) == Kept(r, x.id, x.re)
<1>1. kept(t)
  BY DEF In, Kept
<1>2. kept(s)
  <2>1. PICK y : y = Named(x)
    OBVIOUS
  <2>2. y \in EventsIn(p, Wanted(p)) /\ y.id = x.id /\ y.re = x.re
    BY <2>1 DEF Whole, Told, In, Named
  <2>3. Kept(s, y.id, y.re)
    BY <2>2 DEF Whole, Told
  <2> QED
    BY <2>2, <2>3
<1>3. FoundInfos(s) /\ FoundInfos(t)
  BY DEF Whole, FromFile
<1>4. kept(Continue(s, t)) /\ kept(Continue(t, s))
  BY <1>1, <1>2, <1>3, ContinueKeeps
<1>5. MergeTimeline(s, t) \in {s, t, Continue(s, t), Continue(t, s)}
  BY DEF MergeTimeline, MergeOrdered
<1> HIDE DEF kept
<1>6. kept(MergeTimeline(s, t))
  BY <1>1, <1>2, <1>4, <1>5
<1> QED
  BY <1>6 DEF kept

SaidOf(s) == [i \in DOMAIN s |-> Said(s[i])]
TimesOf(a) == {li.at : li \in ToSet(a)} \ {0}

\* The ends of a file are the first and the last time of what was found in it.
LEMMA EndsAre ==
  ASSUME NEW s, Timed(s), NEW times, times = TimesOf(SaidOf(s)), NEW u, u # 0,
         u = FirstTime(s) \/ u = LastTime(s)
  PROVE  times # {} /\ u \in {Min(times), Max(times)}
<1>1. PICK a, b : a = FirstTime(s) /\ b = LastTime(s)
  OBVIOUS
<1>2. a \in 0..MaxTime /\ b \in 0..MaxTime /\ MaxTime \in Nat
  BY <1>1, TimesAre, TimeIsNat
<1>3. \A v : v \in times <=> \E i \in DOMAIN s : v = s[i].date /\ v # 0
  <2>1. ASSUME NEW i \in DOMAIN s PROVE Said(s[i]).at = s[i].date
    <3>1. Stored(s[i])
      BY DEF Timed
    <3> QED
      BY <3>1, StoredDated DEF Said
  <2>2. DOMAIN SaidOf(s) = DOMAIN s /\ \A i \in DOMAIN s : SaidOf(s)[i] = Said(s[i])
    BY DEF SaidOf
  <2>3. PICK f : f = SaidOf(s)
    OBVIOUS
  <2>4. DOMAIN f = DOMAIN s /\ \A i \in DOMAIN s : f[i].at = s[i].date
    BY <2>1, <2>2, <2>3
  <2>5. \A y : y \in ToSet(f) <=> \E i \in DOMAIN f : f[i] = y
    BY DEF ToSet
  <2>6. times = {li.at : li \in ToSet(f)} \ {0}
    BY <2>3 DEF TimesOf
  <2> QED
    BY <2>4, <2>5, <2>6
<1>4. \A v \in times : v \in 0..MaxTime /\ a # 0 /\ a <= v /\ b # 0 /\ v <= b
  <2> TAKE v \in times
  <2>1. PICK i \in DOMAIN s : v = s[i].date /\ v # 0
    BY <1>3
  <2>2. v \in 0..MaxTime
    BY <2>1 DEF Timed, Stored
  <2> QED
    BY <1>1, <2>1, <2>2, TimesAre
<1>5. (a # 0 => a \in times) /\ (b # 0 => b \in times)
  <2>1. a # 0 => \E i \in DOMAIN s : s[i].date = a
    BY <1>1, TimesAre
  <2>2. b # 0 => \E i \in DOMAIN s : s[i].date = b
    BY <1>1, LastIs
  <2> QED
    BY <1>3, <2>1, <2>2
<1>6. times \in SUBSET Nat /\ times \in SUBSET (0..MaxTime) /\ times # {}
  <2>1. times # {}
    BY <1>1, <1>5
  <2> QED
    BY <1>2, <1>4, <2>1
<1>7. PICK c, d : c = Min(times) /\ d = Max(times)
  OBVIOUS
<1>8. c \in times /\ (\A v \in times : c <= v) /\ d \in times /\ \A v \in times : v <= d
  BY <1>2, <1>6, <1>7, MinNumber, MaxNumber
<1>9. (a # 0 => a = c) /\ (b # 0 => b = d)
  BY <1>2, <1>4, <1>5, <1>8
<1> QED
  BY <1>1, <1>6, <1>7, <1>9

\* Two files at most, both of one log; and not the operator's way of merging,
\* which replaces the column of a pod by that of another pod of its name.
TwoPieces == Len(Paths) <= 2 /\ \A p, q \in ToSet(Paths) : NodeOf[p] = NodeOf[q]
NoOperator == \A o \in Options : o.merge # "pod"

\* One file was merged: all columns hold what it yielded.
One(p, s) ==
  /\ p \in ToSet(Paths) /\ Whole(s, p)
  /\ DOMAIN accepted = {p} /\ accepted[p] = SaidOf(s)
  /\ \A k \in DOMAIN tl : tl[k] = s
  /\ s # <<>> => DOMAIN tl # {}
  /\ opts.merge = "skip" => DOMAIN tl \subseteq {p}
  /\ opts.merge = "directory" => DOMAIN tl \subseteq {Dir[p]}
DatedKept ==
  \A p \in DOMAIN accepted : \A i \in DOMAIN accepted[p] :
    LET li == accepted[p][i] IN
    \/ li.at = 0
    \/ \E q \in DOMAIN accepted : NodeOf[q] = NodeOf[p] /\ li.at \in Ends(q)
    \/ \E k \in DOMAIN tl : Kept(tl[k], li.id, li.re)
LostInv ==
  Merging => \/ DOMAIN tl = {} /\ DOMAIN accepted = {} /\ Len(todo) <= 2
             \/ Len(todo) <= 1 /\ \E p, s : One(p, s)
             \/ todo = <<>> /\ DatedKept

LEMMA SameWhole ==
  ASSUME UNCHANGED <<opts, held>>, NEW s, NEW p, Whole(s, p)
  PROVE  Whole(s, p)'
<1>1. PICK is : is = Wanted(p)
  OBVIOUS
<1>2. Wanted(p)' = is /\ EventsIn(p, is)' = EventsIn(p, is)
  BY <1>1, SameFile
<1>3. EventsIn(p, Wanted(p))' = EventsIn(p, Wanted(p))
  BY <1>1, <1>2
<1>4. FromFile(s, p)'
  BY DEF Whole, FromFile, OfFile, Lines, LineAt
<1>5. Told(s, EventsIn(p, Wanted(p)))'
  <2>1. PICK H : H = EventsIn(p, Wanted(p))
    OBVIOUS
  <2>2. Told(s, H)' /\ EventsIn(p, Wanted(p))' = H
    BY <1>3, <2>1 DEF Whole
  <2> QED
    BY <2>2
<1> QED
  BY <1>4, <1>5 DEF Whole

\* Once a file is read, what it yielded is that of a whole file.
LEMMA WholeRead ==
  ASSUME ReadInv, FilesInOrder, FileFrom, phase = "merge"
  PROVE  Path \in ToSet(Paths) /\ Whole(lt, Path)
<1>1. /\ todo \in Seq(ToSet(Paths)) /\ todo # <<>>
      /\ Told(lt, EventsIn(Path, ReadLines(Path, pos))) /\ ReadLines(Path, pos) = Wanted(Path)
  BY DEF ReadInv, FileRead
<1>2. Told(lt, EventsIn(Path, Wanted(Path)))
  BY <1>1
<1>3. FromFile(lt, Path) /\ Timed(lt)
  BY DEF FileFrom, ReadFrom, FilesInOrder
<1> QED
  BY <1>1, <1>2, <1>3 DEF Whole, Path

LEMMA MergedBy ==
  ASSUME ~Operator, lt # <<>>, NEW t \in Merged
  PROVE  /\ opts.merge = "skip" => t = Put(tl, Path, lt)
         /\ opts.merge = "directory" => t \in MergeByDirectory(tl, Path, lt)
         /\ opts.merge \notin {"skip", "directory"} => t \in MergeByIdentifier(tl, lt, m.db)
<1>1. CASE opts.merge = "skip"
  BY <1>1 DEF Merged
<1>2. CASE opts.merge = "directory"
  BY <1>2 DEF Merged
<1>3. CASE opts.merge \notin {"skip", "directory"}
  BY <1>3 DEF Merged
<1> QED
  BY <1>1, <1>2, <1>3

LEMMA MergedFirst ==
  ASSUME ~Operator, lt # <<>>, DOMAIN tl = {}, NEW t \in Merged
  PROVE  \E key : /\ DOMAIN t = {key} /\ t[key] = lt
                  /\ opts.merge = "skip" => key = Path
                  /\ opts.merge = "directory" => key = Dir[Path]
<1>1. \A key : DOMAIN Put(tl, key, lt) = {key} /\ Put(tl, key, lt)[key] = lt
  BY DEF Put
<1>2. CASE opts.merge = "skip"
  BY <1>1, <1>2, MergedBy
<1>3. CASE opts.merge = "directory"
  <2>1. t = Put(tl, Dir[Path], lt)
    BY <1>3, MergedBy DEF MergeByDirectory, MergeWithAny
  <2> QED
    BY <1>1, <1>3, <2>1
<1>4. CASE opts.merge \notin {"skip", "directory"}
  <2>1. PICK node : t = Put(tl, node, lt)
    BY <1>4, MergedBy DEF MergeByIdentifier
  <2> QED
    BY <1>1, <1>4, <2>1
<1> QED
  BY <1>2, <1>3, <1>4

LEMMA MergedSecond ==
  ASSUME ~Operator, lt # <<>>, NEW t \in Merged, NEW p, NEW s, One(p, s),
         \A k \in DOMAIN tl : TimedColumn(tl[k])
  PROVE  \E key, u : /\ t = Put(tl, key, u)
                     /\ u = MergeTimeline(s, lt) \/ (u = lt /\ (key \notin DOMAIN tl \/ p = Path))
<1>1. \A k \in DOMAIN tl : tl[k] = s
  BY DEF One
<1>2. CASE opts.merge = "skip"
  <2>1. t = Put(tl, Path, lt) /\ (Path \notin DOMAIN tl \/ p = Path)
    BY <1>2, MergedBy DEF One
  <2> QED
    BY <2>1
<1>3. CASE opts.merge = "directory"
  <2> DEFINE fits == {k \in DOMAIN tl : Dir[tl[k][1].ctx.path] = Dir[Path]}
  <2>1. t \in MergeWithAny(tl, Dir[Path], lt, fits)
    BY <1>3, MergedBy DEF MergeByDirectory
  <2>2. CASE fits = {}
    <3>1. t = Put(tl, Dir[Path], lt)
      BY <2>1, <2>2 DEF MergeWithAny
    <3>2. ASSUME Dir[Path] \in DOMAIN tl PROVE FALSE
      <4>1. PICK k : k = Dir[Path]
        OBVIOUS
      <4>2. k \in DOMAIN tl /\ k = Dir[p] /\ tl[k] = s
        BY <1>1, <1>3, <3>2, <4>1 DEF One
      <4>3. 1 \in DOMAIN s
        <5>1. IsSeq(s) /\ s # <<>>
          BY <4>2 DEF TimedColumn, Timed
        <5>2. Len(s) \in Nat /\ Len(s) # 0 /\ DOMAIN s = 1..Len(s)
          BY <5>1, SeqFacts
        <5> QED
          BY <5>2
      <4>4. s[1].ctx.path = p
        BY <4>3 DEF One, Whole, FromFile, OfFile
      <4>5. k \in fits
        BY <4>1, <4>2, <4>4
      <4> QED
        BY <2>2, <4>5
    <3> QED
      BY <3>1, <3>2
  <2>3. CASE fits # {}
    <3>1. PICK k \in fits : t = Put(tl, Dir[Path], MergeTimeline(tl[k], lt))
      BY <2>1, <2>3 DEF MergeWithAny
    <3>2. tl[k] = s
      BY <1>1, <3>1
    <3> QED
      BY <3>1, <3>2
  <2> QED
    BY <2>2, <2>3
<1>4. CASE opts.merge \notin {"skip", "directory"}
  <2>1. PICK node : t = Put(tl, node, IF node \in DOMAIN tl THEN MergeTimeline(tl[node], lt) ELSE lt)
    BY <1>4, MergedBy DEF MergeByIdentifier
  <2>2. CASE node \in DOMAIN tl
    BY <1>1, <2>1, <2>2
  <2>3. CASE node \notin DOMAIN tl
    BY <2>1, <2>3
  <2> QED
    BY <2>2, <2>3
<1> QED
  BY <1>2, <1>3, <1>4

LEMMA FirstFile ==
  ASSUME ReadInv, FilesInOrder, FileFrom, NoOperator, Merge,
         DOMAIN tl = {}, DOMAIN accepted = {}, Len(todo) <= 2
  PROVE  LostInv'
<1>1. /\ phase = "merge" /\ tl' \in Merged /\ accepted' = Put(accepted, Path, SaidOf(lt))
      /\ todo' = Tail(todo) /\ UNCHANGED <<opts, held>>
  BY DEF Merge, SaidOf
<1>2. PICK p, s, t : p = Path /\ s = lt /\ t = tl'
  OBVIOUS
<1>3. p \in ToSet(Paths) /\ Whole(s, p)
  BY <1>1, <1>2, WholeRead
<1>4. Whole(s, p)'
  BY <1>1, <1>3, SameWhole
<1>5. Len(todo') <= 1
  <2>1. todo \in Seq(ToSet(Paths)) /\ todo # <<>>
    BY <1>1 DEF ReadInv, FileRead
  <2>2. Len(Tail(todo)) = Len(todo) - 1 /\ Len(todo) \in Nat
    BY <2>1
  <2> QED
    BY <1>1, <2>2
<1>6. ~Operator
  BY DEF ReadInv, Run, NoOperator, Operator
<1>7. \/ s = <<>> /\ DOMAIN t = {}
      \/ \E key : /\ DOMAIN t = {key} /\ t[key] = s
                  /\ opts.merge = "skip" => key = p
                  /\ opts.merge = "directory" => key = Dir[p]
  <2>1. CASE lt = <<>>
    BY <1>1, <1>2, <2>1 DEF Merged
  <2>2. CASE lt # <<>>
    BY <1>1, <1>2, <1>6, <2>2, MergedFirst
  <2> QED
    BY <2>1, <2>2
<1>8. DOMAIN accepted' = {p} /\ accepted'[p] = SaidOf(s)
  BY <1>1, <1>2 DEF Put
<1>9. One(p, s)'
  <2>1. \A k \in DOMAIN t : t[k] = s
    BY <1>7
  <2>2. s # <<>> => DOMAIN t # {}
    BY <1>7
  <2>3. /\ opts.merge = "skip" => DOMAIN t \subseteq {p}
        /\ opts.merge = "directory" => DOMAIN t \subseteq {Dir[p]}
    BY <1>7
  <2>4. accepted'[p] = SaidOf(s)'
    BY <1>8 DEF SaidOf, Said, Dated
  <2> QED
    BY <1>1, <1>2, <1>3, <1>4, <1>8, <2>1, <2>2, <2>3, <2>4 DEF One
<1> QED
  BY <1>5, <1>9 DEF LostInv

\* All that two files yielded is kept, but at their ends.
LEMMA BothKept ==
  ASSUME Run(opts, held), NEW p \in ToSet(Paths), NEW q \in ToSet(Paths), NodeOf[p] = NodeOf[q],
         NEW s, Whole(s, p), NEW t, Whole(t, q), NEW f, NEW g,
         s # <<>> => DOMAIN f # {}, \A k \in DOMAIN f : f[k] = s,
         \/ t = <<>> /\ g = f
         \/ \E key, u : /\ g = Put(f, key, u)
                        /\ u = MergeTimeline(s, t) \/ (u = t /\ (key \notin DOMAIN f \/ p = q)),
         NEW x, (In(x, s) /\ p # q) \/ In(x, t), x.date # 0, p = q \/ (Inside(x, s) /\ Inside(x, t))
  PROVE  \E k \in DOMAIN g : Kept(g[k], x.id, x.re)
<1>1. (In(x, s) => Kept(s, x.id, x.re)) /\ (In(x, t) => Kept(t, x.id, x.re))
  BY DEF In, Kept
<1>2. Kept(MergeTimeline(s, t), x.id, x.re)
  <2>1. CASE p = q
    BY <2>1, SameMerged
  <2>2. CASE p # q
    BY <2>2, PiecesMerged
  <2> QED
    BY <2>1, <2>2
<1>3. In(x, s) => \E k \in DOMAIN f : TRUE
  <2>1. DOMAIN <<>> = {}
    OBVIOUS
  <2> QED
    BY <2>1 DEF In
<1>4. CASE t = <<>> /\ g = f
  <2>1. DOMAIN <<>> = {}
    OBVIOUS
  <2>2. In(x, s)
    BY <1>4, <2>1 DEF In
  <2>3. PICK k \in DOMAIN f : TRUE
    BY <1>3, <2>2
  <2>4. f[k] = s
    BY <2>3
  <2> QED
    BY <1>1, <1>4, <2>2, <2>3, <2>4
<1>5. CASE \E key, u : /\ g = Put(f, key, u)
                       /\ u = MergeTimeline(s, t) \/ (u = t /\ (key \notin DOMAIN f \/ p = q))
  <2>1. PICK key, u : /\ g = Put(f, key, u)
                      /\ u = MergeTimeline(s, t) \/ (u = t /\ (key \notin DOMAIN f \/ p = q))
    BY <1>5
  <2>2. key \in DOMAIN g /\ g[key] = u /\ \A k \in DOMAIN f : k # key => k \in DOMAIN g /\ g[k] = s
    BY <2>1 DEF Put
  <2>3. CASE u = MergeTimeline(s, t)
    BY <1>2, <2>2, <2>3
  <2>4. CASE u = t /\ (key \notin DOMAIN f \/ p = q)
    <3>1. CASE In(x, t)
      BY <1>1, <2>2, <2>4, <3>1
    <3>2. CASE In(x, s) /\ p # q
      <4>1. PICK k \in DOMAIN f : k # key
        BY <1>3, <2>4, <3>2
      <4> QED
        BY <1>1, <2>2, <3>2, <4>1
    <3> QED
      BY <3>1, <3>2
  <2> QED
    BY <2>1, <2>3, <2>4
<1> QED
  BY <1>4, <1>5

LEMMA SecondFile ==
  ASSUME ReadInv, FilesInOrder, FileFrom, TwoPieces, NoOperator, Merge,
         NEW p, NEW s, One(p, s), Len(todo) <= 1
  PROVE  LostInv'
<1>1. /\ phase = "merge" /\ tl' \in Merged /\ accepted' = Put(accepted, Path, SaidOf(lt))
      /\ todo' = Tail(todo) /\ UNCHANGED <<opts, held>>
  BY DEF Merge, SaidOf
<1>2. PICK q, t, f, g : q = Path /\ t = lt /\ f = tl /\ g = tl'
  OBVIOUS
<1>3. q \in ToSet(Paths) /\ Whole(t, q) /\ p \in ToSet(Paths) /\ Whole(s, p) /\ NodeOf[p] = NodeOf[q]
  <2>1. q \in ToSet(Paths) /\ Whole(t, q)
    BY <1>1, <1>2, WholeRead
  <2> QED
    BY <2>1 DEF One, TwoPieces
<1>4. todo' = <<>>
  <2>1. todo \in Seq(ToSet(Paths)) /\ todo # <<>>
    BY <1>1 DEF ReadInv, FileRead
  <2>2. Tail(todo) \in Seq(ToSet(Paths)) /\ Len(Tail(todo)) = Len(todo) - 1 /\ Len(todo) \in Nat
    BY <2>1
  <2>3. Len(Tail(todo)) = 0
    BY <2>2
  <2> QED
    BY <1>1, <2>2, <2>3
<1>5. ~Operator /\ Run(opts, held)
  BY DEF ReadInv, Run, NoOperator, Operator
<1>6. /\ s # <<>> => DOMAIN f # {}
      /\ \A k \in DOMAIN f : f[k] = s
  BY <1>2 DEF One
<1>7. \/ t = <<>> /\ g = f
      \/ \E key, u : /\ g = Put(f, key, u)
                     /\ u = MergeTimeline(s, t) \/ (u = t /\ (key \notin DOMAIN f \/ p = q))
  <2>1. CASE lt = <<>>
    BY <1>1, <1>2, <2>1 DEF Merged
  <2>2. CASE lt # <<>>
    <3>1. \A k \in DOMAIN tl : TimedColumn(tl[k])
      BY <1>1 DEF FilesInOrder
    <3> QED
      BY <1>1, <1>2, <1>5, <2>2, <3>1, MergedSecond
  <2> QED
    BY <2>1, <2>2
<1>8. PICK a : a = accepted'
  OBVIOUS
<1>9. /\ DOMAIN a = {p, q} /\ a[q] = SaidOf(t) /\ (p # q => a[p] = SaidOf(s))
  BY <1>1, <1>2, <1>8 DEF One, Put
<1>10. \A v \in {p, q} : a[v] = IF v = q THEN SaidOf(t) ELSE SaidOf(s)
  BY <1>9
<1>11. ASSUME NEW v \in DOMAIN a, NEW i \in DOMAIN a[v], a[v][i].at # 0,
              ~(\E w \in DOMAIN a : NodeOf[w] = NodeOf[v] /\ a[v][i].at \in Ends(w)')
       PROVE  \E k \in DOMAIN g : Kept(g[k], a[v][i].id, a[v][i].re)
  <2>1. PICK x : /\ x = IF v = q THEN t[i] ELSE s[i]
    OBVIOUS
  <2>2. (v = q /\ In(x, t)) \/ (v = p /\ p # q /\ In(x, s))
    BY <1>9, <1>11, <2>1 DEF In, SaidOf
  <2>3. a[v][i] = Said(x)
    BY <1>9, <1>11, <2>1 DEF SaidOf
  <2>4. Stored(x)
    BY <1>3, <2>2 DEF Whole, Timed, In
  <2>5. x.date # 0 /\ a[v][i].at = x.date /\ a[v][i].id = x.id /\ a[v][i].re = x.re
    <3>1. Said(x).at = x.date
      BY <2>4, StoredDated DEF Said
    <3> QED
      BY <1>11, <2>3, <3>1 DEF Said
  <2>6. \A w, r : w \in DOMAIN a /\ a[w] = SaidOf(r) /\ Timed(r) => Inside(x, r)
    <3> SUFFICES ASSUME NEW w \in DOMAIN a, NEW r, a[w] = SaidOf(r), Timed(r), ~Inside(x, r) PROVE FALSE
      OBVIOUS
    <3>1. x.date = FirstTime(r) \/ x.date = LastTime(r)
      BY DEF Inside
    <3>2. PICK times : times = TimesOf(SaidOf(r))
      OBVIOUS
    <3>3. times # {} /\ x.date \in {Min(times), Max(times)}
      BY <2>5, <3>1, <3>2, EndsAre
    <3>4. Ends(w)' = IF times = {} THEN {} ELSE {Min(times), Max(times)}
      BY <1>8, <3>2 DEF Ends, TimesOf
    <3>5. NodeOf[w] = NodeOf[v]
      BY <1>3, <1>9
    <3> QED
      BY <1>11, <2>5, <3>3, <3>4, <3>5
  <2>7. p = q \/ (Inside(x, s) /\ Inside(x, t))
    BY <1>3, <1>9, <2>6 DEF Whole
  <2>8. \E k \in DOMAIN g : Kept(g[k], x.id, x.re)
    BY <1>3, <1>5, <1>6, <1>7, <2>2, <2>5, <2>7, BothKept
  <2> QED
    BY <2>5, <2>8
<1>12. DatedKept'
  BY <1>2, <1>8, <1>11 DEF DatedKept
<1> QED
  BY <1>4, <1>12 DEF LostInv

LEMMA LostStart == TwoPieces /\ Init => LostInv
<1>1. DOMAIN EmptyMap = {}
  BY DEF EmptyMap
<1> QED
  BY <1>1 DEF Init, LostInv, TwoPieces

LEMMA LostStep ==
  ASSUME TwoPieces, NoOperator
  PROVE  ReadInv /\ FilesInOrder /\ FileFrom /\ LostInv /\ [Next]_vars => LostInv'
<1> SUFFICES ASSUME ReadInv, FilesInOrder, FileFrom, LostInv, [Next]_vars PROVE LostInv'
  OBVIOUS
<1> USE DEF printed, reading
<1>1. CASE Merge
  <2>1. phase = "merge" /\ todo # <<>>
    BY <1>1 DEF Merge, ReadInv, FileRead
  <2>2. CASE DOMAIN tl = {} /\ DOMAIN accepted = {} /\ Len(todo) <= 2
    BY <1>1, <2>2, FirstFile
  <2>3. CASE Len(todo) <= 1 /\ \E p, s : One(p, s)
    <3>1. PICK p, s : One(p, s)
      BY <2>3
    <3> QED
      BY <1>1, <2>3, <3>1, SecondFile
  <2> QED
    BY <2>1, <2>2, <2>3 DEF LostInv, Merging
<1>2. CASE Open \/ ReadLine \/ EndOfFile \/ UNCHANGED vars
  <2>1. UNCHANGED <<opts, held, todo, tl, accepted>> /\ (Merging' => Merging)
    BY <1>2 DEF Open, ReadLine, EndOfFile, vars, Merging
  <2>2. ASSUME NEW p, NEW s, One(p, s) PROVE One(p, s)'
    <3>1. Whole(s, p)'
      BY <2>1, <2>2, SameWhole DEF One
    <3>2. SaidOf(s)' = SaidOf(s)
      BY DEF SaidOf, Said, Dated
    <3> QED
      BY <2>1, <2>2, <3>1, <3>2 DEF One
  <2>3. (\E p, s : One(p, s)) => (\E p, s : One(p, s))'
    BY <2>2
  <2>4. DatedKept => DatedKept'
    <3>1. \A q : Ends(q)' = Ends(q)
      BY <2>1 DEF Ends
    <3>2. PICK a, f : a = accepted /\ f = tl
      OBVIOUS
    <3>3. accepted' = a /\ tl' = f
      BY <2>1, <3>2
    <3> QED
      BY <3>1, <3>2, <3>3 DEF DatedKept
  <2> QED
    BY <2>1, <2>3, <2>4 DEF LostInv
<1>3. CASE BadPath \/ Showing
  <2>1. ~Merging'
    BY <1>3 DEF BadPath, Showing, NothingFound, Fail, Conflicts, Ctx, ListHeader, Row, Footer, Merging
  <2> QED
    BY <2>1 DEF LostInv
<1> QED
  BY <1>1, <1>2, <1>3 DEF Next, Reading

LEMMA LostKept == ReadInv /\ FilesInOrder /\ LostInv => NoneLost
<1> SUFFICES ASSUME ReadInv, FilesInOrder, LostInv, Merging PROVE NoneLost
  BY DEF NoneLost
<1>1. \A k \in DOMAIN tl : TimedColumn(tl[k])
  BY DEF FilesInOrder, Merging
<1>2. ASSUME NEW k \in DOMAIN tl, NEW i \in DOMAIN tl[k], NEW j \in DOMAIN tl[k],
             i < j, Dated(tl[k][i]), Dated(tl[k][j])
      PROVE  tl[k][i].date <= tl[k][j].date
  <2>1. Timed(tl[k])
    BY <1>1 DEF TimedColumn
  <2> QED
    BY <1>2, <2>1 DEF Timed, InOrder, NoLater, Dated
<1>3. DatedKept
  <2>1. CASE DOMAIN accepted = {}
    BY <2>1 DEF DatedKept
  <2>2. CASE \E p, s : One(p, s)
    <3>1. PICK p, s : One(p, s)
      BY <2>2
    <3>2. PICK a : a = accepted[p]
      OBVIOUS
    <3>3. ASSUME NEW i \in DOMAIN a PROVE \E k \in DOMAIN tl : Kept(tl[k], a[i].id, a[i].re)
      <4>1. DOMAIN a = DOMAIN s /\ a[i].id = s[i].id /\ a[i].re = s[i].re
        BY <3>1, <3>2, <3>3 DEF One, SaidOf, Said
      <4>2. DOMAIN <<>> = {}
        OBVIOUS
      <4>3. PICK k \in DOMAIN tl : tl[k] = s
        BY <3>1, <3>3, <4>1, <4>2 DEF One
      <4> QED
        BY <3>3, <4>1, <4>3 DEF Kept
    <3>4. DOMAIN accepted = {p}
      BY <3>1 DEF One
    <3> QED
      BY <3>2, <3>3, <3>4 DEF DatedKept
  <2> QED
    BY <2>1, <2>2 DEF LostInv
<1> QED
  BY <1>2, <1>3 DEF NoneLost, DatedKept

\* For any log, any two files of it and any command but those for the operator:
\* whatever of it each holds and whichever is read first, no event that has a
\* date is lost in merging them, but at the very instants where one of them
\* starts or ends, and what results is in the order of time.  Three files may
\* lose more: the one read last may fall in the gap between two merged before.
THEOREM NoneLostTheorem ==
  ASSUME TwoPieces, NoOperator
  PROVE  Spec => []NoneLost
<1>1. OneFileEach
  BY DEF NoOperator, OneFileEach
<1>2. ReadInv /\ FilesInOrder /\ [Next]_vars => FilesInOrder'
  BY <1>1, FilesStep
<1>3. ReadInv /\ FilesInOrder /\ FileFrom /\ LostInv /\ [Next]_vars => LostInv'
  BY LostStep
<1>4. Init => FilesInOrder /\ FileFrom /\ LostInv
  <2>1. Init => FilesInOrder
    BY OrderStart DEF OrderInv
  <2>2. Init => FileFrom
    BY DEF Init, FileFrom
  <2> QED
    BY <2>1, <2>2, LostStart
<1> QED
  BY <1>2, <1>3, <1>4, ReadStart, ReadStep, FromStep, LostKept, PTL DEF Spec
=============================================================================
