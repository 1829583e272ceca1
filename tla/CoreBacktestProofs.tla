------------------------- MODULE CoreBacktestProofs -------------------------
(***************************************************************************)
(* The splitter in a backtest is the one of WalkForward, so that what is   *)
(* proved of it holds here.  On this rest the scores, and the reports.     *)
(***************************************************************************)
EXTENDS CoreBacktest, Counting

\* The splitter of the backtest, with what is proved of it.
Proved == INSTANCE WalkForwardProofs

Loaded == stage \in {"split", "next_report", "write_report"}
Reporting == stage \in {"next_report", "write_report"}

FilesInv ==
    /\ gold \in GoldFiles \cup NoFile
    /\ dataset \in Datasets \cup NoFile
    /\ agents_yaml \in Configs

MemoryInv ==
    /\ stage \in Stages /\ gold_dir \in BOOLEAN /\ report \in 1 .. 3
    /\ edits \in 0 .. MaxEdits /\ commands \in 0 .. MaxCommands /\ kills \in 0 .. MaxKills
    /\ rows \subseteq DatasetRow /\ (stage = "write_dataset" => rows \in Datasets)
    /\ stage = "split" => report = 1

\* Before a dataset is loaded there is nothing to split or to report.
EmptyInv ==
    ~Loaded =>
        /\ n = 0 /\ trade_dates = <<>> /\ sorted_positions = <<>> /\ train = {}
        /\ last = 0 /\ folds = <<>> /\ pc = "begin"
        /\ todo = {} /\ fold_rows = {} /\ report = 1

SplitterInv == Proved!IInv /\ Proved!CountInv

DatesInv == trade_dates = [p \in 0 .. n - 1 |-> RowAt(p).trade_date]

\* The rows split are those of a dataset, in the order of their dates.
RowsInv ==
    Loaded =>
        /\ rows \in Datasets /\ DistinctDates(rows)
        /\ \A r \in rows : r.target \in Targets
        /\ n = Cardinality(rows) /\ DatesInv

Waiting(k, p) == k = Len(folds) /\ p \in todo

\* What a scored row says about the position it was decided for.
ScoreOf(s, p) ==
    /\ p \in folds[s.fold_id].test /\ ~Waiting(s.fold_id, p)
    /\ s.decision_date = DecisionDate(p) /\ RowAt(p).trade_date < DecisionDate(p)
    /\ s.target_label = RowAt(p).target /\ s.correct = (s.label = s.target_label)
    /\ s.snapshot_id = <<RowAt(p).trade_date, RowAt(p).feature>>

TodoInv == todo # {} => Len(folds) > 0 /\ todo \subseteq folds[Len(folds)].test

ScoresInv ==
    /\ fold_rows \subseteq BacktestRow
    /\ \A s \in fold_rows :
          s.fold_id \in 1 .. Len(folds) /\ \E p \in WF!Positions : ScoreOf(s, p)

\* No row is scored twice, and none that was tested is left out.
OnceInv == \A s, t \in fold_rows : s.snapshot_id[1] = t.snapshot_id[1] => s = t

EachInv ==
    \A k \in 1 .. Len(folds) : \A p \in folds[k].test :
        Waiting(k, p) \/ \E s \in fold_rows : s.fold_id = k /\ s.snapshot_id[1] = trade_dates[p]

Consistent(R) ==
    /\ R \subseteq BacktestRow /\ IsFiniteSet(R)
    /\ \A r \in R : r.correct = (r.label = r.target_label)

Unreported == [k \in 1 .. 3 |-> Absent]
ReportOf(R, k) == IF k = 1 THEN R ELSE Metrics(R)

\* The reports behind the one being written are of this backtest; between backtests,
\* unless one was killed, all three are of one.
ReportsInv ==
    /\ reports = [k \in 1 .. 3 |-> reports[k]]
    /\ reports[1] \in NoFile \/ reports[1] \subseteq BacktestRow
    /\ Reporting =>
          /\ todo = {}
          /\ \A k \in 1 .. report - 1 : reports[k] = ReportOf(fold_rows, k)
    /\ ~Reporting /\ kills = 0 =>
          \/ reports = Unreported
          \/ Consistent(reports[1]) /\ \A k \in 1 .. 3 : reports[k] = ReportOf(reports[1], k)

\* What the process has in memory for the folds.
WorkInv ==
    /\ EmptyInv /\ SplitterInv /\ RowsInv
    /\ TodoInv /\ ScoresInv /\ OnceInv /\ EachInv

IInv == FilesInv /\ MemoryInv /\ WorkInv /\ ReportsInv

-----------------------------------------------------------------------------
(* Datasets, and the ranks of their rows. *)

\* A label from Gold tells of a later day, and no row lies between the two.
LEMMA DatasetFacts ==
    ASSUME NEW D \in Datasets
    PROVE  /\ D \subseteq DatasetRow
           /\ \A r, q \in D :
                 r.about # Unknown =>
                     /\ r.about \in Dates /\ r.trade_date < r.about
                     /\ q.trade_date <= r.trade_date \/ r.about <= q.trade_date
<1>1. CASE D \in HandMade
  BY <1>1, BacktestAssumption
<1>2. ASSUME NEW g \in GoldFiles \cup {{}}, D = DatasetOf(g)
      PROVE  /\ D \subseteq DatasetRow
             /\ \A r, q \in D :
                   /\ r.about \in Dates /\ r.trade_date < r.about
                   /\ q.trade_date <= r.trade_date \/ r.about <= q.trade_date
  <2>1. g \subseteq GoldRow
    BY BacktestAssumption
  <2>2. \A r \in D : \E p \in g \X g : r = Labelled(p[1], p[2]) /\ p \in Consecutive(g)
    BY <1>2 DEF DatasetOf, Consecutive
  <2>3. ASSUME NEW r \in D
        PROVE  /\ r \in DatasetRow /\ r.about \in Dates /\ r.trade_date < r.about
               /\ \A x \in g : x.trade_date <= r.trade_date \/ r.about <= x.trade_date
               /\ \E x \in g : r.trade_date = x.trade_date
    <3>1. PICK p \in g \X g : r = Labelled(p[1], p[2]) /\ p \in Consecutive(g)
      BY <2>2
    <3>2. p[1] \in GoldRow /\ p[2] \in GoldRow /\ p[1] \in g /\ p[2] \in g
      BY <2>1
    <3>3. r.trade_date = p[1].trade_date /\ r.about = p[2].trade_date
      BY <3>1 DEF Labelled
    <3>4. r \in DatasetRow
      BY <3>1, <3>2 DEF Labelled, Direction, DatasetRow, GoldRow, Targets
    <3> QED
      BY <3>1, <3>2, <3>3, <3>4 DEF Consecutive, GoldRow
  <2> QED
    BY <2>3
<1> QED
  BY <1>1, <1>2 DEF Datasets

\* Rows of different days are no more than there are days.
LEMMA DistinctIsFinite ==
    ASSUME NEW D, D \subseteq DatasetRow, DistinctDates(D)
    PROVE  IsFiniteSet(D) /\ Cardinality(D) \in Nat
<1> DEFINE f == [r \in D |-> r.trade_date]
<1>1. IsFiniteSet(Dates)
  BY FS_Interval, BacktestAssumption DEF Dates
<1>2. (\A r \in D : f[r] \in Dates) /\ \A r, s \in D : f[r] = f[s] => r = s
  BY DEF DistinctDates, DatasetRow
<1> HIDE DEF f
<1> QED
  BY <1>1, <1>2, InjectionSize, FS_CardinalityType

\* The position of a row is its rank by date, and each rank is taken.
LEMMA RankFacts ==
    ASSUME NEW D, D \subseteq DatasetRow, DistinctDates(D)
    PROVE  /\ \A r \in D : Position(D, r) \in 0 .. Cardinality(D) - 1
           /\ \A r, s \in D : r.trade_date < s.trade_date <=> Position(D, r) < Position(D, s)
           /\ \A p \in 0 .. Cardinality(D) - 1 : \E r \in D : Position(D, r) = p
<1> DEFINE Before(r) == {q \in D : q.trade_date < r.trade_date}
<1>1. IsFiniteSet(D) /\ Cardinality(D) \in Nat
  BY DistinctIsFinite
<1>2. \A r \in D : r.trade_date \in Int
  BY DEF DatasetRow, Dates
<1>3. ASSUME NEW r \in D
      PROVE  /\ IsFiniteSet(Before(r)) /\ Position(D, r) = Cardinality(Before(r))
             /\ Position(D, r) \in Nat
  BY <1>1, FS_Subset, FS_CardinalityType DEF Position
<1>4. ASSUME NEW r \in D
      PROVE  Position(D, r) \in 0 .. Cardinality(D) - 1
  <2>1. Before(r) \subseteq D \ {r}
    BY <1>2
  <2>2. IsFiniteSet(D \ {r}) /\ Cardinality(D \ {r}) = Cardinality(D) - 1
    BY <1>1, FS_RemoveElement
  <2>3. Cardinality(Before(r)) <= Cardinality(D \ {r})
    BY <2>1, <2>2, FS_Subset
  <2> HIDE DEF Before
  <2> QED
    BY <1>1, <1>3, <2>2, <2>3
<1>5. ASSUME NEW r \in D, NEW s \in D, r.trade_date < s.trade_date
      PROVE  Position(D, r) < Position(D, s)
  <2>1. Before(r) \subseteq Before(s) \ {r} /\ r \in Before(s)
    BY <1>2, <1>5
  <2>2. /\ IsFiniteSet(Before(s) \ {r})
        /\ Cardinality(Before(s) \ {r}) = Cardinality(Before(s)) - 1
    BY <1>3, <2>1, FS_RemoveElement
  <2>3. Cardinality(Before(r)) <= Cardinality(Before(s) \ {r})
    BY <2>1, <2>2, FS_Subset
  <2> HIDE DEF Before
  <2> QED
    BY <1>3, <2>2, <2>3
<1>6. \A r, s \in D : r.trade_date < s.trade_date <=> Position(D, r) < Position(D, s)
  <2> SUFFICES ASSUME NEW r \in D, NEW s \in D, Position(D, r) < Position(D, s)
               PROVE  r.trade_date < s.trade_date
    BY <1>5
  <2>1. Position(D, r) \in Nat /\ Position(D, s) \in Nat
    BY <1>3
  <2>2. r # s /\ ~(s.trade_date < r.trade_date)
    BY <1>5, <2>1
  <2> QED
    BY <1>2, <2>2 DEF DistinctDates
<1>7. \A p \in 0 .. Cardinality(D) - 1 : \E r \in D : Position(D, r) = p
  <2> DEFINE f == [r \in D |-> Position(D, r)]
             T == 0 .. Cardinality(D) - 1
  <2>1. IsFiniteSet(T) /\ Cardinality(D) = Cardinality(T)
    BY <1>1, FS_Interval
  <2>2. \A r \in D : f[r] \in T
    BY <1>4
  <2>3. \A r, s \in D : f[r] = f[s] => r = s
    BY <1>2, <1>3, <1>6 DEF DistinctDates
  <2>4. \A r \in D : f[r] = Position(D, r)
    OBVIOUS
  <2> HIDE DEF f, T
  <2>5. \A p \in T : \E r \in D : f[r] = p
    BY <2>1, <2>2, <2>3, InjectionOnto
  <2> QED
    BY <2>4, <2>5 DEF T
<1> QED
  BY <1>4, <1>6, <1>7

\* The rows in memory, by position.
LEMMA RowAtFacts ==
    ASSUME RowsInv, Loaded
    PROVE  /\ n \in Nat /\ n <= MaxRows /\ IsFiniteSet(rows) /\ rows \subseteq DatasetRow
           /\ \A p \in 0 .. n - 1 : RowAt(p) \in rows /\ trade_dates[p] = RowAt(p).trade_date
           /\ \A p, q \in 0 .. n - 1 : p < q <=> RowAt(p).trade_date < RowAt(q).trade_date
           /\ \A r \in rows : \E p \in 0 .. n - 1 : r = RowAt(p)
<1>1. /\ rows \in Datasets /\ DistinctDates(rows) /\ n = Cardinality(rows)
      /\ trade_dates = [p \in 0 .. n - 1 |-> RowAt(p).trade_date]
  BY DEF RowsInv, DatesInv
<1>2. rows \subseteq DatasetRow /\ IsFiniteSet(rows) /\ n \in Nat /\ n <= MaxRows
  BY <1>1, DatasetFacts, DistinctIsFinite, RowsAssumption
<1>3. /\ \A r \in rows : Position(rows, r) \in 0 .. n - 1
      /\ \A r, s \in rows :
            r.trade_date < s.trade_date <=> Position(rows, r) < Position(rows, s)
      /\ \A p \in 0 .. n - 1 : \E r \in rows : Position(rows, r) = p
  BY <1>1, <1>2, RankFacts
<1>4. \A p \in 0 .. n - 1 : RowAt(p) \in rows /\ Position(rows, RowAt(p)) = p
  BY <1>3 DEF RowAt
<1>5. ASSUME NEW r \in rows
      PROVE  r = RowAt(Position(rows, r))
  <2> DEFINE q == RowAt(Position(rows, r))
  <2>1. Position(rows, r) \in 0 .. n - 1
    BY <1>3
  <2>2. q \in rows /\ Position(rows, q) = Position(rows, r)
    BY <1>4, <2>1
  <2> HIDE DEF q
  <2>3. ~(r.trade_date < q.trade_date) /\ ~(q.trade_date < r.trade_date)
    BY <1>3, <2>1, <2>2
  <2>4. r.trade_date \in Int /\ q.trade_date \in Int
    BY <1>2, <2>2 DEF DatasetRow, Dates
  <2>5. r = q
    BY <1>1, <2>2, <2>3, <2>4 DEF DistinctDates
  <2> QED
    BY <2>5 DEF q
<1>6. \A p \in 0 .. n - 1 : trade_dates[p] = RowAt(p).trade_date
  BY <1>1
<1>7. \A p, q \in 0 .. n - 1 : p < q <=> RowAt(p).trade_date < RowAt(q).trade_date
  BY <1>3, <1>4
<1> QED
  BY <1>2, <1>3, <1>4, <1>5, <1>6, <1>7

\* Positions are told apart by their dates.
LEMMA PositionsDiffer ==
    ASSUME RowsInv, Loaded, NEW p \in 0 .. n - 1, NEW q \in 0 .. n - 1,
           RowAt(p).trade_date = RowAt(q).trade_date
    PROVE  p = q
<1>1. RowAt(p).trade_date \in Int
  BY RowAtFacts DEF DatasetRow, Dates
<1>2. ~(p < q) /\ ~(q < p)
  BY <1>1, RowAtFacts
<1> QED
  BY <1>2, RowAtFacts

LEMMA NextWeekdayFacts ==
    ASSUME NEW d \in Dates
    PROVE  /\ NextWeekday(d) \in Weekdays /\ NextWeekday(d) \in Nat /\ NextWeekday(d) > d
           /\ \A w \in Weekdays : w > d => NextWeekday(d) <= w
<1> DEFINE S == {w \in Weekdays : w > d}
<1>1. S \in SUBSET Nat /\ S # {}
  BY BacktestAssumption
<1>2. \E w \in S : \A v \in S : w <= v
  BY <1>1, LeastOfSet
<1>3. \E w \in Weekdays : w > d /\ \A v \in Weekdays : v > d => w <= v
  BY <1>2
<1> QED
  BY <1>3, BacktestAssumption DEF NextWeekday

\* The decision is dated after its row, and no row lies between the two.
LEMMA DecisionFacts ==
    ASSUME RowsInv, Loaded, NEW p \in 0 .. n - 1
    PROVE  /\ DecisionDate(p) \in DecisionDates /\ RowAt(p).trade_date < DecisionDate(p)
           /\ \A q \in rows : q.trade_date <= RowAt(p).trade_date \/ DecisionDate(p) <= q.trade_date
<1>1. n \in Nat /\ RowAt(p) \in rows /\ RowAt(p).trade_date \in Dates
  BY RowAtFacts DEF DatasetRow
<1>2. CASE p + 1 < n
  <2>1. p + 1 \in 0 .. n - 1 /\ DecisionDate(p) = RowAt(p + 1).trade_date
    BY <1>1, <1>2 DEF DecisionDate
  <2>2. RowAt(p).trade_date < RowAt(p + 1).trade_date /\ RowAt(p + 1).trade_date \in Dates
    BY <2>1, RowAtFacts DEF DatasetRow
  <2>3. ASSUME NEW q \in rows
        PROVE  q.trade_date <= RowAt(p).trade_date \/ DecisionDate(p) <= q.trade_date
    <3>1. PICK k \in 0 .. n - 1 : q = RowAt(k)
      BY RowAtFacts
    <3>2. q.trade_date \in Int /\ RowAt(p).trade_date \in Int /\ RowAt(p + 1).trade_date \in Int
      BY <1>1, <2>2, RowAtFacts DEF DatasetRow, Dates
    <3>3. ~(p < k) \/ ~(k < p + 1)
      OBVIOUS
    <3>4. ~(RowAt(p).trade_date < q.trade_date) \/ ~(q.trade_date < RowAt(p + 1).trade_date)
      BY <2>1, <3>1, <3>3, RowAtFacts
    <3> QED
      BY <2>1, <3>2, <3>4
  <2> QED
    BY <2>1, <2>2, <2>3 DEF DecisionDates
<1>3. CASE ~(p + 1 < n)
  <2>1. DecisionDate(p) = NextWeekday(RowAt(p).trade_date)
    BY <1>3 DEF DecisionDate
  <2>2. DecisionDate(p) \in Weekdays /\ RowAt(p).trade_date < DecisionDate(p)
    BY <1>1, <2>1, NextWeekdayFacts DEF Dates
  <2>3. ASSUME NEW q \in rows
        PROVE  q.trade_date <= RowAt(p).trade_date
    <3>1. PICK k \in 0 .. n - 1 : q = RowAt(k)
      BY RowAtFacts
    <3>2. q.trade_date \in Int /\ RowAt(p).trade_date \in Int
      BY <1>1, RowAtFacts DEF DatasetRow, Dates
    <3>3. ~(p < k)
      BY <1>1, <1>3
    <3> QED
      BY <3>1, <3>2, <3>3, RowAtFacts
  <2> QED
    BY <2>2, <2>3 DEF DecisionDates
<1> QED
  BY <1>2, <1>3

-----------------------------------------------------------------------------
(* The splitter in the backtest. *)

LEMMA SplitterAssumed == Proved!SplitterAssumption
BY BacktestAssumption DEF Proved!SplitterAssumption, RowCounts, Dates

\* Both instances of the splitter are the same.
LEMMA SameResume == WF!Resume => Proved!Next
BY DEF WF!Resume, Proved!Next, Proved!Resume, WF!Begin, Proved!Begin, WF!Return, Proved!Return,
       WF!Raise, Proved!Raise, WF!Yield, Proved!Yield, WF!Orders, Proved!Orders,
       WF!StablySorts, Proved!StablySorts, WF!TooFewRows, Proved!TooFewRows,
       WF!DateAt, Proved!DateAt, WF!train_cutoff, Proved!train_cutoff,
       WF!test_start, Proved!test_start, WF!test_stop, Proved!test_stop, WF!test, Proved!test,
       WF!Exhausted, Proved!Exhausted, WF!Tied, Proved!Tied, WF!RowsAt, Proved!RowsAt,
       WF!Positions, Proved!Positions, WF!inputs, Proved!inputs

LEMMA SameTypes == Proved!TypeOK => WF!TypeOK
BY DEF WF!TypeOK, Proved!TypeOK, WF!InputsOK, Proved!InputsOK, WF!Positions, Proved!Positions,
       WF!Fold, Proved!Fold

LEMMA SameTested == Proved!Tested = WF!Tested /\ Proved!Positions = WF!Positions
BY DEF WF!Tested, Proved!Tested, WF!Positions, Proved!Positions

\* Wherever the generator is new, its invariants hold.
LEMMA NewSplitter == Proved!Init => SplitterInv
BY SplitterAssumed, Proved!InitIInv, Proved!InitCount
   DEF SplitterInv, Proved!SplitterAssumption

LEMMA NewSplitterNext == Proved!Init' => SplitterInv'
BY NewSplitter, PTL

LEMMA SplitterStep ==
    ASSUME SplitterInv, WF!Resume \/ UNCHANGED splitter
    PROVE  SplitterInv'
<1>1. CASE WF!Resume
  <2>1. Proved!Next
    BY <1>1, SameResume
  <2> QED
    BY <2>1, SplitterAssumed, Proved!BeginStep, Proved!StopStep, Proved!YieldStep,
       Proved!BeginCount, Proved!StopCount, Proved!YieldCount
       DEF SplitterInv, Proved!SplitterAssumption, Proved!Next, Proved!Resume
<1>2. CASE UNCHANGED splitter
  <2>1. UNCHANGED Proved!vars
    BY <1>2 DEF splitter, Proved!vars, Proved!inputs
  <2> QED
    BY <2>1, SplitterAssumed, Proved!StutterStep, Proved!StutterCount
       DEF SplitterInv, Proved!SplitterAssumption
<1> QED
  BY <1>1, <1>2

\* What the backtest needs to know of the folds.
LEMMA FoldFacts ==
    ASSUME SplitterInv
    PROVE  /\ n \in Nat /\ Len(folds) \in Nat /\ Len(folds) <= n
           /\ \A k \in 1 .. Len(folds) : folds[k].test \subseteq 0 .. n - 1
           /\ \A k, m \in 1 .. Len(folds) : k # m => folds[k].test \cap folds[m].test = {}
           /\ min_train_rows \in MinTrainRows /\ test_fold_size \in TestFoldSizes
           /\ gap_days \in GapDays
<1>1. Proved!TypeOK /\ Proved!Apart /\ Proved!FewFolds
  BY DEF SplitterInv, Proved!IInv, Proved!CountInv
<1>2. /\ n \in RowCounts /\ folds \in Seq(Proved!Fold)
      /\ min_train_rows \in MinTrainRows /\ test_fold_size \in TestFoldSizes
      /\ gap_days \in GapDays
  BY <1>1 DEF Proved!TypeOK, Proved!InputsOK
<1>3. n \in Nat /\ Len(folds) \in Nat /\ Len(folds) <= n
  BY <1>1, <1>2 DEF RowCounts, Proved!FewFolds
<1>4. \A k \in 1 .. Len(folds) : folds[k] \in Proved!Fold
  BY <1>2
<1>5. \A k \in 1 .. Len(folds) : folds[k].test \subseteq 0 .. n - 1
  BY <1>4 DEF Proved!Fold, Proved!Positions
<1>6. ASSUME NEW k \in 1 .. Len(folds), NEW m \in 1 .. Len(folds), k # m
      PROVE  folds[k].test \cap folds[m].test = {}
  <2>1. k \in 1 .. m - 1 \/ m \in 1 .. k - 1
    BY <1>3, <1>6
  <2> QED
    BY <1>1, <2>1 DEF Proved!Apart
<1> QED
  BY <1>2, <1>3, <1>5, <1>6

\* A resumption yields a fold, or none.
LEMMA ResumeFacts ==
    ASSUME SplitterInv, WF!Resume
    PROVE  /\ UNCHANGED <<n, trade_dates>>
           /\ \/ folds' = folds
              \/ /\ Len(folds') = Len(folds) + 1
                 /\ \A k \in 1 .. Len(folds) : folds'[k] = folds[k]
<1>1. UNCHANGED <<n, trade_dates>>
  BY DEF WF!Resume, WF!Begin, WF!Return, WF!Raise, WF!Yield, WF!inputs
<1>2. CASE WF!Begin \/ WF!Return \/ WF!Raise
  BY <1>1, <1>2 DEF WF!Begin, WF!Return, WF!Raise
<1>3. CASE WF!Yield
  <2>1. PICK f : folds' = Append(folds, f)
    BY <1>3 DEF WF!Yield
  <2>2. folds \in Seq(Proved!Fold)
    BY DEF SplitterInv, Proved!IInv, Proved!TypeOK
  <2>3. Len(folds') = Len(folds) + 1 /\ \A k \in 1 .. Len(folds) : folds'[k] = folds[k]
    BY <2>1, <2>2
  <2> QED
    BY <1>1, <2>3
<1> QED
  BY <1>2, <1>3 DEF WF!Resume

-----------------------------------------------------------------------------
(* The steps, for what is in memory. *)

\* Before a dataset is loaded, and after a process has gone, the generator is a new one,
LEMMA NotLoadedSplitter ==
    ASSUME ~Loaded', EmptyInv', min_train_rows' \in MinTrainRows,
           test_fold_size' \in TestFoldSizes, gap_days' \in GapDays
    PROVE  Proved!Init'
<1>1. /\ n' = 0 /\ trade_dates' = <<>> /\ sorted_positions' = <<>> /\ train' = {}
      /\ last' = 0 /\ folds' = <<>> /\ pc' = "begin"
  BY DEF EmptyInv
<1>2. Proved!Positions' = {}
  BY <1>1 DEF Proved!Positions
<1>3. 0 \in RowCounts
  BY BacktestAssumption DEF RowCounts
<1>4. Proved!InputsOK'
  BY <1>1, <1>2, <1>3 DEF Proved!InputsOK
<1> QED
  BY <1>1, <1>2, <1>4 DEF Proved!Init

\* and there is nothing to keep.
LEMMA NotLoadedWork ==
    ASSUME ~Loaded', EmptyInv', min_train_rows' \in MinTrainRows,
           test_fold_size' \in TestFoldSizes, gap_days' \in GapDays
    PROVE  WorkInv'
<1>1. n' = 0 /\ folds' = <<>> /\ todo' = {} /\ fold_rows' = {}
  BY DEF EmptyInv
<1>2. SplitterInv'
  BY NotLoadedSplitter, NewSplitterNext
<1>3. RowsInv' /\ TodoInv' /\ ScoresInv' /\ OnceInv' /\ EachInv'
  BY <1>1 DEF RowsInv, TodoInv, ScoresInv, OnceInv, EachInv
<1> QED
  BY <1>2, <1>3 DEF WorkInv

LEMMA MinIsElement ==
    ASSUME NEW S \in SUBSET Nat, S # {}
    PROVE  Min(S) \in S
BY LeastOfSet DEF Min

LEMMA EndParameters ==
    ASSUME End
    PROVE  /\ ~Loaded' /\ EmptyInv'
           /\ min_train_rows' \in MinTrainRows /\ test_fold_size' \in TestFoldSizes
           /\ gap_days' \in GapDays
<1>1. ~Loaded' /\ EmptyInv'
  BY DEF End, Loaded, EmptyInv
<1>2. /\ MinTrainRows \in SUBSET Nat /\ MinTrainRows # {}
      /\ TestFoldSizes \in SUBSET Nat /\ TestFoldSizes # {}
      /\ GapDays \in SUBSET Nat /\ GapDays # {}
  BY BacktestAssumption
<1>3. /\ Min(MinTrainRows) \in MinTrainRows /\ Min(TestFoldSizes) \in TestFoldSizes
      /\ Min(GapDays) \in GapDays
  BY <1>2, MinIsElement
<1> QED
  BY <1>1, <1>3 DEF End

LEMMA EndWork == End => WorkInv'
BY EndParameters, NotLoadedWork

\* The commands begin.
Begins ==
    \/ \E directory \in BOOLEAN : StartBuild(directory)
    \/ \E m \in MinTrainRows, t \in TestFoldSizes, g \in GapDays : StartBacktest(m, t, g)
    \/ OpenDataset

LEMMA BeginParameters ==
    ASSUME IInv, ~Loaded, Begins
    PROVE  /\ ~Loaded' /\ EmptyInv'
           /\ min_train_rows' \in MinTrainRows /\ test_fold_size' \in TestFoldSizes
           /\ gap_days' \in GapDays
<1> USE DEF Begins
<1>1. ~Loaded'
  BY DEF StartBuild, StartBacktest, OpenDataset, Loaded
<1>2. EmptyInv'
  BY <1>1 DEF IInv, WorkInv, EmptyInv, StartBuild, StartBacktest, OpenDataset, splitter
<1>3. /\ min_train_rows' \in MinTrainRows /\ test_fold_size' \in TestFoldSizes
      /\ gap_days' \in GapDays
  BY FoldFacts DEF IInv, WorkInv, StartBuild, StartBacktest, OpenDataset, splitter
<1> QED
  BY <1>1, <1>2, <1>3

LEMMA BeginWork == IInv /\ ~Loaded /\ Begins => WorkInv'
BY BeginParameters, NotLoadedWork

\* The dates of distinct rows are handed to a new generator.
LEMMA LoadSplitter ==
    ASSUME IInv, Load
    PROVE  Proved!Init'
<1>1. /\ ~Loaded /\ dataset \in Datasets /\ DistinctDates(dataset)
  BY DEF Load, Loadable, IInv, FilesInv, Loaded
<1>2. /\ n' = Cardinality(dataset) /\ sorted_positions' = [p \in 0 .. n' - 1 |-> p]
      /\ folds' = <<>> /\ train' = {} /\ last' = 0 /\ pc' = "begin"
      /\ UNCHANGED <<min_train_rows, test_fold_size, gap_days>>
  BY <1>1 DEF Load, IInv, WorkInv, EmptyInv
<1>3. dataset \subseteq DatasetRow /\ n' \in Nat /\ n' <= MaxRows
  BY <1>1, <1>2, DatasetFacts, DistinctIsFinite, RowsAssumption
<1>4. ASSUME NEW p \in 0 .. n' - 1
      PROVE  trade_dates'[p] \in Dates
  <2>1. \E r \in dataset : Position(dataset, r) = p
    BY <1>1, <1>2, <1>3, RankFacts
  <2>2. (CHOOSE r \in dataset : Position(dataset, r) = p).trade_date \in Dates
    BY <1>3, <2>1 DEF DatasetRow
  <2> QED
    BY <1>2, <2>2 DEF Load
<1>5. Proved!InputsOK'
  <2>1. trade_dates' \in [Proved!Positions' -> Dates]
    BY <1>2, <1>4 DEF Load, Proved!Positions
  <2>2. n' \in RowCounts
    BY <1>3, BacktestAssumption DEF RowCounts
  <2> QED
    BY <1>2, <2>1, <2>2, FoldFacts DEF Proved!InputsOK, IInv, WorkInv
<1> QED
  BY <1>2, <1>5 DEF Proved!Init, Proved!Positions

LEMMA LoadWork ==
    ASSUME IInv, Load
    PROVE  WorkInv'
<1>1. /\ ~Loaded /\ dataset \in Datasets /\ DistinctDates(dataset)
      /\ \A r \in dataset : r.target \in Targets
  BY DEF Load, Loadable, IInv, FilesInv, Loaded
<1>2. /\ rows' = dataset /\ n' = Cardinality(dataset)
      /\ todo' = {} /\ fold_rows' = {} /\ folds' = <<>> /\ Loaded'
  BY <1>1 DEF Load, IInv, WorkInv, EmptyInv, Loaded
<1>3. RowsInv'
  <2>1. DatesInv'
    BY <1>2 DEF Load, DatesInv, RowAt
  <2> QED
    BY <1>1, <1>2, <2>1 DEF RowsInv
<1>4. SplitterInv'
  BY LoadSplitter, NewSplitterNext
<1>5. EmptyInv' /\ TodoInv' /\ ScoresInv' /\ OnceInv' /\ EachInv'
  BY <1>2 DEF EmptyInv, TodoInv, ScoresInv, OnceInv, EachInv
<1> QED
  BY <1>3, <1>4, <1>5 DEF WorkInv

\* Writing the reports, and an edit, leave the folds and their scores alone.
LEMMA StillWork ==
    ASSUME WorkInv, Loaded' <=> Loaded, UNCHANGED <<rows, splitter, todo, fold_rows>>,
           ~Loaded => report' = report
    PROVE  WorkInv'
<1>1. UNCHANGED <<n, trade_dates, sorted_positions, train, last, folds, pc>>
  BY DEF splitter
<1>2. EmptyInv'
  BY <1>1 DEF WorkInv, EmptyInv
<1>3. SplitterInv'
  BY SplitterStep DEF WorkInv
<1>4. RowsInv' /\ TodoInv' /\ OnceInv'
  BY <1>1 DEF WorkInv, RowsInv, DatesInv, RowAt, TodoInv, OnceInv
<1>5. \A p : DecisionDate(p)' = DecisionDate(p) /\ RowAt(p)' = RowAt(p)
  BY <1>1 DEF DecisionDate, RowAt
<1>6. \A s, p : ScoreOf(s, p) => ScoreOf(s, p)'
  BY <1>1, <1>5 DEF ScoreOf, Waiting
<1>7. ScoresInv'
  BY <1>1, <1>6 DEF WorkInv, ScoresInv, WF!Positions
<1>8. EachInv'
  BY <1>1 DEF WorkInv, EachInv, Waiting
<1> QED
  BY <1>2, <1>3, <1>4, <1>7, <1>8 DEF WorkInv

\* A new fold comes when all of the last one is decided.
LEMMA SplitWork ==
    ASSUME IInv, Split
    PROVE  WorkInv'
<1>1. /\ Loaded /\ Loaded' /\ todo = {} /\ WF!Resume
      /\ todo' = IF Len(folds') > Len(folds) THEN folds'[Len(folds')].test ELSE {}
      /\ UNCHANGED <<rows, fold_rows>>
  BY DEF Split, Loaded
<1>2. /\ SplitterInv' /\ SplitterInv /\ RowsInv /\ TodoInv /\ ScoresInv /\ OnceInv /\ EachInv
  BY <1>1, SplitterStep DEF IInv, WorkInv
<1>3. /\ UNCHANGED <<n, trade_dates>> /\ Len(folds) \in Nat
      /\ \/ folds' = folds
         \/ Len(folds') = Len(folds) + 1 /\ \A k \in 1 .. Len(folds) : folds'[k] = folds[k]
  BY <1>1, <1>2, ResumeFacts, FoldFacts
<1>4. EmptyInv' /\ RowsInv' /\ OnceInv'
  BY <1>1, <1>2, <1>3 DEF EmptyInv, RowsInv, DatesInv, RowAt, OnceInv
<1>5. TodoInv'
  BY <1>1, <1>3 DEF TodoInv
<1>6. ScoresInv'
  <2>1. ASSUME NEW s \in fold_rows, s.fold_id \in 1 .. Len(folds), NEW p, ScoreOf(s, p)
        PROVE  s.fold_id \in 1 .. Len(folds') /\ ScoreOf(s, p)'
    <3>1. folds'[s.fold_id] = folds[s.fold_id] /\ s.fold_id \in 1 .. Len(folds')
      BY <1>3, <2>1
    <3>2. ~Waiting(s.fold_id, p)'
      BY <1>1, <1>3, <2>1 DEF Waiting
    <3>3. DecisionDate(p)' = DecisionDate(p) /\ RowAt(p)' = RowAt(p)
      BY <1>1, <1>3 DEF DecisionDate, RowAt
    <3> QED
      BY <2>1, <3>1, <3>2, <3>3 DEF ScoreOf
  <2> QED
    BY <1>1, <1>2, <1>3, <2>1 DEF ScoresInv, WF!Positions
<1>7. EachInv'
  <2> SUFFICES ASSUME NEW k \in 1 .. Len(folds'), NEW p \in folds'[k].test, ~Waiting(k, p)'
               PROVE  \E s \in fold_rows : s.fold_id = k /\ s.snapshot_id[1] = trade_dates[p]
    BY <1>1, <1>3 DEF EachInv
  <2>1. k \in 1 .. Len(folds) /\ folds'[k] = folds[k]
    BY <1>1, <1>3 DEF Waiting
  <2>2. ~Waiting(k, p)
    BY <1>1 DEF Waiting
  <2> QED
    BY <1>2, <2>1, <2>2 DEF EachInv
<1> QED
  BY <1>2, <1>4, <1>5, <1>6, <1>7 DEF WorkInv

\* The next test row is decided: it is a row of the current fold, not decided before.
LEMMA InvokeFacts ==
    ASSUME WorkInv, Invoking
    PROVE  /\ Loaded /\ Len(folds) \in 1 .. n /\ n <= MaxRows
           /\ Min(todo) \in todo /\ todo \subseteq folds[Len(folds)].test
           /\ Min(todo) \in 0 .. n - 1
<1>1. SplitterInv /\ RowsInv /\ TodoInv /\ Loaded /\ todo # {}
  BY DEF WorkInv, Invoking, Loaded
<1>2. Len(folds) > 0 /\ todo \subseteq folds[Len(folds)].test
  BY <1>1 DEF TodoInv
<1>3. Len(folds) \in 1 .. n /\ n \in Nat /\ folds[Len(folds)].test \subseteq 0 .. n - 1
  BY <1>1, <1>2, FoldFacts
<1>4. todo \in SUBSET Nat
  BY <1>2, <1>3
<1>5. Min(todo) \in todo
  BY <1>1, <1>4, MinIsElement
<1> QED
  BY <1>1, <1>2, <1>3, <1>5, RowAtFacts

LEMMA ScoredType ==
    ASSUME IInv, Invoking, Decide[agents_yaml][Feature] # Raises
    PROVE  Scored(Min(todo), Decide[agents_yaml][Feature]) \in BacktestRow
<1> DEFINE p == Min(todo)
<1>1. /\ Loaded /\ Len(folds) \in 1 .. MaxRows /\ p \in 0 .. n - 1 /\ RowsInv
  <2>1. Len(folds) \in 1 .. n /\ n \in Nat /\ n <= MaxRows
    BY InvokeFacts, FoldFacts DEF IInv, WorkInv
  <2> QED
    BY <2>1, InvokeFacts, BacktestAssumption DEF IInv, WorkInv
<1> HIDE DEF p
<1>2. RowAt(p) \in DatasetRow /\ RowAt(p).target \in Targets
  BY <1>1, RowAtFacts DEF RowsInv
<1>3. RowAt(p).feature \in Features /\ RowAt(p).trade_date \in Dates
  BY <1>2 DEF DatasetRow
<1>4. agents_yaml \in Configs /\ Feature = RowAt(p).feature
  BY DEF IInv, FilesInv, Feature, p
<1>5. Decide[agents_yaml][Feature] \in Labels
  BY <1>3, <1>4, BacktestAssumption
<1>6. DecisionDate(p) \in DecisionDates
  BY <1>1, DecisionFacts
<1> QED
  BY <1>1, <1>2, <1>3, <1>4, <1>5, <1>6 DEF Scored, BacktestRow, p

LEMMA InvokeWork ==
    ASSUME IInv, Invoke
    PROVE  WorkInv'
<1>0. PICK p, s : p = Min(todo) /\ s = Scored(p, Decide[agents_yaml][Feature])
  OBVIOUS
<1>1. /\ Loaded /\ Loaded' /\ fold_rows' = fold_rows \cup {s} /\ todo' = todo \ {p}
      /\ UNCHANGED <<rows, splitter, n, trade_dates, folds>> /\ Invoking
      /\ RowAt(p).trade_date < DecisionDate(p)
  BY <1>0 DEF Invoke, Invoking, Selected, Loaded, splitter
<1>2. /\ SplitterInv /\ RowsInv /\ TodoInv /\ ScoresInv /\ OnceInv /\ EachInv /\ SplitterInv'
  BY <1>1, SplitterStep DEF IInv, WorkInv
<1>3. /\ Len(folds) \in 1 .. n /\ p \in todo /\ todo \subseteq folds[Len(folds)].test
      /\ p \in 0 .. n - 1 /\ p \in folds[Len(folds)].test
  BY <1>0, <1>1, InvokeFacts DEF IInv, WorkInv
<1>4. /\ s.fold_id = Len(folds) /\ s.decision_date = DecisionDate(p)
      /\ s.target_label = RowAt(p).target /\ s.correct = (s.label = s.target_label)
      /\ s.snapshot_id = <<RowAt(p).trade_date, RowAt(p).feature>>
  BY <1>0 DEF Scored
<1>5. s \in BacktestRow
  BY <1>0, ScoredType DEF Invoke
<1>6. trade_dates[p] = RowAt(p).trade_date
  BY <1>1, <1>2, <1>3, RowAtFacts
<1>7. EmptyInv' /\ RowsInv' /\ TodoInv'
  BY <1>1, <1>2 DEF EmptyInv, RowsInv, DatesInv, RowAt, TodoInv
<1>8. \A q : DecisionDate(q)' = DecisionDate(q) /\ RowAt(q)' = RowAt(q)
  BY <1>1 DEF DecisionDate, RowAt
<1>9. ScoresInv'
  <2>1. ScoreOf(s, p)'
    BY <1>1, <1>3, <1>4, <1>8 DEF ScoreOf, Waiting
  <2>2. \A r, q : ScoreOf(r, q) => ScoreOf(r, q)'
    BY <1>1, <1>8 DEF ScoreOf, Waiting
  <2> QED
    BY <1>1, <1>2, <1>3, <1>4, <1>5, <2>1, <2>2 DEF ScoresInv, WF!Positions
<1>10. OnceInv'
  <2>1. ASSUME NEW r \in fold_rows
        PROVE  r.snapshot_id[1] # s.snapshot_id[1]
    <3>1. PICK q \in 0 .. n - 1 : ScoreOf(r, q) /\ r.fold_id \in 1 .. Len(folds)
      BY <1>2 DEF ScoresInv, WF!Positions
    <3> SUFFICES ASSUME r.snapshot_id[1] = s.snapshot_id[1] PROVE FALSE
      OBVIOUS
    <3>2. RowAt(q).trade_date = RowAt(p).trade_date
      BY <1>4, <3>1 DEF ScoreOf
    <3>3. q = p
      BY <1>1, <1>2, <1>3, <3>2, PositionsDiffer
    <3>4. r.fold_id = Len(folds)
      BY <1>2, <1>3, <3>1, <3>3, FoldFacts DEF ScoreOf
    <3> QED
      BY <1>3, <3>1, <3>3, <3>4 DEF ScoreOf, Waiting
  <2> QED
    BY <1>1, <1>2, <2>1 DEF OnceInv
<1>11. EachInv'
  <2> SUFFICES ASSUME NEW k \in 1 .. Len(folds), NEW q \in folds[k].test, ~Waiting(k, q)'
               PROVE  \E r \in fold_rows' : r.fold_id = k /\ r.snapshot_id[1] = trade_dates[q]
    BY <1>1 DEF EachInv
  <2>1. CASE Waiting(k, q)
    <3>1. k = Len(folds) /\ q = p
      BY <1>1, <2>1 DEF Waiting
    <3> QED
      BY <1>1, <1>4, <1>6, <3>1
  <2>2. CASE ~Waiting(k, q)
    BY <1>1, <1>2, <2>2 DEF EachInv
  <2> QED
    BY <2>1, <2>2
<1> QED
  BY <1>2, <1>7, <1>9, <1>10, <1>11 DEF WorkInv

-----------------------------------------------------------------------------

Fails == BuildFails \/ LoadFails \/ InvokeFails \/ NoRows

LEMMA WorkStep ==
    ASSUME IInv, [Next]_vars
    PROVE  WorkInv'
<1>1. CASE Start
  BY <1>1, BeginWork DEF Begins, Start, StartBuild, StartBacktest, Loaded
<1>2. CASE OpenDataset
  BY <1>2, BeginWork DEF Begins, OpenDataset, Loaded
<1>3. CASE CloseDataset \/ Fails \/ Kill
  BY <1>3, EndWork DEF CloseDataset, Fails, BuildFails, LoadFails, InvokeFails, NoRows, Kill
<1>4. CASE Load \/ Split \/ Invoke
  BY <1>4, LoadWork, SplitWork, InvokeWork
<1>5. CASE OpenReport
  BY <1>5, StillWork DEF OpenReport, Loaded, IInv
<1>6. CASE CloseReport
  <2>1. CASE report < 3
    BY <1>6, <2>1, StillWork DEF CloseReport, Loaded, IInv
  <2>2. CASE ~(report < 3)
    BY <1>6, <2>2, EndWork DEF CloseReport
  <2> QED
    BY <2>1, <2>2
<1>7. CASE EditAgents \/ UNCHANGED vars
  BY <1>7, StillWork DEF EditAgents, vars, Loaded, IInv
<1> QED
  BY <1>1, <1>2, <1>3, <1>4, <1>5, <1>6, <1>7 DEF Next, Run, Fails

\* The files hold what the commands and the editor of agents.yaml wrote.
LEMMA FilesStep ==
    ASSUME IInv, [Next]_vars
    PROVE  FilesInv'
<1>1. FilesInv /\ MemoryInv
  BY DEF IInv
<1>2. CASE OpenDataset \/ EditAgents
  BY <1>1, <1>2 DEF OpenDataset, EditAgents, FilesInv, NoFile
<1>3. CASE CloseDataset
  BY <1>1, <1>3 DEF CloseDataset, FilesInv, MemoryInv
<1>4. CASE UNCHANGED <<gold, dataset, agents_yaml>>
  BY <1>1, <1>4 DEF FilesInv
<1>5. CASE Start \/ Fails \/ Load \/ Split \/ Invoke \/ OpenReport \/ CloseReport \/ Kill
           \/ UNCHANGED vars
  BY <1>4, <1>5 DEF Start, StartBuild, StartBacktest, Fails, BuildFails, LoadFails,
     InvokeFails, NoRows, Load, Split, Invoke, OpenReport, CloseReport, Kill, files, vars
<1> QED
  BY <1>2, <1>3, <1>5 DEF Next, Run, Fails

LEMMA EndMemory ==
    ASSUME MemoryInv, End, UNCHANGED <<edits, commands>>, kills' \in 0 .. MaxKills
    PROVE  MemoryInv'
<1>1. stage' = "idle" /\ gold_dir' = FALSE /\ rows' = {} /\ report' = 1
  BY DEF End
<1>2. stage' \in Stages /\ gold_dir' \in BOOLEAN
  BY <1>1 DEF Stages
<1>3. report' \in 1 .. 3 /\ rows' \subseteq DatasetRow
  BY <1>1
<1> QED
  BY <1>1, <1>2, <1>3 DEF MemoryInv

LEMMA MemoryStep ==
    ASSUME IInv, [Next]_vars
    PROVE  MemoryInv'
<1>1. /\ FilesInv /\ MemoryInv /\ EmptyInv
      /\ MaxEdits \in Nat /\ MaxCommands \in Nat /\ MaxKills \in Nat
  BY BacktestAssumption DEF IInv, WorkInv
<1>2. CASE Start
  BY <1>1, <1>2 DEF Start, StartBuild, StartBacktest, MemoryInv, Stages, bounds
<1>3. CASE OpenDataset
  <2>1. DatasetOf(GoldRead) \in Datasets
    BY <1>1, <1>3 DEF OpenDataset, GoldReadable, GoldRead, FilesInv, Datasets, NoFile
  <2> QED
    BY <1>1, <1>3, <2>1, DatasetFacts DEF OpenDataset, MemoryInv, Stages, bounds
<1>4. CASE Load
  <2>1. dataset \in Datasets
    BY <1>1, <1>4 DEF Load, Loadable, FilesInv
  <2>2. report = 1
    BY <1>1, <1>4 DEF Load, EmptyInv, Loaded
  <2> QED
    BY <1>1, <1>4, <2>1, <2>2, DatasetFacts DEF Load, MemoryInv, Stages, bounds
<1>5. CASE CloseDataset \/ Fails \/ Kill
  BY <1>1, <1>5, EndMemory
     DEF CloseDataset, Fails, BuildFails, LoadFails, InvokeFails, NoRows, Kill, bounds, MemoryInv
<1>6. CASE Split \/ Invoke \/ OpenReport
  BY <1>1, <1>6 DEF Split, Invoke, Invoking, OpenReport, MemoryInv, Stages, bounds
<1>7. CASE CloseReport
  <2>1. CASE report < 3
    BY <1>1, <1>7, <2>1 DEF CloseReport, MemoryInv, Stages, bounds
  <2>2. CASE ~(report < 3)
    BY <1>1, <1>7, <2>2, EndMemory DEF CloseReport, bounds, MemoryInv
  <2> QED
    BY <2>1, <2>2
<1>8. CASE EditAgents \/ UNCHANGED vars
  BY <1>1, <1>8 DEF EditAgents, vars, MemoryInv, bounds
<1> QED
  BY <1>2, <1>3, <1>4, <1>5, <1>6, <1>7, <1>8 DEF Next, Run, Fails

\* What has been scored in a backtest is fit to be reported.
LEMMA ScoresConsistent ==
    ASSUME WorkInv
    PROVE  Consistent(fold_rows)
<1> DEFINE f == [s \in fold_rows |-> s.snapshot_id[1]]
<1>1. fold_rows \subseteq BacktestRow /\ OnceInv
  BY DEF WorkInv, ScoresInv
<1>2. \A s \in fold_rows : f[s] \in Dates
  BY <1>1 DEF BacktestRow
<1>3. \A s, t \in fold_rows : f[s] = f[t] => s = t
  BY <1>1 DEF OnceInv
<1>4. IsFiniteSet(Dates)
  BY FS_Interval, BacktestAssumption DEF Dates
<1> HIDE DEF f
<1>5. IsFiniteSet(fold_rows)
  BY <1>2, <1>3, <1>4, InjectionSize
<1>6. \A s \in fold_rows : s.correct = (s.label = s.target_label)
  BY DEF WorkInv, ScoresInv, ScoreOf
<1> QED
  BY <1>1, <1>5, <1>6 DEF Consistent

\* Away from the reports, only a kill matters to them.
LEMMA ReportsKept ==
    ASSUME ReportsInv, UNCHANGED reports, ~Reporting', kills' \in Nat,
           \/ ~Reporting /\ kills' = kills
           \/ kills' # 0
    PROVE  ReportsInv'
<1>1. \A R : Consistent(R)' = Consistent(R)
  OBVIOUS
<1> QED
  BY DEF ReportsInv, Consistent, ReportOf, Unreported

LEMMA ReportsStep ==
    ASSUME IInv, [Next]_vars
    PROVE  ReportsInv'
<1>1. /\ MemoryInv /\ WorkInv /\ ReportsInv /\ kills \in Nat /\ report \in 1 .. 3
      /\ reports = [k \in 1 .. 3 |-> reports[k]]
  <2>1. MaxKills \in Nat
    BY BacktestAssumption
  <2>2. MemoryInv /\ WorkInv /\ ReportsInv
    BY DEF IInv
  <2>3. reports = [k \in 1 .. 3 |-> reports[k]]
    BY <2>2 DEF ReportsInv
  <2>4. kills \in Nat /\ report \in 1 .. 3
    BY <2>1, <2>2 DEF MemoryInv
  <2> QED
    BY <2>2, <2>3, <2>4
<1>2. CASE Start \/ OpenDataset \/ CloseDataset \/ Fails \/ Load \/ Split \/ Invoke
  <2>1. UNCHANGED <<reports, kills>> /\ ~Reporting /\ ~Reporting'
    BY <1>2 DEF Start, StartBuild, StartBacktest, OpenDataset, CloseDataset, Fails, BuildFails,
       LoadFails, InvokeFails, NoRows, Load, Split, Invoke, Invoking, End, files, bounds, Reporting
  <2> QED
    BY <1>1, <2>1, ReportsKept
<1>3. CASE Kill
  <2>1. UNCHANGED reports /\ ~Reporting' /\ kills' \in Nat /\ kills' # 0
    BY <1>1, <1>3 DEF Kill, End, files, Reporting
  <2> QED
    BY <1>1, <2>1, ReportsKept
<1>4. CASE OpenReport
  <2>1. /\ todo = {} /\ todo' = todo /\ fold_rows' = fold_rows /\ report' = report
        /\ Reporting' /\ reports' = [reports EXCEPT ![report] = Torn]
        /\ ~Reporting => report = 1
    BY <1>1, <1>4 DEF OpenReport, ReportsInv, Reporting, MemoryInv
  <2>2. /\ reports' = [k \in 1 .. 3 |-> reports'[k]]
        /\ \A k \in 1 .. 3 : reports'[k] = IF k = report THEN Torn ELSE reports[k]
    BY <1>1, <2>1
  <2>3. \A k \in 1 .. report - 1 : reports'[k] = ReportOf(fold_rows, k)
    BY <1>1, <2>1, <2>2 DEF ReportsInv
  <2>4. reports'[1] \in NoFile \/ reports'[1] \subseteq BacktestRow
    BY <1>1, <2>2 DEF ReportsInv, NoFile
  <2> QED
    BY <2>1, <2>2, <2>3, <2>4 DEF ReportsInv, ReportOf
<1>5. CASE CloseReport
  <2>1. /\ Reporting /\ todo = {} /\ kills' = kills
        /\ reports' = [reports EXCEPT ![report] = ReportOf(fold_rows, report)]
    BY <1>1, <1>5 DEF CloseReport, ReportsInv, Reporting, ReportOf, bounds
  <2>2. /\ reports' = [k \in 1 .. 3 |-> reports'[k]]
        /\ \A k \in 1 .. 3 :
              reports'[k] = IF k = report THEN ReportOf(fold_rows, report) ELSE reports[k]
    BY <1>1, <2>1
  <2>3. ASSUME NEW k \in 1 .. report
        PROVE  reports'[k] = ReportOf(fold_rows, k)
    <3>1. k = report => reports'[k] = ReportOf(fold_rows, k)
      BY <1>1, <2>2
    <3>2. k # report => k \in 1 .. report - 1 /\ k \in 1 .. 3
      BY <1>1
    <3>3. k # report => reports'[k] = ReportOf(fold_rows, k)
      BY <1>1, <2>1, <2>2, <3>2 DEF ReportsInv
    <3> QED
      BY <3>1, <3>3
  <2>4. reports'[1] = fold_rows /\ fold_rows \subseteq BacktestRow /\ Consistent(fold_rows)
    BY <1>1, <2>3, ScoresConsistent DEF ReportOf, Consistent
  <2>5. CASE report < 3
    <3>1. /\ Reporting' /\ report' = report + 1 /\ todo' = todo /\ fold_rows' = fold_rows
      BY <1>5, <2>5 DEF CloseReport, Reporting
    <3>2. \A k \in 1 .. report' - 1 : reports'[k] = ReportOf(fold_rows', k)
      BY <1>1, <2>3, <3>1
    <3> QED
      BY <2>1, <2>2, <2>4, <3>1, <3>2 DEF ReportsInv, ReportOf
  <2>6. CASE ~(report < 3)
    <3>1. ~Reporting' /\ report = 3
      BY <1>1, <1>5, <2>6 DEF CloseReport, End, Reporting
    <3>2. \A k \in 1 .. 3 : reports'[k] = ReportOf(reports'[1], k)
      BY <2>3, <2>4, <3>1
    <3> QED
      BY <2>2, <2>4, <3>1, <3>2 DEF ReportsInv, ReportOf, Consistent
  <2> QED
    BY <2>5, <2>6
<1>6. CASE EditAgents \/ UNCHANGED vars
  <2>1. UNCHANGED <<reports, kills, todo, fold_rows, report>> /\ (Reporting' <=> Reporting)
    BY <1>6 DEF EditAgents, vars, files, bounds, Reporting
  <2> QED
    BY <1>1, <2>1 DEF ReportsInv, ReportOf, Consistent, Unreported
<1> QED
  BY <1>2, <1>3, <1>4, <1>5, <1>6 DEF Next, Run, Fails

LEMMA InitIInv == Init => IInv
<1> SUFFICES ASSUME Init PROVE IInv
  OBVIOUS
<1>1. FilesInv
  BY DEF Init, FilesInv, Datasets, NoFile
<1>2. MemoryInv
  <2>1. /\ stage = "idle" /\ gold_dir = FALSE /\ rows = {} /\ report = 1
        /\ edits = 0 /\ commands = 0 /\ kills = 0
    BY DEF Init
  <2>2. stage \in Stages /\ gold_dir \in BOOLEAN
    BY <2>1 DEF Stages
  <2>3. /\ report \in 1 .. 3 /\ rows \subseteq DatasetRow /\ edits \in 0 .. MaxEdits
        /\ commands \in 0 .. MaxCommands /\ kills \in 0 .. MaxKills
    BY <2>1, BacktestAssumption
  <2> QED
    BY <2>1, <2>2, <2>3 DEF MemoryInv
<1>3. ReportsInv
  BY DEF Init, ReportsInv, Reporting, Unreported, NoFile
<1>4. WorkInv
  <2>1. /\ MinTrainRows \in SUBSET Nat /\ MinTrainRows # {}
        /\ TestFoldSizes \in SUBSET Nat /\ TestFoldSizes # {}
        /\ GapDays \in SUBSET Nat /\ GapDays # {} /\ 0 \in RowCounts
    BY BacktestAssumption DEF RowCounts
  <2>2. /\ min_train_rows \in MinTrainRows /\ test_fold_size \in TestFoldSizes
        /\ gap_days \in GapDays
    BY <2>1, MinIsElement DEF Init
  <2>3. Proved!Init
    BY <2>1, <2>2 DEF Init, Proved!Init, Proved!InputsOK, Proved!Positions
  <2>4. EmptyInv /\ RowsInv /\ TodoInv /\ ScoresInv /\ OnceInv /\ EachInv
    BY DEF Init, EmptyInv, RowsInv, TodoInv, ScoresInv, OnceInv, EachInv, Loaded
  <2> QED
    BY <2>3, <2>4, NewSplitter DEF WorkInv
<1> QED
  BY <1>1, <1>2, <1>3, <1>4 DEF IInv

LEMMA IInvariance == Spec => []IInv
<1>1. IInv /\ [Next]_vars => IInv'
  BY FilesStep, MemoryStep, WorkStep, ReportsStep DEF IInv
<1> QED
  BY InitIInv, <1>1, PTL DEF Spec

\* Whatever happens to the generator is a step of module WalkForward, or a new one.
SplitterSteps == WF!Init /\ [][WF!Resume \/ WF!Init']_splitter

LEMMA SameInit == Proved!Init <=> WF!Init
BY DEF Proved!Init, WF!Init, Proved!InputsOK, WF!InputsOK, Proved!Positions, WF!Positions

LEMMA SameInitNext == Proved!Init' <=> WF!Init'
BY SameInit, PTL

\* The backtest uses the splitter as the generator it is (runner.py:66-88): each process
\* makes its own, of dates that fit it, and nothing else touches it, neither an
\* invocation, an edit, a report nor a second fold asked for too early.
THEOREM UsesSplitter == Spec => SplitterSteps
<1>1. Init => WF!Init
  <2> SUFFICES ASSUME Init PROVE WF!Init
    OBVIOUS
  <2>1. IInv /\ n = 0 /\ sorted_positions = <<>> /\ train = {} /\ last = 0 /\ folds = <<>>
        /\ pc = "begin"
    BY InitIInv DEF Init
  <2>2. Proved!InputsOK /\ Proved!Positions = {}
    BY <2>1 DEF IInv, WorkInv, SplitterInv, Proved!IInv, Proved!TypeOK, Proved!Positions
  <2> QED
    BY <2>1, <2>2, SameInit DEF Proved!Init
<1>2. IInv /\ [Next]_vars => [WF!Resume \/ WF!Init']_splitter
  <2> SUFFICES ASSUME IInv, [Next]_vars PROVE WF!Resume \/ WF!Init' \/ UNCHANGED splitter
    OBVIOUS
  <2>1. CASE Start
    BY <2>1, BeginParameters, NotLoadedSplitter, SameInitNext
       DEF Begins, Start, StartBuild, StartBacktest, Loaded
  <2>2. CASE Load
    BY <2>2, LoadSplitter, SameInitNext
  <2>3. CASE End
    BY <2>3, EndParameters, NotLoadedSplitter, SameInitNext
  <2>4. CASE Split
    BY <2>4 DEF Split
  <2>5. CASE OpenDataset \/ Invoke \/ OpenReport
    BY <2>5 DEF OpenDataset, Invoke, OpenReport
  <2>6. CASE CloseReport
    BY <2>3, <2>6 DEF CloseReport
  <2>7. CASE EditAgents
    BY <2>7 DEF EditAgents, splitter
  <2>8. CASE UNCHANGED vars
    BY <2>8 DEF vars
  <2> QED
    BY <2>1, <2>2, <2>3, <2>4, <2>5, <2>6, <2>7, <2>8
       DEF Next, Run, CloseDataset, BuildFails, LoadFails, InvokeFails, NoRows, Kill
<1> QED
  BY <1>1, <1>2, IInvariance, PTL DEF Spec, SplitterSteps

\* The types of the backtest, and of the generator in it, for any files and splitters.
THEOREM TypeCorrect == Spec => []TypeOK
<1>1. ASSUME IInv PROVE TypeOK
  <2>1. gold \in NoFile \/ gold \subseteq GoldRow
    BY <1>1, BacktestAssumption DEF IInv, FilesInv
  <2>2. dataset \in NoFile \/ dataset \subseteq DatasetRow
    BY <1>1, DatasetFacts DEF IInv, FilesInv
  <2>3. WF!TypeOK
    BY <1>1, SameTypes DEF IInv, WorkInv, SplitterInv, Proved!IInv
  <2>4. todo \subseteq WF!Positions
    BY <1>1, FoldFacts DEF IInv, WorkInv, TodoInv, WF!Positions
  <2>5. agents_yaml \in Configs /\ (reports[1] \in NoFile \/ reports[1] \subseteq BacktestRow)
        /\ fold_rows \subseteq BacktestRow
    BY <1>1 DEF IInv, FilesInv, ReportsInv, WorkInv, ScoresInv
  <2>6. MemoryInv
    BY <1>1 DEF IInv
  <2> QED
    BY <2>1, <2>2, <2>3, <2>4, <2>5, <2>6 DEF TypeOK, MemoryInv
<1> QED
  BY <1>1, IInvariance, PTL

\* Whatever Gold holds, a decision is scored against the truth of its own features.  In a
\* dataset built from Gold, as long as another row follows, that truth is never of a day
\* after the decision's, and is of that very day exactly when its row was kept; the last
\* decision is dated no later than the day its truth is of, when that is a weekday
\* (target_labels.py:159-178, runner.py:136-177).
THEOREM ScoresOwnTruth == Spec => []OwnTruth
<1>1. ASSUME IInv PROVE OwnTruth
  <2> SUFFICES ASSUME NEW s \in fold_rows
               PROVE  \E r \in rows :
                 LET later == {q \in rows : r.trade_date < q.trade_date} IN
                 /\ s.snapshot_id = <<r.trade_date, r.feature>> /\ s.target_label = r.target
                 /\ r.trade_date < s.decision_date
                 /\ \A q \in later : s.decision_date <= q.trade_date
                 /\ r.about # Unknown =>
                       IF later # {}
                          THEN /\ r.about <= s.decision_date
                               /\ s.decision_date = r.about
                                     <=> \E q \in rows : q.trade_date = r.about
                          ELSE r.about \in Weekdays => s.decision_date <= r.about
    BY DEF OwnTruth
  <2>1. Loaded /\ RowsInv
    BY <1>1 DEF IInv, WorkInv, EmptyInv
  <2>2. PICK p \in 0 .. n - 1 : ScoreOf(s, p)
    BY <1>1 DEF IInv, WorkInv, ScoresInv, WF!Positions
  <2>3. PICK r : r = RowAt(p) /\ r \in rows
    BY <2>1, RowAtFacts
  <2>4. /\ s.decision_date = DecisionDate(p) /\ r.trade_date < s.decision_date
        /\ s.target_label = r.target /\ s.snapshot_id = <<r.trade_date, r.feature>>
    BY <2>2, <2>3 DEF ScoreOf
  <2>5. /\ rows \in Datasets /\ rows \subseteq DatasetRow /\ n \in Nat
        /\ \A q \in rows : q.trade_date \in Dates /\ q.trade_date \in Int
        /\ r.about # Unknown => r.about \in Dates /\ r.about \in Int /\ r.trade_date < r.about
    BY <2>1, <2>3, RowAtFacts, DatasetFacts DEF RowsInv, DatasetRow, Dates
  <2>6. \A q \in rows : q.trade_date <= r.trade_date \/ s.decision_date <= q.trade_date
    BY <2>1, <2>3, <2>4, DecisionFacts
  <2> DEFINE later == {q \in rows : r.trade_date < q.trade_date}
  <2>7. \A q \in later : s.decision_date <= q.trade_date
    BY <2>3, <2>5, <2>6
  <2>8. ASSUME r.about # Unknown, later # {}
        PROVE  /\ r.about <= s.decision_date
               /\ s.decision_date = r.about <=> \E q \in rows : q.trade_date = r.about
    <3>1. PICK q \in later : TRUE
      BY <2>8
    <3>2. PICK k \in 0 .. n - 1 : q = RowAt(k)
      BY <2>1, RowAtFacts
    <3>3. p < k
      BY <2>1, <2>3, <3>1, <3>2, RowAtFacts
    <3>4. p + 1 \in 0 .. n - 1 /\ p + 1 < n
      BY <2>5, <3>3
    <3>5. RowAt(p + 1) \in rows /\ s.decision_date = RowAt(p + 1).trade_date
      BY <2>1, <2>4, <3>4, RowAtFacts DEF DecisionDate
    <3>6. s.decision_date \in Int /\ r.trade_date \in Int
      BY <2>3, <2>5, <3>5
    <3>7. r.about <= s.decision_date
      <4>1. RowAt(p + 1).trade_date <= r.trade_date \/ r.about <= RowAt(p + 1).trade_date
        BY <2>3, <2>5, <2>8, <3>5, DatasetFacts
      <4> QED
        BY <2>4, <3>5, <3>6, <4>1
    <3>8. ASSUME NEW x \in rows, x.trade_date = r.about
          PROVE  s.decision_date = r.about
      BY <2>5, <2>6, <2>8, <3>6, <3>7, <3>8
    <3> QED
      BY <3>5, <3>7, <3>8
  <2>9. ASSUME r.about # Unknown, r.about \in Weekdays, later = {}
        PROVE  s.decision_date <= r.about
    <3>1. ~(p + 1 < n)
      <4> SUFFICES ASSUME p + 1 < n PROVE FALSE
        OBVIOUS
      <4>1. p + 1 \in 0 .. n - 1 /\ p < p + 1
        BY <2>5
      <4>2. RowAt(p + 1) \in rows /\ r.trade_date < RowAt(p + 1).trade_date
        BY <2>1, <2>3, <4>1, RowAtFacts
      <4> QED
        BY <2>9, <4>2
    <3>2. s.decision_date = NextWeekday(r.trade_date) /\ r.trade_date \in Dates
      BY <2>3, <2>4, <2>5, <3>1 DEF DecisionDate
    <3> QED
      BY <2>5, <2>9, <3>2, NextWeekdayFacts
  <2> QED
    BY <2>3, <2>4, <2>7, <2>8, <2>9
<1> QED
  BY <1>1, IInvariance, PTL

-----------------------------------------------------------------------------
(* The metrics of the rows reported. *)

RateNames == {"hit_rate", "precision_up", "precision_down", "recall_up", "recall_down",
              "skip_rate", "flat_rate"}

\* The rows each count of the metrics is about.
Counted(R) ==
    [hit_rate       |-> <<{r \in R : r.correct}, NonSkip(R)>>,
     precision_up   |-> <<Matches("up", R), Deciding("up", R)>>,
     precision_down |-> <<Matches("down", R), Deciding("down", R)>>,
     recall_up      |-> <<Matches("up", R), Targeting("up", R)>>,
     recall_down    |-> <<Matches("down", R), Targeting("down", R)>>,
     skip_rate      |-> <<Deciding("skip", R), R>>,
     flat_rate      |-> <<Targeting("flat", R), R>>]

OfFold(R, k) == {r \in R : r.fold_id = k}

LEMMA CountedFacts ==
    ASSUME NEW R, NEW rate \in RateNames, NEW i \in 1 .. 2
    PROVE  /\ Rates(R)[rate][i] = Cardinality(Counted(R)[rate][i])
           /\ Counted(R)[rate][i] \subseteq R
           /\ \A k : Counted(OfFold(R, k))[rate][i] = OfFold(Counted(R)[rate][i], k)
<1>1. ASSUME NEW k
      PROVE  /\ {r \in OfFold(R, k) : r.correct} = OfFold({r \in R : r.correct}, k)
             /\ \A label : Deciding(label, OfFold(R, k)) = OfFold(Deciding(label, R), k)
             /\ \A target : Targeting(target, OfFold(R, k)) = OfFold(Targeting(target, R), k)
  BY DEF OfFold, Deciding, Targeting
<1>2. ASSUME NEW k
      PROVE  /\ \A label : Matches(label, OfFold(R, k)) = OfFold(Matches(label, R), k)
             /\ NonSkip(OfFold(R, k)) = OfFold(NonSkip(R), k)
  BY <1>1 DEF OfFold, Matches, NonSkip
<1>3. \A X : /\ Counted(X)["hit_rate"] = <<{r \in X : r.correct}, NonSkip(X)>>
             /\ Counted(X)["precision_up"] = <<Matches("up", X), Deciding("up", X)>>
             /\ Counted(X)["precision_down"] = <<Matches("down", X), Deciding("down", X)>>
             /\ Counted(X)["recall_up"] = <<Matches("up", X), Targeting("up", X)>>
             /\ Counted(X)["recall_down"] = <<Matches("down", X), Targeting("down", X)>>
             /\ Counted(X)["skip_rate"] = <<Deciding("skip", X), X>>
             /\ Counted(X)["flat_rate"] = <<Targeting("flat", X), X>>
  BY DEF Counted
<1>4. /\ Rates(R)["hit_rate"] = Ratio({r \in R : r.correct}, NonSkip(R))
      /\ Rates(R)["precision_up"] = Ratio(Matches("up", R), Deciding("up", R))
      /\ Rates(R)["precision_down"] = Ratio(Matches("down", R), Deciding("down", R))
      /\ Rates(R)["recall_up"] = Ratio(Matches("up", R), Targeting("up", R))
      /\ Rates(R)["recall_down"] = Ratio(Matches("down", R), Targeting("down", R))
      /\ Rates(R)["skip_rate"] = Ratio(Deciding("skip", R), R)
      /\ Rates(R)["flat_rate"] = Ratio(Targeting("flat", R), R)
  BY DEF Rates
<1>5. /\ {r \in R : r.correct} \subseteq R /\ NonSkip(R) \subseteq R
      /\ \A label : Deciding(label, R) \subseteq R /\ Matches(label, R) \subseteq R
      /\ \A target : Targeting(target, R) \subseteq R
  BY DEF NonSkip, Matches, Deciding, Targeting
<1> DEFINE Pair(A, B) ==
             /\ Rates(R)[rate] = Ratio(A, B) /\ Counted(R)[rate] = <<A, B>>
             /\ A \subseteq R /\ B \subseteq R
             /\ \A k : Counted(OfFold(R, k))[rate] = <<OfFold(A, k), OfFold(B, k)>>
<1>6. \E A, B : Pair(A, B)
  <2>1. CASE rate = "hit_rate"
    <3>1. Pair({r \in R : r.correct}, NonSkip(R))
      BY <1>1, <1>2, <1>3, <1>4, <1>5, <2>1
    <3> QED
      BY <3>1
  <2>2. CASE rate = "precision_up"
    <3>1. Pair(Matches("up", R), Deciding("up", R))
      BY <1>1, <1>2, <1>3, <1>4, <1>5, <2>2
    <3> QED
      BY <3>1
  <2>3. CASE rate = "precision_down"
    <3>1. Pair(Matches("down", R), Deciding("down", R))
      BY <1>1, <1>2, <1>3, <1>4, <1>5, <2>3
    <3> QED
      BY <3>1
  <2>4. CASE rate = "recall_up"
    <3>1. Pair(Matches("up", R), Targeting("up", R))
      BY <1>1, <1>2, <1>3, <1>4, <1>5, <2>4
    <3> QED
      BY <3>1
  <2>5. CASE rate = "recall_down"
    <3>1. Pair(Matches("down", R), Targeting("down", R))
      BY <1>1, <1>2, <1>3, <1>4, <1>5, <2>5
    <3> QED
      BY <3>1
  <2>6. CASE rate = "skip_rate"
    <3>1. Pair(Deciding("skip", R), R)
      BY <1>1, <1>2, <1>3, <1>4, <1>5, <2>6
    <3> QED
      BY <3>1
  <2>7. CASE rate = "flat_rate"
    <3>1. Pair(Targeting("flat", R), R)
      BY <1>1, <1>2, <1>3, <1>4, <1>5, <2>7
    <3> QED
      BY <3>1
  <2> HIDE DEF Pair
  <2> QED
    BY <2>1, <2>2, <2>3, <2>4, <2>5, <2>6, <2>7 DEF RateNames
<1>7. PICK A, B : Pair(A, B)
  BY <1>6
<1>8. i = 1 \/ i = 2
  OBVIOUS
<1>9. Rates(R)[rate][i] = Cardinality(Counted(R)[rate][i])
  BY <1>7, <1>8 DEF Ratio
<1>10. Counted(R)[rate][i] \subseteq R
  BY <1>7, <1>8
<1>11. \A k : Counted(OfFold(R, k))[rate][i] = OfFold(Counted(R)[rate][i], k)
  BY <1>7, <1>8
<1> QED
  BY <1>9, <1>10, <1>11

\* Each count is the sum of its parts in the folds, added as MapThenSumSet does.
LEMMA FoldsAddUp ==
    ASSUME NEW R, Consistent(R), reports[2].folds = Metrics(R).folds,
           NEW rate \in RateNames, NEW i \in 1 .. 2
    PROVE  Rates(R)[rate][i]
             = MapThenSumSet(LAMBDA k : reports[2].folds[k][rate][i], FoldIds(R))
<1> DEFINE X == Counted(R)[rate][i]
           id == [r \in R |-> r.fold_id]
           K == FoldIds(R)
           w == [k \in K |-> Cardinality({r \in X : id[r] = k})]
           part == reports[2].folds
           AddsUp(f) ==
             f = [T \in SUBSET K |->
                     IF T = {} THEN 0 ELSE part[Pick(T)][rate][i] + f[T \ {Pick(T)}]]
<1>1. X \subseteq R /\ IsFiniteSet(R)
  BY CountedFacts DEF Consistent
<1>2. IsFiniteSet(X) /\ \A S \in SUBSET X : IsFiniteSet(S) /\ Cardinality(S) \in Nat
  BY <1>1, FS_Subset, FS_CardinalityType
<1>3. (\A r \in X : id[r] \in K) /\ K = {id[r] : r \in R}
  BY <1>1 DEF FoldIds
<1>4. IsFiniteSet(K)
  <2>1. \A r \in R : r.fold_id \in 1 .. MaxRows
    BY DEF Consistent, BacktestRow
  <2>2. K \subseteq 1 .. MaxRows
    BY <2>1 DEF FoldIds
  <2>3. IsFiniteSet(1 .. MaxRows)
    BY FS_Interval, BacktestAssumption
  <2> HIDE DEF K
  <2> QED
    BY <2>2, <2>3, FS_Subset
<1>5. ASSUME NEW k \in K
      PROVE  part[k][rate][i] = w[k] /\ w[k] \in Int
  <2>1. part[k] = Rates(OfFold(R, k))
    BY DEF Metrics, OfFold
  <2>2. Rates(OfFold(R, k))[rate][i] = Cardinality(Counted(OfFold(R, k))[rate][i])
    BY CountedFacts
  <2>3. Counted(OfFold(R, k))[rate][i] = OfFold(X, k)
    BY CountedFacts
  <2>4. OfFold(X, k) = {r \in X : id[r] = k}
    BY <1>1 DEF OfFold
  <2>5. w[k] = Cardinality({r \in X : id[r] = k})
    OBVIOUS
  <2>6. Cardinality({r \in X : id[r] = k}) \in Nat
    BY <1>2
  <2> QED
    BY <2>1, <2>2, <2>3, <2>4, <2>5, <2>6
<1>6. Sum(w, K) = Cardinality(X)
  <2> HIDE DEF X, id, K
  <2> QED
    BY <1>2, <1>3, <1>4, PartitionSize
<1>7. Rates(R)[rate][i] = Cardinality(X)
  BY CountedFacts
<1>8. MapThenSumSet(LAMBDA k : reports[2].folds[k][rate][i], FoldIds(R)) = (CHOOSE f : AddsUp(f))[K]
  BY DEF MapThenSumSet, MapThenFoldSet, Pick
<1> HIDE DEF X, w, K, part
<1>9. ASSUME NEW f PROVE AddsUp(f) <=> Sums(f, w, K)
  <2>1. \A T \in SUBSET K : T # {} => part[Pick(T)][rate][i] = w[Pick(T)]
    BY <1>5 DEF Pick
  <2>2. [T \in SUBSET K |->
            IF T = {} THEN 0 ELSE part[Pick(T)][rate][i] + f[T \ {Pick(T)}]]
         = [T \in SUBSET K |-> SumStep(f, w, T)]
    BY <2>1 DEF SumStep
  <2> QED
    BY <2>2 DEF Sums
<1> HIDE DEF AddsUp
<1>10. PICK h : h = CHOOSE f : AddsUp(f)
  OBVIOUS
<1>11. Sums(h, w, K)
  <2>1. \E f : Sums(f, w, K)
    BY <1>4, <1>5, SumsExist
  <2> QED
    BY <1>9, <1>10, <2>1
<1>12. h[K] = Sum(w, K)
  <2>1. K \in SUBSET K /\ \A k \in K : w[k] = w[k] /\ w[k] \in Int
    BY <1>5
  <2> QED
    BY <1>4, <1>11, <2>1, SumValue
<1> QED
  BY <1>6, <1>7, <1>8, <1>10, <1>12

\* The labels, and the truths, divide the rows.
LEMMA RatesDivide ==
    ASSUME NEW R, Consistent(R)
    PROVE  LET all == Rates(R)
           IN /\ all.decision_count = Cardinality(R)
              /\ all.hit_rate[1] = all.precision_up[1] + all.precision_down[1]
              /\ all.hit_rate[2] = all.precision_up[2] + all.precision_down[2]
              /\ all.hit_rate[2] + all.skip_rate[1] = Cardinality(R)
              /\ all.recall_up[2] + all.recall_down[2] + all.flat_rate[1] = Cardinality(R)
<1>1. /\ IsFiniteSet(R)
      /\ \A r \in R :
            /\ r.label = "up" \/ r.label = "down" \/ r.label = "skip"
            /\ r.target_label = "up" \/ r.target_label = "down" \/ r.target_label = "flat"
            /\ r.correct <=> r.label = r.target_label
  BY DEF Consistent, BacktestRow, Labels, Targets
<1>2. \A S \in SUBSET R : IsFiniteSet(S) /\ Cardinality(S) \in Nat
  BY <1>1, FS_Subset, FS_CardinalityType
<1>3. \A S, T \in SUBSET R : S \cap T = {} => Cardinality(S \cup T) = Cardinality(S) + Cardinality(T)
  BY <1>2, DisjointSize
<1> DEFINE Hits == {r \in R : r.correct}
<1>4. /\ Hits \in SUBSET R /\ NonSkip(R) \in SUBSET R
      /\ \A x : Deciding(x, R) \in SUBSET R /\ Targeting(x, R) \in SUBSET R /\ Matches(x, R) \in SUBSET R
  BY DEF NonSkip, Deciding, Targeting, Matches
<1>5. Hits = Matches("up", R) \cup Matches("down", R) /\ Matches("up", R) \cap Matches("down", R) = {}
  <2>1. Matches("up", R) \cap Matches("down", R) = {}
    BY DEF Matches, Deciding
  <2>2. \A r \in R : r \in Hits <=> (r \in Matches("up", R) \/ r \in Matches("down", R))
    BY <1>1 DEF Matches, Deciding, Targeting
  <2> HIDE DEF Hits
  <2> QED
    BY <1>4, <2>1, <2>2
<1>6. /\ NonSkip(R) = Deciding("up", R) \cup Deciding("down", R)
      /\ Deciding("up", R) \cap Deciding("down", R) = {}
  <2>1. Deciding("up", R) \cap Deciding("down", R) = {}
    BY DEF Deciding
  <2>2. \A r \in R : r \in NonSkip(R) <=> (r \in Deciding("up", R) \/ r \in Deciding("down", R))
    BY <1>1 DEF NonSkip, Deciding
  <2> QED
    BY <1>4, <2>1, <2>2
<1>7. R = NonSkip(R) \cup Deciding("skip", R) /\ NonSkip(R) \cap Deciding("skip", R) = {}
  BY <1>1 DEF NonSkip, Deciding
<1>8. /\ R = (Targeting("up", R) \cup Targeting("down", R)) \cup Targeting("flat", R)
      /\ Targeting("up", R) \cap Targeting("down", R) = {}
      /\ (Targeting("up", R) \cup Targeting("down", R)) \cap Targeting("flat", R) = {}
      /\ Targeting("up", R) \cup Targeting("down", R) \in SUBSET R
  <2>1. /\ Targeting("up", R) \cap Targeting("down", R) = {}
        /\ Targeting("up", R) \cap Targeting("flat", R) = {}
        /\ Targeting("down", R) \cap Targeting("flat", R) = {}
    BY DEF Targeting
  <2>2. \A r \in R : \/ r \in Targeting("up", R) \/ r \in Targeting("down", R)
                     \/ r \in Targeting("flat", R)
    BY <1>1 DEF Targeting
  <2> QED
    BY <1>4, <2>1, <2>2
<1>9. /\ Cardinality(Hits) = Cardinality(Matches("up", R)) + Cardinality(Matches("down", R))
      /\ Cardinality(NonSkip(R)) = Cardinality(Deciding("up", R)) + Cardinality(Deciding("down", R))
      /\ Cardinality(R) = Cardinality(NonSkip(R)) + Cardinality(Deciding("skip", R))
      /\ Cardinality(R) = Cardinality(Targeting("up", R)) + Cardinality(Targeting("down", R))
                            + Cardinality(Targeting("flat", R))
  <2>1. Cardinality(Hits) = Cardinality(Matches("up", R)) + Cardinality(Matches("down", R))
    BY <1>3, <1>4, <1>5
  <2>2. Cardinality(NonSkip(R)) = Cardinality(Deciding("up", R)) + Cardinality(Deciding("down", R))
    BY <1>3, <1>4, <1>6
  <2>3. Cardinality(R) = Cardinality(NonSkip(R)) + Cardinality(Deciding("skip", R))
    BY <1>3, <1>4, <1>7
  <2>4. Cardinality(R) = Cardinality(Targeting("up", R) \cup Targeting("down", R))
                            + Cardinality(Targeting("flat", R))
    BY <1>3, <1>4, <1>8
  <2>5. Cardinality(Targeting("up", R) \cup Targeting("down", R))
          = Cardinality(Targeting("up", R)) + Cardinality(Targeting("down", R))
    BY <1>3, <1>4, <1>8
  <2> QED
    BY <2>1, <2>2, <2>3, <2>4, <2>5
<1>10. /\ Rates(R).decision_count = Cardinality(R)
       /\ Rates(R).hit_rate = <<Cardinality(Hits), Cardinality(NonSkip(R))>>
       /\ Rates(R).precision_up = <<Cardinality(Matches("up", R)), Cardinality(Deciding("up", R))>>
       /\ Rates(R).precision_down = <<Cardinality(Matches("down", R)), Cardinality(Deciding("down", R))>>
       /\ Rates(R).recall_up[2] = Cardinality(Targeting("up", R))
       /\ Rates(R).recall_down[2] = Cardinality(Targeting("down", R))
       /\ Rates(R).skip_rate[1] = Cardinality(Deciding("skip", R))
       /\ Rates(R).flat_rate[1] = Cardinality(Targeting("flat", R))
  BY DEF Rates, Ratio
<1> HIDE DEF Hits
<1> QED
  BY <1>9, <1>10

\* When the reports are written, each tested row has been scored, and no other.
LEMMA AllScored ==
    ASSUME IInv, Reporting
    PROVE  /\ \A k \in 1 .. Len(folds) :
                 TestedDates(k) = {r.snapshot_id[1] : r \in {s \in fold_rows : s.fold_id = k}}
           /\ Cardinality(fold_rows) = Cardinality(WF!Tested)
<1>1. /\ Loaded /\ RowsInv /\ SplitterInv /\ ScoresInv /\ OnceInv /\ EachInv /\ todo = {}
  BY DEF IInv, WorkInv, ReportsInv, Reporting, Loaded
<1>2. \A k \in 1 .. Len(folds) : folds[k].test \subseteq 0 .. n - 1
  BY <1>1, FoldFacts
<1>3. ASSUME NEW s \in fold_rows
      PROVE  /\ s.fold_id \in 1 .. Len(folds)
             /\ \E p \in folds[s.fold_id].test : s.snapshot_id[1] = trade_dates[p]
  <2>1. PICK p \in 0 .. n - 1 : s.fold_id \in 1 .. Len(folds) /\ ScoreOf(s, p)
    BY <1>1 DEF ScoresInv, WF!Positions
  <2>2. trade_dates[p] = RowAt(p).trade_date
    BY <1>1, RowAtFacts
  <2> QED
    BY <2>1, <2>2 DEF ScoreOf
<1>4. ASSUME NEW k \in 1 .. Len(folds), NEW p \in folds[k].test
      PROVE  \E s \in fold_rows : s.fold_id = k /\ s.snapshot_id[1] = trade_dates[p]
  BY <1>1 DEF EachInv, Waiting
<1>5. \A k \in 1 .. Len(folds) :
        TestedDates(k) = {r.snapshot_id[1] : r \in {s \in fold_rows : s.fold_id = k}}
  BY <1>3, <1>4 DEF TestedDates
<1>6. {trade_dates[p] : p \in WF!Tested} = {s.snapshot_id[1] : s \in fold_rows}
  BY <1>3, <1>4 DEF WF!Tested
<1>7. /\ IsFiniteSet(WF!Tested)
      /\ \A p, q \in WF!Tested : trade_dates[p] = trade_dates[q] => p = q
  <2>1. IsFiniteSet(WF!Tested)
    <3>1. Proved!LeftBehind
      BY <1>1 DEF SplitterInv, Proved!CountInv
    <3> QED
      BY <3>1, SameTested DEF Proved!LeftBehind, Proved!IsFiniteSet, IsFiniteSet
  <2>2. WF!Tested \subseteq 0 .. n - 1
    BY <1>2 DEF WF!Tested
  <2>3. \A p \in 0 .. n - 1 : trade_dates[p] = RowAt(p).trade_date
    BY <1>1, RowAtFacts
  <2> QED
    BY <1>1, <2>1, <2>2, <2>3, PositionsDiffer
<1>8. Cardinality({trade_dates[p] : p \in WF!Tested}) = Cardinality(WF!Tested)
  BY <1>7, ImageSize
<1>9. Cardinality({s.snapshot_id[1] : s \in fold_rows}) = Cardinality(fold_rows)
  <2> DEFINE f == [s \in fold_rows |-> s.snapshot_id[1]]
  <2>1. IsFiniteSet(fold_rows) /\ \A s, t \in fold_rows : f[s] = f[t] => s = t
    BY <1>1, ScoresConsistent DEF OnceInv, Consistent, IInv
  <2>2. {f[s] : s \in fold_rows} = {s.snapshot_id[1] : s \in fold_rows}
    OBVIOUS
  <2> HIDE DEF f
  <2>3. Cardinality({f[s] : s \in fold_rows}) = Cardinality(fold_rows)
    BY <2>1, ImageSize
  <2> QED
    BY <2>2, <2>3
<1> QED
  BY <1>5, <1>6, <1>8, <1>9

\* The reports are about the rows the folds tested, each once and in its fold; the
\* counts of the metrics add up over labels, truths and folds; and unless a process
\* was killed the three reports are of one backtest (runner.py:65-100, metrics.py).
THEOREM ReportsBelongTogether == Spec => []ReportsAgree
<1>1. ASSUME IInv PROVE ReportsAgree
  <2>1. ASSUME stage = "idle", kills = 0, reports # [k \in 1 .. 3 |-> Absent]
        PROVE  LET R == reports[1]
                   all == reports[2].overall
                   part == reports[2].folds
               IN /\ reports[2] = reports[3]
                  /\ all.decision_count = Cardinality(R) /\ DOMAIN part = FoldIds(R)
                  /\ all.hit_rate[1] = all.precision_up[1] + all.precision_down[1]
                  /\ all.hit_rate[2] = all.precision_up[2] + all.precision_down[2]
                  /\ all.hit_rate[2] + all.skip_rate[1] = Cardinality(R)
                  /\ all.recall_up[2] + all.recall_down[2] + all.flat_rate[1] = Cardinality(R)
                  /\ \A rate \in {"hit_rate", "precision_up", "precision_down", "recall_up",
                                  "recall_down", "skip_rate", "flat_rate"} :
                        \A i \in 1 .. 2 :
                           all[rate][i] = MapThenSumSet(LAMBDA k : part[k][rate][i], FoldIds(R))
    <3> DEFINE R == reports[1]
    <3>1. Consistent(R) /\ \A k \in 1 .. 3 : reports[k] = ReportOf(R, k)
      BY <1>1, <2>1 DEF IInv, ReportsInv, Reporting, Unreported
    <3>2. reports[2] = Metrics(R) /\ reports[3] = Metrics(R)
      BY <3>1 DEF ReportOf
    <3> HIDE DEF R
    <3>3. reports[2].overall = Rates(R) /\ DOMAIN reports[2].folds = FoldIds(R)
      BY <3>2 DEF Metrics
    <3>4. \A rate \in RateNames : \A i \in 1 .. 2 :
            Rates(R)[rate][i]
              = MapThenSumSet(LAMBDA k : reports[2].folds[k][rate][i], FoldIds(R))
      BY <3>1, <3>2, FoldsAddUp
    <3> QED
      BY <3>1, <3>2, <3>3, <3>4, RatesDivide DEF R, RateNames
  <2> QED
    BY <1>1, <2>1, AllScored DEF ReportsAgree, Reporting
<1> QED
  BY <1>1, IInvariance, PTL

-----------------------------------------------------------------------------
(* A command counts its steps down. *)

\* A loaded backtest has to resume the splitter, decide what it has not decided of its
\* rows, and write the reports.
StepsLeft ==
    CASE stage = "idle" -> 0
      [] stage = "read_gold" -> 2
      [] stage = "write_dataset" -> 1
      [] stage = "load" -> 2 * MaxRows + 8
      [] stage = "split" -> Proved!ResumptionsLeft + (n - Cardinality(fold_rows)) + 6
      [] stage = "write_report" -> 7 - 2 * report
      [] stage = "next_report" -> 8 - 2 * report

StepsBounded == StepsLeft \in 0 .. 2 * MaxRows + 8 /\ (StepsLeft = 0 <=> stage = "idle")

\* A command takes no more steps than this, each of its own steps leaves it fewer, and
\* nothing but another command gives it more, an edit of agents.yaml neither.
RunsCountDown ==
    /\ []StepsBounded
    /\ [][/\ Run => StepsLeft' < StepsLeft
          /\ ~Start => StepsLeft' <= StepsLeft]_vars

\* No more rows are scored than there are: each is scored for a position of its own.
LEMMA ScoresFit ==
    ASSUME IInv
    PROVE  n \in 0 .. MaxRows /\ IsFiniteSet(fold_rows) /\ Cardinality(fold_rows) \in 0 .. n
<1>1. n \in Nat /\ n <= MaxRows
  BY FoldFacts, BacktestAssumption
     DEF IInv, WorkInv, SplitterInv, Proved!IInv, Proved!TypeOK, Proved!InputsOK, RowCounts
<1>2. /\ \A s \in fold_rows : \E p \in 0 .. n - 1 : ScoreOf(s, p)
      /\ OnceInv
  BY DEF IInv, WorkInv, ScoresInv, WF!Positions
<1> DEFINE f == [s \in fold_rows |-> CHOOSE p \in 0 .. n - 1 : ScoreOf(s, p)]
<1>3. \A s \in fold_rows : f[s] \in 0 .. n - 1 /\ ScoreOf(s, f[s])
  BY <1>2
<1>4. \A s, t \in fold_rows : f[s] = f[t] => s = t
  BY <1>2, <1>3 DEF ScoreOf, OnceInv
<1>5. IsFiniteSet(0 .. n - 1) /\ Cardinality(0 .. n - 1) = n
  BY <1>1, FS_Interval
<1> HIDE DEF f
<1>6. IsFiniteSet(fold_rows) /\ Cardinality(fold_rows) <= n
  BY <1>3, <1>4, <1>5, InjectionSize
<1> QED
  BY <1>1, <1>6, FS_CardinalityType

LEMMA Resumptions == IInv => Proved!Counted
BY SplitterAssumed, Proved!ResumptionsType
   DEF IInv, WorkInv, SplitterInv, Proved!SplitterAssumption

LEMMA ResumptionsNext == IInv' => Proved!Counted'
BY Resumptions, PTL

LEMMA StepsCounted == IInv => StepsBounded
<1> SUFFICES ASSUME IInv PROVE StepsBounded
  OBVIOUS
<1>1. MaxRows \in Nat /\ n \in 0 .. MaxRows /\ Cardinality(fold_rows) \in 0 .. n
  BY ScoresFit, BacktestAssumption
<1>2. Proved!ResumptionsLeft \in 0 .. n + 1
  BY Resumptions DEF Proved!Counted
<1>3. stage \in Stages /\ report \in 1 .. 3
  BY DEF IInv, MemoryInv
<1>4. CASE stage = "split"
  BY <1>1, <1>2, <1>4 DEF StepsBounded, StepsLeft
<1>5. CASE stage \in {"write_report", "next_report"}
  <2>1. StepsLeft \in 1 .. 6
    BY <1>3, <1>5 DEF StepsLeft
  <2> QED
    BY <1>1, <1>5, <2>1 DEF StepsBounded
<1>6. CASE stage \in {"idle", "read_gold", "write_dataset", "load"}
  BY <1>1, <1>6 DEF StepsBounded, StepsLeft
<1> QED
  BY <1>3, <1>4, <1>5, <1>6 DEF Stages

LEMMA StepsCountedNext == IInv' => StepsBounded'
BY StepsCounted, PTL

\* What is decided had not been: the row is one more.
LEMMA InvokeCounts ==
    ASSUME IInv, Invoke
    PROVE  Cardinality(fold_rows') = Cardinality(fold_rows) + 1
<1>0. PICK p, s : p = Min(todo) /\ s = Scored(p, Decide[agents_yaml][Feature])
  OBVIOUS
<1>1. fold_rows' = fold_rows \cup {s} /\ Invoking
  BY <1>0 DEF Invoke
<1>2. Loaded /\ p \in todo /\ p \in 0 .. n - 1 /\ RowsInv /\ ScoresInv
  BY <1>0, <1>1, InvokeFacts DEF IInv, WorkInv
<1>3. s.fold_id = Len(folds) /\ s.snapshot_id[1] = RowAt(p).trade_date
  BY <1>0 DEF Scored
<1>4. ASSUME s \in fold_rows PROVE FALSE
  <2>1. PICK q \in 0 .. n - 1 : ScoreOf(s, q)
    BY <1>2, <1>4 DEF ScoresInv, WF!Positions
  <2>2. RowAt(p).trade_date = RowAt(q).trade_date
    BY <1>3, <2>1 DEF ScoreOf
  <2>3. p = q
    BY <1>2, <2>2, PositionsDiffer
  <2> QED
    BY <1>2, <1>3, <2>1, <2>3 DEF ScoreOf, Waiting
<1> QED
  BY <1>1, <1>4, ScoresFit, FS_AddElement

LEMMA RunCounts ==
    ASSUME IInv, IInv', Run
    PROVE  StepsLeft' < StepsLeft
<1>1. /\ MaxRows \in Nat /\ StepsLeft \in Nat /\ StepsLeft' \in Nat
      /\ StepsLeft = 0 <=> stage = "idle"
      /\ StepsLeft' = 0 <=> stage' = "idle"
  <2>1. MaxRows \in Nat
    BY BacktestAssumption
  <2> QED
    BY <2>1, StepsCounted, StepsCountedNext DEF StepsBounded
<1>2. n \in 0 .. MaxRows /\ Cardinality(fold_rows) \in 0 .. n
  BY ScoresFit
<1>3. Proved!ResumptionsLeft \in 0 .. n + 1
  BY Resumptions DEF Proved!Counted
<1>4. CASE stage # "idle" /\ stage' = "idle"
  BY <1>1, <1>4
<1>5. CASE OpenDataset
  BY <1>5 DEF OpenDataset, StepsLeft
<1>6. CASE Load
  <2>1. StepsLeft = 2 * MaxRows + 8 /\ stage' = "split" /\ pc' = "begin" /\ fold_rows' = {}
    BY <1>6 DEF Load, StepsLeft, IInv, WorkInv, EmptyInv, Loaded
  <2>2. PICK m \in Nat : m = n' /\ m <= MaxRows
    <3>1. dataset \in Datasets /\ DistinctDates(dataset) /\ n' = Cardinality(dataset)
      BY <1>6 DEF Load, Loadable, IInv, FilesInv
    <3> QED
      BY <3>1, DatasetFacts, DistinctIsFinite, RowsAssumption
  <2>3. Proved!ResumptionsLeft' = m + 1 /\ Cardinality(fold_rows') = 0
    BY <2>1, <2>2, FS_EmptySet DEF Proved!ResumptionsLeft
  <2>4. StepsLeft' = (m + 1) + (m - 0) + 6
    BY <2>1, <2>2, <2>3 DEF StepsLeft
  <2>5. m <= MaxRows /\ MaxRows \in Nat
    BY <1>1, <2>2
  <2>6. (m + 1) + (m - 0) + 6 < 2 * MaxRows + 8
    BY <2>5
  <2> QED
    BY <2>1, <2>4, <2>6
<1>7. CASE Split
  <2>1. WF!Resume /\ stage = "split" /\ stage' = "split" /\ fold_rows' = fold_rows /\ n' = n
    BY <1>7, ResumeFacts DEF Split, IInv, WorkInv
  <2>2. Proved!ResumptionsLeft' < Proved!ResumptionsLeft
    BY <2>1, SameResume, SplitterAssumed, Proved!ResumptionCounts
       DEF IInv, WorkInv, SplitterInv, Proved!SplitterAssumption, Proved!Next
  <2>3. Proved!ResumptionsLeft' \in Int
    <3>1. n' \in Nat
      BY <1>2, <2>1
    <3> QED
      BY <3>1, ResumptionsNext DEF Proved!Counted
  <2> QED
    BY <1>2, <1>3, <2>1, <2>2, <2>3 DEF StepsLeft
<1>8. CASE Invoke
  <2>1. /\ stage = "split" /\ stage' = "split" /\ n' = n
        /\ Proved!ResumptionsLeft' = Proved!ResumptionsLeft
    BY <1>8 DEF Invoke, Invoking, splitter, Proved!ResumptionsLeft
  <2> QED
    BY <1>2, <1>3, <1>8, <2>1, InvokeCounts DEF StepsLeft
<1>9. CASE OpenReport
  <2>1. report \in 1 .. 3 /\ (stage = "split" => report = 1) /\ report' = report
    BY <1>9 DEF OpenReport, IInv, MemoryInv
  <2>2. stage' = "write_report" /\ stage \in {"split", "next_report"}
    BY <1>9 DEF OpenReport
  <2> QED
    BY <1>2, <1>3, <2>1, <2>2 DEF StepsLeft
<1>10. CASE CloseReport
  <2>1. report \in 1 .. 3 /\ stage = "write_report"
    BY <1>10 DEF CloseReport, IInv, MemoryInv
  <2>2. CASE report < 3
    <3>1. stage' = "next_report" /\ report' = report + 1
      BY <1>10, <2>2 DEF CloseReport
    <3> QED
      BY <2>1, <3>1 DEF StepsLeft
  <2>3. CASE ~(report < 3)
    BY <1>4, <1>10, <2>1, <2>3 DEF CloseReport, End
  <2> QED
    BY <2>2, <2>3
<1> QED
  BY <1>4, <1>5, <1>6, <1>7, <1>8, <1>9, <1>10
     DEF Run, CloseDataset, BuildFails, LoadFails, InvokeFails, Invoking, NoRows, End

\* A build or a backtest ends, over whatever dataset, splitter and rules.
THEOREM BacktestCountsDown == Spec => RunsCountDown
<1>1. IInv => StepsBounded
  BY StepsCounted
<1>2. IInv /\ IInv' /\ [Next]_vars =>
        [/\ Run => StepsLeft' < StepsLeft
         /\ ~Start => StepsLeft' <= StepsLeft]_vars
  <2> SUFFICES ASSUME IInv, IInv', [Next]_vars, ~UNCHANGED vars
               PROVE  /\ Run => StepsLeft' < StepsLeft
                      /\ ~Start => StepsLeft' <= StepsLeft
    OBVIOUS
  <2>1. StepsLeft \in Nat /\ StepsLeft' \in Nat /\ (StepsLeft' = 0 <=> stage' = "idle")
    BY StepsCounted, StepsCountedNext, BacktestAssumption DEF StepsBounded
  <2>2. Run => StepsLeft' < StepsLeft
    BY RunCounts
  <2>3. CASE Kill
    BY <2>1, <2>2, <2>3 DEF Kill, End
  <2>4. CASE EditAgents
    <3>1. StepsLeft' = StepsLeft
      BY <2>4 DEF EditAgents, splitter, StepsLeft, Proved!ResumptionsLeft
    <3> QED
      BY <2>1, <2>2, <3>1
  <2> QED
    BY <2>1, <2>2, <2>3, <2>4 DEF Next
<1>3. QED
  BY <1>1, <1>2, IInvariance, PTL DEF Spec, RunsCountDown

=============================================================================
