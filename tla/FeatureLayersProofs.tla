------------------------ MODULE FeatureLayersProofs ------------------------
(***************************************************************************)
(* What holds of Silver and Gold for every calendar, warm-up, Bronze and   *)
(* requested range, and any number of commands, ingests and kills.         *)
(***************************************************************************)
EXTENDS FeatureLayers, Counting

USE DEF files, request, bounds

-----------------------------------------------------------------------------
(* Days, and the segments of days. *)

LEMMA DaysAreNumbers == TradingDays \subseteq Dates /\ Dates \subseteq Nat /\ Dates \subseteq Int
BY LayersAssumption DEF Dates

LEMMA DaysAreFinite ==
    ASSUME NEW D \in SUBSET Dates
    PROVE  /\ IsFiniteSet(D) /\ Cardinality(D) \in Nat
           /\ Cardinality(D) = 0 <=> D = {}
           /\ \A C \in SUBSET D : Cardinality(C) \in Nat /\ Cardinality(C) <= Cardinality(D)
<1>1. IsFiniteSet(D)
  <2>1. MaxDate \in Int
    BY LayersAssumption
  <2>2. IsFiniteSet(1 .. MaxDate)
    BY <2>1, FS_Interval
  <2>3. QED
    BY <2>2, FS_Subset DEF Dates
<1>2. QED
    BY <1>1, SizeOf

LEMMA LookbackFacts ==
    ASSUME NEW s \in Dates, LookbackDays(s) # {}
    PROVE  /\ Lookback(s) \in TradingDays /\ Lookback(s) < s
           /\ Lookback(s) \in Dates
           /\ Cardinality(TradingDays \cap Lookback(s) .. s - 1) = Warmup
<1>1. Lookback(s) \in LookbackDays(s)
    BY DEF Lookback
<1>2. QED
    BY <1>1, DaysAreNumbers DEF LookbackDays

\* A segment is a run of the days listed that ends on its own day.
LEMMA SegmentFacts ==
    ASSUME NEW days \in SUBSET Dates, NEW d \in days
    PROVE  LET S == Segment(days, d) IN
           /\ S \in SUBSET days /\ d \in S /\ \A w \in S : w <= d
           /\ \A w \in S, t \in days : w <= t /\ t <= d => t \in S
           /\ Last(S) = d
<1> DEFINE S == Segment(days, d)
<1>1. S \in SUBSET days /\ \A w \in S : w <= d
    BY DEF Segment
<1>2. d \in S
  <2>1. days \cap d .. d = {d} /\ d <= d
    BY DaysAreNumbers
  <2>2. Cardinality(days \cap d .. d) = 1
    BY <2>1, FS_Singleton
  <2>3. 1 <= Warmup + 1
    BY LayersAssumption
  <2>4. QED
    BY <2>1, <2>2, <2>3 DEF Segment
<1>3. ASSUME NEW w \in S, NEW t \in days, w <= t, t <= d
      PROVE  t \in S
  <2>1. days \cap t .. d \in SUBSET (days \cap w .. d)
    <3>1. w \in Int /\ t \in Int /\ d \in Int
      BY <1>1, <1>3, DaysAreNumbers
    <3>2. QED
      BY <1>3, <3>1
  <2>2. days \cap w .. d \in SUBSET Dates
    OBVIOUS
  <2>3. /\ Cardinality(days \cap t .. d) <= Cardinality(days \cap w .. d)
        /\ Cardinality(days \cap t .. d) \in Nat /\ Cardinality(days \cap w .. d) \in Nat
    BY <2>1, <2>2, DaysAreFinite
  <2>4. Cardinality(days \cap w .. d) <= Warmup + 1
    BY <1>3 DEF Segment
  <2>5. QED
    BY <1>3, <2>3, <2>4, LayersAssumption DEF Segment
<1>4. Last(S) = d
  <2> HIDE DEF S
  <2>1. \A x \in S : (\A w \in S : w <= x) => x = d
    BY <1>1, <1>2, DaysAreNumbers
  <2>2. QED
    BY <1>1, <1>2, <2>1 DEF Last
<1>5. QED
    BY <1>1, <1>2, <1>3, <1>4

\* Where there are days enough the segment has its whole length: were it shorter,
\* the last day it leaves out could be taken in.
LEMMA SegmentIsWhole ==
    ASSUME NEW days \in SUBSET Dates, NEW d \in days,
           Cardinality({w \in days : w <= d}) >= Warmup + 1
    PROVE  Cardinality(Segment(days, d)) = Warmup + 1
<1> DEFINE S == Segment(days, d)
           X == {w \in days : w <= d}
<1>1. S \in SUBSET X /\ X \in SUBSET days /\ days \in SUBSET Nat /\ d \in S
    BY SegmentFacts, DaysAreNumbers
<1>2. \A w \in days : w \in X <=> w <= d
    OBVIOUS
<1>3. \A w \in days : w \in S <=> w <= d /\ Cardinality(days \cap w .. d) <= Warmup + 1
    BY DEF Segment
<1>4. \A w \in S, t \in days : w <= t /\ t <= d => t \in S
    BY SegmentFacts
<1>5. Cardinality(S) \in Nat /\ Cardinality(X) \in Nat /\ Warmup \in Nat /\ IsFiniteSet(S)
    BY <1>1, DaysAreFinite, LayersAssumption
<1>6. Cardinality(X) >= Warmup + 1
    OBVIOUS
<1> HIDE DEF S, X
<1>7. d \in Nat /\ S \subseteq Nat /\ X \subseteq Nat /\ S \subseteq days
    BY <1>1
<1>8. PICK m \in S : \A w \in S : m <= w
    BY <1>1, <1>7, LeastOfSet
<1>9. S = days \cap m .. d
  <2>1. \A w \in S : w \in days /\ w \in m .. d
    BY <1>1, <1>2, <1>7, <1>8
  <2>2. \A w \in days : w \in m .. d => w \in S
    BY <1>1, <1>4, <1>7, <1>8
  <2>3. QED
    BY <2>1, <2>2
<1>10. Cardinality(S) <= Warmup + 1
    BY <1>3, <1>7, <1>8, <1>9
<1>11. ASSUME Cardinality(S) < Warmup + 1
       PROVE  FALSE
  <2>1. X \ S # {}
    <3>1. S # X
      BY <1>5, <1>6, <1>11
    <3>2. QED
      BY <1>1, <3>1
  <2>2. \A w \in X \ S : w <= d
    BY <1>1, <1>2
  <2>3. PICK y \in X \ S : \A w \in X \ S : w <= y
    BY <1>7, <2>1, <2>2, GreatestOfSet
  <2>4. y \in days /\ y <= d /\ y \in Nat /\ y \notin S
    BY <1>1, <1>7, <2>2
  <2>5. \A w \in days : w \in y .. d => w \in S \cup {y}
    BY <1>1, <1>2, <2>3, <2>4
  <2>6. \A w \in S \cup {y} : w \in days /\ w \in y .. d
    BY <1>1, <1>2, <1>4, <1>7, <2>4
  <2>7. days \cap y .. d = S \cup {y}
    BY <2>5, <2>6
  <2>8. Cardinality(S \cup {y}) = Cardinality(S) + 1
    BY <1>5, <2>4, FS_AddElement
  <2>9. Cardinality(days \cap y .. d) <= Warmup + 1
    BY <1>5, <1>11, <2>7, <2>8
  <2>10. QED
    BY <1>3, <2>4, <2>9
<1>12. QED
    BY <1>5, <1>10, <1>11 DEF S

-----------------------------------------------------------------------------
(* The invariant. *)

\* A command that reads Silver, or is to read it, has a history to read; while it
\* normalises it is at one of the datasets, and what it has opened it can write.
StageInv ==
    /\ stage = "read" \/ layer = "all" => LookbackDays(start) # {}
    /\ stage \in {"normalize", "write_silver"} => dataset \in Datasets
    /\ stage = "write_silver" => current <= end /\ Normalizable

\* The rows of a set have their whole history.
HistoryOf(R) ==
    \A r \in R :
        LET days == DOMAIN r.window IN
        /\ r.as_of_date \in days /\ days \subseteq TradingDays
        /\ Cardinality(days) = Warmup + 1
        /\ \A d \in days, t \in TradingDays : d <= t /\ t <= r.as_of_date => t \in days
        /\ \A d \in days : d <= r.as_of_date

HistoryInv == RowHistory /\ HistoryOf(gold_rows)

\* Silver says of a day what Bronze says, if Bronze says anything.
Fresh(k, d) ==
    bronze[k][d] # Absent =>
        bronze[k][d] \in BronzeRows /\ silver[k][d] = Normalize[bronze[k][d]]

FreshRow(r) ==
    \A d \in DOMAIN r.window : \A k \in Datasets :
        bronze[k][d] # Absent =>
            bronze[k][d] \in BronzeRows /\ r.window[d][k] = Normalize[bronze[k][d]]

\* The days a command with --layer all has normalised so far are fresh; all of the
\* history is once it reads, and so are the rows it then builds.
Passed(k, d) ==
    \/ stage = "read"
    \/ stage \in {"normalize", "write_silver"} /\ (k < dataset \/ (k = dataset /\ d < current))

FreshInv ==
    layer = "all" =>
        /\ \A k \in Datasets, d \in Dates :
              Passed(k, d) /\ Lookback(start) <= d /\ d <= end => Fresh(k, d)
        /\ stage \in {"build", "write_gold"} => \A r \in gold_rows : FreshRow(r)

\* A requested day without a row is excused by a hole in its history.
Accounted(R, d) ==
    \/ \E r \in R : r.as_of_date = d
    \/ \E w \in TradingDays :
          /\ w < start /\ Cardinality(TradingDays \cap w .. d) <= Warmup + 1
          /\ \E k \in Datasets : silver[k][w] = Absent

CompleteInv ==
    stage \in {"build", "write_gold"} =>
        \A d \in TradingDays \cap start .. end : Accounted(gold_rows, d)

IInv == TypeOK /\ StageInv /\ HistoryInv /\ FreshInv /\ CompleteInv

-----------------------------------------------------------------------------
(* Types, and where a command is. *)

LEMMA WindowType ==
    ASSUME TypeOK, NEW S \in SUBSET Dates, \A w \in S : Whole(w)
    PROVE  WindowOf(S) \in [S -> DailyInputs] /\ DOMAIN WindowOf(S) = S
<1>1. \A w \in S : [k \in Datasets |-> silver[k][w]] \in DailyInputs
    BY DEF Whole, DailyInputs
<1>2. QED
    BY <1>1 DEF WindowOf

\* The segments a build uses: each is the segment of its last day, and the row of
\* that day.
LEMMA RowFacts ==
    ASSUME TypeOK, LookbackDays(start) # {}, NEW S \in Segments
    PROVE  /\ S \in SUBSET ReadDays /\ ReadDays \in SUBSET Dates
           /\ Cardinality(S) = Warmup + 1 /\ \A w \in S : Whole(w)
           /\ Last(S) \in S /\ \A w \in S : w <= Last(S)
           /\ \A w \in S, t \in ReadDays : w <= t /\ t <= Last(S) => t \in S
           /\ RowOf(S) \in GoldRows
           /\ RowOf(S).as_of_date = Last(S) /\ RowOf(S).window = WindowOf(S)
           /\ DOMAIN WindowOf(S) = S
<1>1. ReadDays \in SUBSET Dates
    BY DaysAreNumbers DEF ReadDays
<1>2. PICK d \in ReadDays : S = Segment(ReadDays, d)
    BY DEF Segments
<1>3. /\ S \in SUBSET ReadDays /\ d \in S /\ \A w \in S : w <= d
      /\ \A w \in S, t \in ReadDays : w <= t /\ t <= d => t \in S
      /\ Last(S) = d
    BY <1>1, <1>2, SegmentFacts
<1>4. Cardinality(S) = Warmup + 1 /\ \A w \in S : Whole(w)
    BY DEF Segments
<1>5. S \in SUBSET Dates
    BY <1>1, <1>3
<1>6. WindowOf(S) \in [S -> DailyInputs] /\ DOMAIN WindowOf(S) = S
    BY <1>4, <1>5, WindowType
<1>7. RowOf(S) \in GoldRows
    BY <1>3, <1>5, <1>6 DEF RowOf, GoldRows
<1>8. RowOf(S).as_of_date = Last(S) /\ RowOf(S).window = WindowOf(S)
    BY DEF RowOf
<1>9. QED
    BY <1>1, <1>3, <1>4, <1>6, <1>7, <1>8

LEMMA StageStep ==
    ASSUME TypeOK, StageInv, [Next]_vars
    PROVE  StageInv'
<1> USE DEF StageInv
<1>1. CASE Start
  <2>1. PICK r \in Ranges : \/ \E k \in Datasets : StartSilver(k, r[1], r[2])
                           \/ StartGold(r[1], r[2])
                           \/ StartAll(r[1], r[2])
    BY <1>1 DEF Start
  <2>2. 1 \in Datasets
    BY LayersAssumption DEF Datasets
  <2>3. QED
    BY <2>1, <2>2 DEF StartSilver, StartGold, StartAll, Begin
<1>2. CASE SkipDay
    BY <1>2 DEF SkipDay, Normalizing
<1>3. CASE OpenSilver
    BY <1>3 DEF OpenSilver, Normalizing, Normalizable, Partition
<1>4. CASE CloseSilver
    BY <1>4 DEF CloseSilver
<1>5. CASE NextDataset
  <2>1. dataset \in Datasets /\ (dataset < DatasetCount => dataset + 1 \in Datasets)
    BY <1>5, LayersAssumption DEF NextDataset, Datasets
  <2>2. QED
    BY <1>5, <2>1 DEF NextDataset
<1>6. CASE BuildRows \/ OpenGold
    BY <1>6 DEF BuildRows, OpenGold
<1>7. CASE End
    BY <1>7 DEF End
<1>8. CASE Ingest
    BY <1>8 DEF Ingest
<1>9. CASE UNCHANGED vars
    BY <1>9 DEF vars, Normalizable, Partition
<1>10. QED
    BY <1>1, <1>2, <1>3, <1>4, <1>5, <1>6, <1>7, <1>8, <1>9
       DEF Next, Run, NormalizeFails, SilverDone, ReadFails, CloseGold, Kill

\* The three layers of files.
FilesOK ==
    /\ bronze \in [Datasets -> [Dates -> BronzeRows \cup NoFile]]
    /\ silver \in [Datasets -> [Dates -> SilverRows \cup NoFile]]
    /\ gold \in NoFile \/ gold \subseteq GoldRows
    /\ gold_rows \subseteq GoldRows

LEMMA FilesStep ==
    ASSUME TypeOK, StageInv, [Next]_vars
    PROVE  FilesOK'
<1> USE DEF TypeOK, FilesOK
<1>1. CASE OpenSilver
    BY <1>1 DEF OpenSilver, NoFile
<1>2. CASE CloseSilver
  <2>1. Normalize[Partition] \in SilverRows
    BY <1>2 DEF CloseSilver, StageInv, Normalizable
  <2>2. QED
    BY <1>2, <2>1 DEF CloseSilver
<1>3. CASE BuildRows
  <2>1. gold_rows' \subseteq GoldRows
    BY <1>3, RowFacts DEF BuildRows, StageInv
  <2>2. QED
    BY <1>3, <2>1 DEF BuildRows
<1>4. CASE OpenGold
    BY <1>4 DEF OpenGold, NoFile
<1>5. CASE CloseGold
    BY <1>5 DEF CloseGold, End
<1>6. CASE Ingest
    BY <1>6, LayersAssumption DEF Ingest
<1>7. CASE UNCHANGED files /\ gold_rows' \in {gold_rows, {}}
    BY <1>7
<1>8. QED
    BY <1>1, <1>2, <1>3, <1>4, <1>5, <1>6, <1>7
       DEF Next, Start, Run, StartSilver, StartGold, StartAll, Begin, SkipDay, NormalizeFails,
           NextDataset, SilverDone, ReadFails, Kill, End, vars

\* What a command has in memory, and the bounds.
ControlOK ==
    /\ stage \in Stages /\ layer \in {"silver", "gold", "all"}
    /\ dataset \in 1 .. DatasetCount + 1 /\ current \in 1 .. MaxDate + 1
    /\ start \in Dates /\ end \in Dates
    /\ ingests \in 0 .. MaxIngests /\ commands \in 0 .. MaxCommands
    /\ kills \in 0 .. MaxKills

LEMMA ControlStep ==
    ASSUME ControlOK, StageInv, [Next]_vars
    PROVE  ControlOK'
<1> USE LayersAssumption DEF ControlOK, Stages, Dates, Datasets
<1>1. ASSUME NEW r \in Ranges, NEW l \in {"silver", "gold", "all"},
             NEW k \in 1 .. DatasetCount + 1, NEW next \in Stages,
             Begin(next, l, k, r[1], r[2]), current' \in 1 .. MaxDate + 1
      PROVE  ControlOK'
    BY <1>1 DEF Begin
<1>2. CASE Start
  <2>1. PICK r \in Ranges : \/ \E k \in Datasets : StartSilver(k, r[1], r[2])
                           \/ StartGold(r[1], r[2])
                           \/ StartAll(r[1], r[2])
    BY <1>2 DEF Start
  <2>2. r[1] \in 1 .. MaxDate
    OBVIOUS
  <2>3. StartAll(r[1], r[2]) => Lookback(r[1]) \in 1 .. MaxDate
    BY <2>2, LookbackFacts DEF StartAll
  <2>4. QED
    BY <1>1, <2>1, <2>2, <2>3 DEF StartSilver, StartGold, StartAll
<1>3. CASE SkipDay
    BY <1>3 DEF SkipDay, Normalizing
<1>4. CASE CloseSilver
    BY <1>4 DEF CloseSilver, StageInv
<1>5. CASE NextDataset
  <2>1. Lookback(start) \in 1 .. MaxDate
    BY <1>5, LookbackFacts DEF NextDataset, StageInv
  <2>2. dataset \in 1 .. DatasetCount
    BY <1>5 DEF NextDataset, StageInv
  <2>3. QED
    BY <1>5, <2>1, <2>2 DEF NextDataset
<1>6. CASE OpenSilver \/ BuildRows \/ OpenGold
    BY <1>6 DEF OpenSilver, BuildRows, OpenGold
<1>7. CASE End /\ UNCHANGED <<ingests, commands>> /\ kills' \in 0 .. MaxKills
    BY <1>7 DEF End
<1>8. CASE Kill
    BY <1>7, <1>8 DEF Kill
<1>9. CASE Ingest
    BY <1>9 DEF Ingest
<1>10. CASE UNCHANGED vars
    BY <1>10 DEF vars
<1>11. QED
    BY <1>2, <1>3, <1>4, <1>5, <1>6, <1>7, <1>8, <1>9, <1>10
       DEF Next, Run, NormalizeFails, SilverDone, ReadFails, CloseGold

LEMMA TypeParts == TypeOK <=> FilesOK /\ ControlOK
BY DEF TypeOK, FilesOK, ControlOK

-----------------------------------------------------------------------------
(* The rows of Gold: their history, their freshness, and that none is left out. *)

LEMMA HistoryStep ==
    ASSUME TypeOK, StageInv, HistoryInv, [Next]_vars
    PROVE  HistoryInv'
<1> USE DEF HistoryInv
<1>1. CASE BuildRows
  <2>1. ASSUME NEW S \in Segments
        PROVE  LET days == DOMAIN RowOf(S).window
                   day  == RowOf(S).as_of_date
               IN  /\ day \in days /\ days \subseteq TradingDays
                   /\ Cardinality(days) = Warmup + 1
                   /\ \A d \in days, t \in TradingDays : d <= t /\ t <= day => t \in days
                   /\ \A d \in days : d <= day
    <3>1. LookbackDays(start) # {}
      BY <1>1 DEF BuildRows, StageInv
    <3>2. /\ DOMAIN RowOf(S).window = S /\ RowOf(S).as_of_date = Last(S)
          /\ S \in SUBSET ReadDays /\ Cardinality(S) = Warmup + 1
          /\ Last(S) \in S /\ \A w \in S : w <= Last(S)
          /\ \A w \in S, t \in ReadDays : w <= t /\ t <= Last(S) => t \in S
      BY <3>1, RowFacts
    <3>3. Lookback(start) \in Nat /\ end \in Nat
      BY <3>1, LookbackFacts, DaysAreNumbers DEF TypeOK
    <3>4. ASSUME NEW w \in S, NEW t \in TradingDays, w <= t, t <= Last(S)
          PROVE  t \in ReadDays
      <4>1. w \in Nat /\ t \in Nat /\ Last(S) \in Nat
        BY <3>2, DaysAreNumbers DEF ReadDays
      <4>2. Lookback(start) <= w /\ Last(S) <= end
        BY <3>2 DEF ReadDays
      <4>3. QED
        BY <3>3, <3>4, <4>1, <4>2 DEF ReadDays
    <3>5. S \subseteq TradingDays
      BY <3>2 DEF ReadDays
    <3>6. QED
      BY <3>2, <3>4, <3>5
  <2>2. HistoryOf(gold_rows)'
    BY <1>1, <2>1 DEF BuildRows, HistoryOf
  <2>3. UNCHANGED gold
    BY <1>1 DEF BuildRows
  <2>4. QED
    BY <2>2, <2>3 DEF RowHistory
<1>2. CASE OpenGold
    BY <1>2 DEF OpenGold, RowHistory, HistoryOf, NoFile
<1>3. CASE CloseGold
    BY <1>3 DEF CloseGold, End, RowHistory, HistoryOf
<1>4. CASE UNCHANGED gold /\ gold_rows' \in {gold_rows, {}}
    BY <1>4 DEF RowHistory, HistoryOf
<1>5. QED
    BY <1>1, <1>2, <1>3, <1>4
       DEF Next, Start, Run, StartSilver, StartGold, StartAll, Begin, SkipDay, NormalizeFails,
           OpenSilver, CloseSilver, NextDataset, SilverDone, ReadFails, Kill, Ingest, End, vars

\* Where no file nor anything the invariant reads is changed, but the stage moves on.
LEMMA FreshStep ==
    ASSUME TypeOK, StageInv, FreshInv, [Next]_vars
    PROVE  FreshInv'
<1> USE DEF FreshInv
<1>1. CASE Start
  <2>1. PICK r \in Ranges : \/ \E k \in Datasets : StartSilver(k, r[1], r[2])
                           \/ StartGold(r[1], r[2])
                           \/ StartAll(r[1], r[2])
    BY <1>1 DEF Start
  <2>2. CASE StartAll(r[1], r[2])
    <3>1. stage' = "normalize" /\ dataset' = 1 /\ start' = r[1] /\ current' = Lookback(r[1])
      BY <2>2 DEF StartAll, Begin
    <3>2. \A k \in Datasets, d \in Dates : ~(Passed(k, d)' /\ Lookback(start)' <= d)
      <4>1. Lookback(start)' = current' /\ current' \in Nat
        BY <2>2, <3>1, LookbackFacts, LayersAssumption, DaysAreNumbers DEF StartAll
      <4>2. QED
        BY <3>1, <4>1, DaysAreNumbers DEF Passed, Datasets
    <3>3. QED
      BY <3>1, <3>2
  <2>3. QED
    BY <2>1, <2>2 DEF StartSilver, StartGold, Begin
<1>2. CASE SkipDay
  <2> SUFFICES ASSUME layer = "all", NEW k \in Datasets, NEW d \in Dates, Passed(k, d)',
                      Lookback(start) <= d, d <= end
               PROVE  Fresh(k, d)'
    BY <1>2 DEF SkipDay, Normalizing
  <2>1. Passed(k, d) \/ (k = dataset /\ d = current)
    BY <1>2, DaysAreNumbers DEF SkipDay, Passed, TypeOK
  <2>2. Fresh(dataset, current)
    BY <1>2 DEF SkipDay, Partition, Fresh
  <2>3. QED
    BY <1>2, <2>1, <2>2 DEF SkipDay, Fresh
<1>3. CASE OpenSilver
  <2> SUFFICES ASSUME layer = "all", NEW k \in Datasets, NEW d \in Dates, Passed(k, d)',
                      Lookback(start) <= d, d <= end
               PROVE  Fresh(k, d)'
    BY <1>3 DEF OpenSilver
  <2>1. Passed(k, d) /\ ~(k = dataset /\ d = current)
    BY <1>3, DaysAreNumbers DEF OpenSilver, Normalizing, Passed, TypeOK, Datasets
  <2>2. silver'[k][d] = silver[k][d]
    BY <1>3, <2>1 DEF OpenSilver, TypeOK
  <2>3. QED
    BY <1>3, <2>1, <2>2 DEF OpenSilver, Fresh
<1>4. CASE CloseSilver
  <2> SUFFICES ASSUME layer = "all", NEW k \in Datasets, NEW d \in Dates, Passed(k, d)',
                      Lookback(start) <= d, d <= end
               PROVE  Fresh(k, d)'
    BY <1>4 DEF CloseSilver
  <2>1. CASE k = dataset /\ d = current
    BY <1>4, <2>1 DEF CloseSilver, StageInv, Normalizable, Partition, Fresh, TypeOK
  <2>2. CASE ~(k = dataset /\ d = current)
    <3>1. Passed(k, d)
      BY <1>4, <2>2, DaysAreNumbers DEF CloseSilver, Passed, TypeOK, Datasets
    <3>2. silver'[k][d] = silver[k][d]
      BY <1>4, <2>2 DEF CloseSilver, TypeOK
    <3>3. QED
      BY <1>4, <3>1, <3>2 DEF CloseSilver, Fresh
  <2>3. QED
    BY <2>1, <2>2
<1>5. CASE NextDataset
  <2> SUFFICES ASSUME layer = "all", NEW k \in Datasets, NEW d \in Dates, Passed(k, d)',
                      Lookback(start) <= d, d <= end
               PROVE  Fresh(k, d)'
    BY <1>5 DEF NextDataset
  <2>1. Lookback(start) \in Nat
    BY LookbackFacts, DaysAreNumbers DEF StageInv, TypeOK
  <2>2. Passed(k, d)
    <3>1. /\ stage = "normalize" /\ current > end /\ dataset' = dataset + 1
          /\ \/ stage' = "normalize" /\ current' = Lookback(start)
             \/ stage' = "read" /\ dataset >= DatasetCount
      BY <1>5, LayersAssumption DEF NextDataset, TypeOK
    <3>2. dataset \in Nat /\ k \in Nat /\ d \in Nat /\ k <= DatasetCount /\ end \in Nat
      BY LayersAssumption, DaysAreNumbers DEF TypeOK, Datasets
    <3>3. current \in Nat /\ DatasetCount \in Nat
      BY LayersAssumption DEF TypeOK
    <3>4. k <= dataset
      BY <2>1, <3>1, <3>2, <3>3 DEF Passed
    <3>5. QED
      BY <3>1, <3>2, <3>3, <3>4 DEF Passed
  <2>3. QED
    BY <1>5, <2>2 DEF NextDataset, Fresh
<1>6. CASE BuildRows
  <2> SUFFICES ASSUME layer = "all", NEW r \in gold_rows'
               PROVE  FreshRow(r)'
    BY <1>6 DEF BuildRows, Passed
  <2>1. LookbackDays(start) # {}
    BY DEF StageInv
  <2>2. PICK S \in Segments : r = RowOf(S)
    BY <1>6 DEF BuildRows
  <2>3. r.window = WindowOf(S) /\ DOMAIN r.window = S /\ S \in SUBSET ReadDays
    BY <2>1, <2>2, RowFacts
  <2>4. ASSUME NEW d \in S, NEW k \in Datasets
        PROVE  Fresh(k, d) /\ r.window[d][k] = silver[k][d]
    <3>1. d \in Dates /\ Lookback(start) <= d /\ d <= end
      BY <2>1, <2>3, LookbackFacts, DaysAreNumbers DEF ReadDays, TypeOK
    <3>2. Passed(k, d)
      BY <1>6 DEF BuildRows, Passed
    <3>3. QED
      BY <2>3, <3>1, <3>2 DEF WindowOf
  <2>5. UNCHANGED bronze
    BY <1>6 DEF BuildRows
  <2>6. QED
    BY <2>3, <2>4, <2>5 DEF FreshRow, Fresh
<1>7. CASE OpenGold
    BY <1>7 DEF OpenGold, Passed, FreshRow
<1>8. CASE End
    BY <1>8 DEF End
<1>9. CASE Ingest
    BY <1>9 DEF Ingest, Passed
<1>10. CASE UNCHANGED vars
    BY <1>10 DEF vars, Passed, Fresh, FreshRow
<1>11. QED
    BY <1>1, <1>2, <1>3, <1>4, <1>5, <1>6, <1>7, <1>8, <1>9, <1>10
       DEF Next, Run, NormalizeFails, SilverDone, ReadFails, CloseGold, Kill

\* The segment of a requested day is whole unless the days before the range have a hole.
LEMMA RequestedDay ==
    ASSUME TypeOK, LookbackDays(start) # {}, Readable, NEW d \in TradingDays \cap start .. end
    PROVE  Accounted({RowOf(S) : S \in Segments}, d)
<1> DEFINE L == Lookback(start)
           S == Segment(ReadDays, d)
<1>1. /\ L \in Nat /\ L < start /\ start \in Nat /\ end \in Nat /\ d \in Nat
      /\ Cardinality(TradingDays \cap L .. start - 1) = Warmup
    BY LookbackFacts, DaysAreNumbers DEF TypeOK
<1>2. ReadDays \in SUBSET Dates /\ d \in ReadDays
    BY <1>1, DaysAreNumbers DEF ReadDays
<1>3. /\ S \in SUBSET ReadDays /\ d \in S /\ \A w \in S : w <= d
      /\ Last(S) = d
    BY <1>2, SegmentFacts
<1>4. Cardinality(S) = Warmup + 1
  <2> DEFINE X == {w \in ReadDays : w <= d}
             H == TradingDays \cap L .. start - 1
  <2>1. H \cup {d} \subseteq X /\ d \notin H
    BY <1>1, <1>2, DaysAreNumbers DEF ReadDays
  <2>2. X \in SUBSET Dates /\ H \in SUBSET Dates
    BY <1>2, DaysAreNumbers
  <2>3. Cardinality(H \cup {d}) = Warmup + 1
    BY <1>1, <2>1, <2>2, DaysAreFinite, FS_AddElement
  <2>4. Cardinality(X) >= Warmup + 1
    <3>1. H \cup {d} \in SUBSET X
      BY <2>1
    <3> HIDE DEF X, H
    <3>2. Cardinality(H \cup {d}) <= Cardinality(X) /\ Cardinality(X) \in Nat
      BY <2>2, <3>1, DaysAreFinite
    <3>3. QED
      BY <2>3, <3>2, LayersAssumption
  <2>5. QED
    BY <1>2, <2>4, SegmentIsWhole
<1>5. CASE \A w \in S : Whole(w)
  <2>1. S \in Segments
    BY <1>2, <1>4, <1>5 DEF Segments
  <2>2. RowOf(S).as_of_date = d
    BY <1>3 DEF RowOf
  <2> HIDE DEF S
  <2>3. QED
    BY <2>1, <2>2 DEF Accounted
<1>6. CASE \E w \in S : ~Whole(w)
  <2>1. PICK w \in S : ~Whole(w)
    BY <1>6
  <2>2. w < start /\ \E k \in Datasets : silver[k][w] = Absent
    BY <1>3, <2>1 DEF Readable, Excused, Missing
  <2>3. w \in TradingDays /\ L <= w /\ w \in Nat /\ Cardinality(ReadDays \cap w .. d) <= Warmup + 1
    BY <1>3, <2>1, DaysAreNumbers DEF ReadDays, Segment
  <2>4. ReadDays \cap w .. d = TradingDays \cap w .. d
    BY <1>1, <2>3, DaysAreNumbers DEF ReadDays
  <2>5. QED
    BY <2>2, <2>3, <2>4 DEF Accounted
<1>7. QED
    BY <1>5, <1>6

LEMMA CompleteStep ==
    ASSUME TypeOK, StageInv, CompleteInv, [Next]_vars
    PROVE  CompleteInv'
<1> USE DEF CompleteInv
<1>1. CASE BuildRows
  <2> SUFFICES ASSUME NEW d \in TradingDays \cap start .. end
               PROVE  Accounted(gold_rows, d)'
    BY <1>1 DEF BuildRows
  <2>1. Accounted({RowOf(S) : S \in Segments}, d)
    BY <1>1, RequestedDay DEF BuildRows, StageInv
  <2>2. gold_rows' = {RowOf(S) : S \in Segments} /\ UNCHANGED <<silver, start>>
    BY <1>1 DEF BuildRows
  <2>3. QED
    BY <2>1, <2>2 DEF Accounted
<1>2. CASE OpenGold
    BY <1>2 DEF OpenGold, Accounted
<1>3. CASE stage' \notin {"build", "write_gold"}
    BY <1>3
<1>4. CASE UNCHANGED vars
    BY <1>4 DEF vars, Accounted
<1>5. QED
    BY <1>1, <1>2, <1>3, <1>4
       DEF Next, Start, Run, StartSilver, StartGold, StartAll, Begin, SkipDay, NormalizeFails,
           Normalizing, OpenSilver, CloseSilver, NextDataset, SilverDone, ReadFails, CloseGold,
           Kill, Ingest, End

-----------------------------------------------------------------------------
(* A command counts its steps down. *)

DaysToDo == IF current <= end THEN end + 1 - current ELSE 0

\* Two steps for each day of a dataset, and one to leave it.
PerDataset == 2 * MaxDate + 1

StepsLeft ==
    CASE stage = "idle" -> 0
      [] stage = "normalize" -> 2 * DaysToDo + (DatasetCount - dataset) * PerDataset + 4
      [] stage = "write_silver" -> 2 * DaysToDo + (DatasetCount - dataset) * PerDataset + 3
      [] stage = "read" -> 3
      [] stage = "build" -> 2
      [] stage = "write_gold" -> 1

Counted ==
    StepsLeft \in 0 .. DatasetCount * PerDataset + 4 /\ (StepsLeft = 0 <=> stage = "idle")

\* A command takes no more steps than this, each of its own steps leaves it fewer, and
\* nothing but another command gives it more.
RunsCountDown ==
    /\ []Counted
    /\ [][/\ Run => StepsLeft' < StepsLeft
          /\ ~Start => StepsLeft' <= StepsLeft]_vars

\* The multiples of PerDataset, which is never computed again.
LEMMA DatasetsToDo ==
    ASSUME ControlOK
    PROVE  /\ PerDataset \in Nat /\ PerDataset = 2 * MaxDate + 1
           /\ \A k \in Datasets :
                 LET m == (DatasetCount - k) * PerDataset IN
                 /\ m \in Nat /\ m <= DatasetCount * PerDataset - PerDataset
                 /\ k < DatasetCount =>
                       (DatasetCount - (k + 1)) * PerDataset = m - PerDataset
           /\ DaysToDo \in 0 .. MaxDate /\ (current <= end => DaysToDo >= 1)
<1>1. MaxDate \in Nat /\ DatasetCount \in Nat /\ Datasets = 1 .. DatasetCount
  BY LayersAssumption DEF Datasets
<1>2. PerDataset \in Nat /\ PerDataset = 2 * MaxDate + 1
  BY <1>1 DEF PerDataset
<1>3. ASSUME NEW k \in 1 .. DatasetCount, NEW p \in Nat
      PROVE  /\ (DatasetCount - k) * p \in Nat
             /\ (DatasetCount - k) * p <= DatasetCount * p - p
             /\ (DatasetCount - (k + 1)) * p = (DatasetCount - k) * p - p
  <2>1. (DatasetCount - k) * p \in Nat /\ (k - 1) * p \in Nat
    BY <1>1
  <2>2. DatasetCount * p - p = (DatasetCount - k) * p + (k - 1) * p
    BY <1>1
  <2>3. (DatasetCount - (k + 1)) * p = (DatasetCount - k) * p - p
    BY <1>1
  <2> QED
    BY <1>1, <2>1, <2>2, <2>3
<1>4. DaysToDo \in 0 .. MaxDate /\ (current <= end => DaysToDo >= 1)
  BY <1>1 DEF ControlOK, Dates, DaysToDo
<1> QED
  BY <1>1, <1>2, <1>3, <1>4

LEMMA StepsCounted == ControlOK /\ StageInv => Counted
<1> SUFFICES ASSUME ControlOK, StageInv PROVE Counted
  OBVIOUS
<1>1. PICK p \in Nat, d \in Nat, t \in Nat :
        p = PerDataset /\ d = DaysToDo /\ t = DatasetCount * PerDataset /\ 2 * d < p
  BY DatasetsToDo, LayersAssumption
<1>2. CASE stage \in {"normalize", "write_silver"}
  <2>1. PICK m \in Nat : m = (DatasetCount - dataset) * PerDataset /\ m <= t - p
    BY <1>1, <1>2, DatasetsToDo DEF StageInv
  <2>2. StepsLeft \in {2 * d + m + 4, 2 * d + m + 3}
    BY <1>1, <1>2, <2>1 DEF StepsLeft
  <2> QED
    BY <1>1, <1>2, <2>1, <2>2 DEF Counted
<1>3. CASE stage \in Stages \ {"normalize", "write_silver"}
  <2>1. StepsLeft \in 0 .. 3 /\ (StepsLeft = 0 <=> stage = "idle")
    BY <1>3 DEF StepsLeft, Stages
  <2> QED
    BY <1>1, <2>1 DEF Counted
<1> QED
  BY <1>2, <1>3 DEF ControlOK

LEMMA StepsCountedNext == (ControlOK /\ StageInv)' => Counted'
BY StepsCounted, PTL

LEMMA RunCounts ==
    ASSUME ControlOK, StageInv, (ControlOK /\ StageInv)', Run
    PROVE  StepsLeft' < StepsLeft
<1>1. /\ StepsLeft \in Nat /\ StepsLeft' \in Nat
      /\ StepsLeft = 0 <=> stage = "idle"
      /\ StepsLeft' = 0 <=> stage' = "idle"
  <2>1. DatasetCount * PerDataset + 4 \in Nat
    BY DatasetsToDo, LayersAssumption
  <2> QED
    BY <2>1, StepsCounted, StepsCountedNext DEF Counted
<1>2. /\ MaxDate \in Nat /\ DatasetCount \in Nat /\ DaysToDo \in 0 .. MaxDate
      /\ current \in Nat /\ end \in Nat /\ end <= MaxDate
  BY DatasetsToDo, LayersAssumption DEF ControlOK, Dates
<1>3. CASE stage # "idle" /\ stage' = "idle"
  BY <1>1, <1>3
<1>4. stage \in {"normalize", "write_silver"} =>
        \E m \in Nat : m = (DatasetCount - dataset) * PerDataset
  BY DatasetsToDo DEF StageInv
<1>5. CASE SkipDay
  <2>1. PICK m \in Nat : m = (DatasetCount - dataset) * PerDataset
    BY <1>4, <1>5 DEF SkipDay, Normalizing
  <2>2. DaysToDo' = DaysToDo - 1
    BY <1>2, <1>5 DEF SkipDay, Normalizing, DaysToDo
  <2>3. StepsLeft = 2 * DaysToDo + m + 4 /\ StepsLeft' = 2 * DaysToDo' + m + 4
    BY <1>5, <2>1 DEF SkipDay, Normalizing, StepsLeft, PerDataset
  <2> QED
    BY <1>2, <2>2, <2>3
<1>6. CASE OpenSilver
  <2>1. PICK m \in Nat : m = (DatasetCount - dataset) * PerDataset
    BY <1>4, <1>6 DEF OpenSilver, Normalizing
  <2>2. DaysToDo' = DaysToDo
    BY <1>6 DEF OpenSilver, DaysToDo
  <2>3. StepsLeft = 2 * DaysToDo + m + 4 /\ StepsLeft' = 2 * DaysToDo' + m + 3
    BY <1>6, <2>1 DEF OpenSilver, Normalizing, StepsLeft, PerDataset
  <2> QED
    BY <1>2, <2>2, <2>3
<1>7. CASE CloseSilver
  <2>1. PICK m \in Nat : m = (DatasetCount - dataset) * PerDataset
    BY <1>4, <1>7 DEF CloseSilver
  <2>2. DaysToDo' = DaysToDo - 1
    BY <1>2, <1>7 DEF CloseSilver, DaysToDo, StageInv
  <2>3. StepsLeft = 2 * DaysToDo + m + 3 /\ StepsLeft' = 2 * DaysToDo' + m + 4
    BY <1>7, <2>1 DEF CloseSilver, StepsLeft, PerDataset
  <2> QED
    BY <1>2, <2>2, <2>3
<1>8. CASE NextDataset
  <2>1. PICK m \in Nat : m = (DatasetCount - dataset) * PerDataset
    BY <1>4, <1>8 DEF NextDataset
  <2>2. StepsLeft = m + 4
    BY <1>2, <1>8, <2>1 DEF NextDataset, StepsLeft, DaysToDo
  <2>3. CASE dataset < DatasetCount
    <3>1. dataset \in Datasets /\ dataset' = dataset + 1 /\ stage' = "normalize"
      BY <1>8, <2>3 DEF NextDataset, StageInv
    <3>2. PICK p \in Nat, q \in Nat :
            /\ p = PerDataset /\ p = 2 * MaxDate + 1
            /\ q = (DatasetCount - dataset') * PerDataset /\ q = m - p
      <4>1. dataset + 1 \in Datasets
        BY <1>2, <2>3, <3>1 DEF Datasets
      <4>2. (DatasetCount - (dataset + 1)) * PerDataset = m - PerDataset
        BY <2>1, <2>3, <3>1, DatasetsToDo
      <4>3. (DatasetCount - (dataset + 1)) * PerDataset \in Nat
        BY <4>1, DatasetsToDo
      <4> QED
        BY <3>1, <4>2, <4>3, DatasetsToDo
    <3>3. p = 2 * MaxDate + 1 /\ q = m - p
      BY <3>2
    <3>4. PICK d \in Nat : d = DaysToDo' /\ d <= MaxDate
      <4>1. PICK c \in Nat, e \in Nat : c = current' /\ e = end' /\ 1 <= c /\ e <= MaxDate
        BY <1>2 DEF ControlOK, Dates
      <4>2. DaysToDo' = IF c <= e THEN e + 1 - c ELSE 0
        BY <4>1 DEF DaysToDo
      <4>3. 1 <= c /\ e <= MaxDate /\ MaxDate \in Nat
        BY <1>2, <4>1
      <4>4. c <= e => e + 1 - c \in Nat /\ e + 1 - c <= MaxDate
        BY <4>3
      <4>5. 0 \in Nat /\ 0 <= MaxDate
        BY <4>3
      <4> QED
        BY <4>2, <4>4, <4>5
    <3>5. StepsLeft' = 2 * d + q + 4
      BY <3>1, <3>2, <3>4 DEF StepsLeft, PerDataset
    <3>6. d <= MaxDate /\ MaxDate \in Nat
      BY <1>2, <3>4
    <3>7. 2 * d + q + 4 < m + 4
      BY <3>3, <3>6
    <3> QED
      BY <2>2, <3>5, <3>7
  <2>4. CASE ~(dataset < DatasetCount)
    <3>1. StepsLeft' = 3
      BY <1>8, <2>4 DEF NextDataset, StepsLeft
    <3> QED
      BY <2>2, <3>1
  <2> QED
    BY <2>3, <2>4
<1>9. CASE BuildRows \/ OpenGold
  BY <1>9 DEF BuildRows, OpenGold, StepsLeft
<1> QED
  BY <1>3, <1>5, <1>6, <1>7, <1>8, <1>9
     DEF Run, NormalizeFails, Normalizing, SilverDone, ReadFails, CloseGold, End

-----------------------------------------------------------------------------

LEMMA InitIInv == Init => IInv
<1> SUFFICES ASSUME Init
             PROVE  IInv
    OBVIOUS
<1>1. FilesOK
    BY LayersAssumption DEF Init, FilesOK, NoFile
<1>2. ControlOK
    BY LayersAssumption DEF Init, ControlOK, Stages, Dates
<1>3. StageInv /\ FreshInv /\ CompleteInv
    BY DEF Init, StageInv, FreshInv, CompleteInv
<1>4. HistoryInv
    BY DEF Init, HistoryInv, RowHistory, HistoryOf, NoFile
<1>5. QED
    BY <1>1, <1>2, <1>3, <1>4, TypeParts DEF IInv

LEMMA IInvariance == Spec => []IInv
<1>1. IInv /\ [Next]_vars => IInv'
  <2> SUFFICES ASSUME IInv, [Next]_vars
               PROVE  IInv'
    OBVIOUS
  <2>1. TypeOK'
    <3>1. FilesOK'
      BY FilesStep DEF IInv
    <3>2. ControlOK'
      BY ControlStep, TypeParts DEF IInv
    <3>3. QED
      BY <3>1, <3>2 DEF FilesOK, ControlOK, TypeOK
  <2>2. QED
    BY <2>1, StageStep, HistoryStep, FreshStep, CompleteStep DEF IInv
<1>2. QED
    BY <1>1, InitIInv, PTL DEF Spec

\* Every variable keeps its type.
THEOREM TypeCorrect == Spec => []TypeOK
<1>1. IInv => TypeOK
    BY DEF IInv
<1>2. QED
    BY <1>1, IInvariance, PTL

\* Whatever was absent, torn or refused while it was built, a Gold row has its whole
\* window of consecutive trading days.
THEOREM RowsHaveHistory == Spec => []RowHistory
<1>1. IInv => RowHistory
    BY DEF IInv, HistoryInv
<1>2. QED
    BY <1>1, IInvariance, PTL

\* --layer all leaves nothing stale in the window of any row it writes.
THEOREM AllIsFresh == Spec => FreshGold
<1>1. IInv /\ [Next]_vars =>
        [CloseGold /\ layer = "all" =>
            \A r \in gold' : \A d \in DOMAIN r.window : \A k \in Datasets :
                bronze[k][d] # Absent =>
                    /\ bronze[k][d] \in BronzeRows
                    /\ r.window[d][k] = Normalize[bronze[k][d]]]_vars
    BY DEF IInv, FreshInv, FreshRow, CloseGold
<1>2. QED
    BY <1>1, IInvariance, PTL DEF Spec, FreshGold

\* A build that succeeds passes over no requested trading day but for a hole in the
\* history before the range.
THEOREM BuildsAreComplete == Spec => GoldComplete
<1>1. IInv /\ [Next]_vars =>
        [CloseGold =>
            \A d \in TradingDays \cap start .. end :
                \/ \E r \in gold' : r.as_of_date = d
                \/ \E w \in TradingDays :
                      /\ w < start /\ Cardinality(TradingDays \cap w .. d) <= Warmup + 1
                      /\ \E k \in Datasets : silver[k][w] = Absent]_vars
    BY DEF IInv, CompleteInv, Accounted, CloseGold
<1>2. QED
    BY <1>1, IInvariance, PTL DEF Spec, GoldComplete

-----------------------------------------------------------------------------
(* The files that are torn and that nobody is writing. *)

LEMMA LostSize ==
    /\ IsFiniteSet(Datasets \X Dates)
    /\ \A S \in SUBSET (Datasets \X Dates) : IsFiniteSet(S) /\ Cardinality(S) \in Nat
    /\ \A S, T \in SUBSET (Datasets \X Dates) : S \subseteq T => Cardinality(S) <= Cardinality(T)
    /\ \A T \in SUBSET (Datasets \X Dates) : \A e \in Datasets \X Dates :
          Cardinality(T \cup {e}) <= Cardinality(T) + 1
<1>1. IsFiniteSet(Datasets \X Dates)
  <2>1. IsFiniteSet(Datasets) /\ IsFiniteSet(Dates)
    BY FS_Interval, LayersAssumption DEF Datasets, Dates
  <2> QED
    BY <2>1, FS_Product
<1>2. \A S \in SUBSET (Datasets \X Dates) : IsFiniteSet(S) /\ Cardinality(S) \in Nat
  BY <1>1, FS_Subset, FS_CardinalityType
<1>3. \A S, T \in SUBSET (Datasets \X Dates) : S \subseteq T => Cardinality(S) <= Cardinality(T)
  BY <1>2, FS_Subset
<1>4. ASSUME NEW T \in SUBSET (Datasets \X Dates), NEW e \in Datasets \X Dates
      PROVE  Cardinality(T \cup {e}) <= Cardinality(T) + 1
  <2>1. IsFiniteSet(T) /\ Cardinality(T) \in Nat
    BY <1>2
  <2>2. Cardinality(T \cup {e}) = IF e \in T THEN Cardinality(T) ELSE Cardinality(T) + 1
    BY <2>1, FS_AddElement
  <2> QED
    BY <2>1, <2>2
<1> QED
  BY <1>1, <1>2, <1>3, <1>4

\* Only a kill adds a file to the lost ones, and it adds the one that is being written.
LEMMA LostStep ==
    ASSUME Torn \notin SUBSET GoldRows, IInv, [Next]_vars
    PROVE  \/ LostSilver' \subseteq LostSilver /\ LostGold' <= LostGold /\ kills' = kills
           \/ LostSilver' \subseteq LostSilver /\ LostGold' <= LostGold + 1 /\ kills' = kills + 1
           \/ /\ \E p \in Datasets \X Dates : LostSilver' \subseteq LostSilver \cup {p}
              /\ LostGold' <= LostGold /\ kills' = kills + 1
<1>1. CASE UNCHANGED <<silver, gold, stage, dataset, current, kills>>
  BY <1>1 DEF LostSilver, LostGold
<1>2. CASE /\ UNCHANGED <<silver, gold, kills>>
           /\ stage \notin {"write_silver", "write_gold"}
  BY <1>2 DEF LostSilver, LostGold
<1>3. CASE Kill
  <2>1. silver' = silver /\ gold' = gold /\ stage' = "idle" /\ kills' = kills + 1
    BY <1>3 DEF Kill, End
  <2>2. CASE stage = "write_silver"
    <3>1. <<dataset, current>> \in Datasets \X Dates
      BY <2>2, LayersAssumption DEF IInv, StageInv, Normalizable
    <3>2. LostSilver' \subseteq LostSilver \cup {<<dataset, current>>}
      BY <2>1 DEF LostSilver
    <3>3. LostGold' <= LostGold
      BY <2>1, <2>2 DEF LostGold
    <3> QED
      BY <2>1, <3>1, <3>2, <3>3
  <2>3. CASE stage # "write_silver"
    BY <2>1, <2>3 DEF LostSilver, LostGold
  <2> QED
    BY <2>2, <2>3
<1>4. CASE OpenSilver
  <2>1. /\ silver' = [silver EXCEPT ![dataset][current] = Torn]
        /\ stage = "normalize" /\ stage' = "write_silver"
        /\ UNCHANGED <<gold, dataset, current, kills>>
    BY <1>4 DEF OpenSilver, Normalizing
  <2>2. \A k \in Datasets, d \in Dates :
          <<k, d>> # <<dataset, current>> => silver'[k][d] = silver[k][d]
    BY <2>1 DEF IInv, TypeOK
  <2>3. LostSilver' \subseteq LostSilver
    BY <2>1, <2>2 DEF LostSilver
  <2> QED
    BY <2>1, <2>3 DEF LostGold
<1>5. CASE CloseSilver
  <2>1. /\ silver' = [silver EXCEPT ![dataset][current] = Normalize[Partition]]
        /\ stage = "write_silver" /\ stage' = "normalize" /\ gold' = gold /\ kills' = kills
    BY <1>5 DEF CloseSilver
  <2>2. dataset \in Datasets /\ current \in Dates /\ Normalize[Partition] # Torn
    BY <2>1, LayersAssumption DEF IInv, StageInv, Normalizable, NoFile
  <2>3. \A k \in Datasets, d \in Dates :
          silver'[k][d] = IF <<k, d>> = <<dataset, current>> THEN Normalize[Partition]
                          ELSE silver[k][d]
    BY <2>1, <2>2 DEF IInv, TypeOK
  <2>4. LostSilver' \subseteq LostSilver
    BY <2>1, <2>2, <2>3 DEF LostSilver
  <2> QED
    BY <2>1, <2>4 DEF LostGold
<1>6. CASE OpenGold \/ CloseGold
  <2>1. /\ silver' = silver /\ kills' = kills
        /\ stage \notin {"write_silver"} /\ stage' # "write_silver"
    BY <1>6 DEF OpenGold, CloseGold, End
  <2>2. LostGold' = 0
    <3>1. gold_rows # Torn
      BY LayersAssumption DEF IInv, TypeOK, NoFile
    <3> QED
      BY <1>6, <3>1 DEF OpenGold, CloseGold, End, LostGold
  <2> QED
    BY <2>1, <2>2 DEF LostSilver, LostGold
<1>7. ASSUME Start
      PROVE  UNCHANGED <<silver, gold, kills>> /\ stage = "idle"
  BY <1>7 DEF Start, StartSilver, StartGold, StartAll, Begin
<1>8. CASE SkipDay \/ NormalizeFails \/ NextDataset \/ SilverDone \/ BuildRows \/ ReadFails
  BY <1>2, <1>8 DEF SkipDay, NormalizeFails, NextDataset, SilverDone, BuildRows, ReadFails,
     Normalizing, End
<1>9. CASE Ingest \/ UNCHANGED vars
  BY <1>1, <1>9 DEF Ingest, vars
<1> QED
  BY <1>2, <1>3, <1>4, <1>5, <1>6, <1>7, <1>8, <1>9 DEF Next, Run

\* Whatever else goes wrong, each kill costs one Silver partition or the Gold file at most,
\* and nothing but a kill costs any.  A torn file is told from a table by what it is: no
\* set of rows, as TLC takes it for granted of a model value.
THEOREM KillsCostOne ==
    ASSUME Torn \notin SUBSET GoldRows
    PROVE  Spec => []KillLosesOne
<1>1. Init => KillLosesOne
  <2> SUFFICES ASSUME Init PROVE KillLosesOne
    OBVIOUS
  <2>1. LostSilver = {} /\ LostGold = 0 /\ kills = 0
    BY LayersAssumption DEF Init, LostSilver, LostGold
  <2> QED
    BY <2>1, FS_EmptySet DEF KillLosesOne
<1>2. IInv /\ KillLosesOne /\ [Next]_vars => KillLosesOne'
  <2> SUFFICES ASSUME IInv, KillLosesOne, [Next]_vars PROVE KillLosesOne'
    OBVIOUS
  <2>1. LostSilver \in SUBSET (Datasets \X Dates) /\ LostSilver' \in SUBSET (Datasets \X Dates)
    BY DEF LostSilver
  <2>2. /\ Cardinality(LostSilver) \in Nat /\ Cardinality(LostSilver') \in Nat
        /\ LostGold \in Nat /\ LostGold' \in Nat /\ kills \in Nat
        /\ Cardinality(LostSilver) + LostGold <= kills
    BY <2>1, LostSize, LayersAssumption DEF LostGold, KillLosesOne, IInv, TypeOK
  <2>3. CASE LostSilver' \subseteq LostSilver
    <3>1. Cardinality(LostSilver') <= Cardinality(LostSilver)
      BY <2>1, <2>3, LostSize
    <3>2. \/ LostGold' <= LostGold /\ kills' = kills
          \/ LostGold' <= LostGold + 1 /\ kills' = kills + 1
      BY <2>2, LostStep
    <3>3. Cardinality(LostSilver') + LostGold' <= kills'
      BY <2>2, <3>1, <3>2
    <3> QED
      BY <3>3 DEF KillLosesOne
  <2>4. CASE ~(LostSilver' \subseteq LostSilver)
    <3>1. PICK p \in Datasets \X Dates :
            LostSilver' \subseteq LostSilver \cup {p} /\ LostGold' <= LostGold /\ kills' = kills + 1
      BY <2>4, LostStep
    <3>2. LostSilver \cup {p} \in SUBSET (Datasets \X Dates)
      BY <2>1
    <3>3. /\ Cardinality(LostSilver \cup {p}) <= Cardinality(LostSilver) + 1
          /\ Cardinality(LostSilver') <= Cardinality(LostSilver \cup {p})
          /\ Cardinality(LostSilver \cup {p}) \in Nat
      BY <2>1, <3>1, <3>2, LostSize
    <3>4. Cardinality(LostSilver') + LostGold' <= kills'
      BY <2>2, <3>1, <3>3
    <3> QED
      BY <3>4 DEF KillLosesOne
  <2> QED
    BY <2>3, <2>4
<1> QED
  BY <1>1, <1>2, IInvariance, PTL DEF Spec

-----------------------------------------------------------------------------

\* A build ends, over whatever range, datasets and files: the loops over the days and
\* over the datasets have no step that does not bring them nearer to their end.
THEOREM BuildsCountDown == Spec => RunsCountDown
<1>1. IInv => ControlOK /\ StageInv
  BY TypeParts DEF IInv
<1>2. IInv => Counted
  BY <1>1, StepsCounted
<1>3. IInv /\ IInv' /\ [Next]_vars =>
        [/\ Run => StepsLeft' < StepsLeft
         /\ ~Start => StepsLeft' <= StepsLeft]_vars
  <2> SUFFICES ASSUME IInv, IInv', [Next]_vars, ~UNCHANGED vars
               PROVE  /\ Run => StepsLeft' < StepsLeft
                      /\ ~Start => StepsLeft' <= StepsLeft
    OBVIOUS
  <2>1. (ControlOK /\ StageInv)'
    BY <1>1, PTL
  <2>2. Counted /\ Counted' /\ ControlOK /\ StageInv
    BY <1>1, <1>2, <2>1, StepsCountedNext
  <2>3. StepsLeft \in Nat /\ StepsLeft' \in Nat /\ (StepsLeft' = 0 <=> stage' = "idle")
    <3>1. DatasetCount * PerDataset + 4 \in Nat
      BY <2>2, DatasetsToDo, LayersAssumption
    <3> QED
      BY <2>2, <3>1 DEF Counted
  <2>4. CASE Run
    BY <2>1, <2>2, <2>3, <2>4, RunCounts
  <2>5. CASE Kill
    <3>1. stage' = "idle"
      BY <2>5 DEF Kill, End
    <3>2. StepsLeft # 0
      BY <2>2, <2>5 DEF Kill, Counted
    <3> QED
      BY <2>3, <3>1, <3>2
  <2>6. CASE Ingest
    <3>1. stage = "idle" /\ stage' = "idle"
      BY <2>6 DEF Ingest
    <3>2. ~Run
      BY <3>1 DEF Run, SkipDay, NormalizeFails, OpenSilver, CloseSilver, Normalizing,
         NextDataset, SilverDone, BuildRows, ReadFails, OpenGold, CloseGold
    <3> QED
      BY <2>3, <3>1, <3>2
  <2>7. CASE Start
    <3>1. stage = "idle"
      BY <2>7 DEF Start, StartSilver, StartGold, StartAll, Begin
    <3>2. ~Run
      BY <3>1 DEF Run, SkipDay, NormalizeFails, OpenSilver, CloseSilver, Normalizing,
         NextDataset, SilverDone, BuildRows, ReadFails, OpenGold, CloseGold
    <3> QED
      BY <2>7, <3>2
  <2> QED
    BY <2>4, <2>5, <2>6, <2>7 DEF Next
<1>4. QED
  BY <1>2, <1>3, IInvariance, PTL DEF Spec, RunsCountDown

=============================================================================
