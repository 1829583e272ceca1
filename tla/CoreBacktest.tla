---------------------------- MODULE CoreBacktest ----------------------------
(***************************************************************************)
(* build_backtest_dataset (apps/kr-kospi/.../transforms/target_labels.py)  *)
(* and the command run-backtest, BacktestRunner (core/.../backtest/        *)
(* runner.py, metrics.py, reports.py), which iterates over the generator   *)
(* of module WalkForward and invokes the decision runtime for each row.    *)
(*                                                                         *)
(* The dataset is labelled from the next Gold row, the decision dated by   *)
(* the next row of the dataset.  The rows a fold tests are decided before  *)
(* the generator is resumed.  An invocation loads agents.yaml anew; what   *)
(* may happen within one is the subject of DecisionRuntime, so here it is  *)
(* one step.  Its decisions go to a temporary directory and are lost.      *)
(***************************************************************************)
EXTENDS Integers, Sequences, FiniteSets, FiniteSetsExt

CONSTANTS
    MaxDate,       \* trade dates are 1 .. MaxDate
    Weekdays,      \* Monday to Friday, whether they trade or not
    MaxRows,       \* bound: the rows of a dataset
    Prices,        \* closes, further apart than the flat band; 0 is not positive
    NoClose,       \* a close that is null
    Features,      \* the other features of a row
    Configs,       \* contents of agents.yaml
    Decide,        \* the label of features under a config, Raises if there is none
    Raises,
    GoldFiles,     \* what decision_features.parquet may hold: sets of Gold rows
    HandMade,      \* datasets not made by build_backtest_dataset
    NoTarget,      \* a label that is no label of the truth
    Unknown,       \* the day a hand-made label is about
    MinTrainRows, TestFoldSizes, GapDays,   \* the splitters, as in WalkForward
    Absent, Torn,  \* no file; a file whose write did not end
    MaxEdits,      \* bound: edits of agents.yaml in a behaviour
    MaxCommands,   \* bound: commands in a behaviour
    MaxKills       \* bound: kills and failed writes in a behaviour

Dates == 1 .. MaxDate
DecisionDates == Dates \cup Weekdays
RowCounts == 0 .. MaxRows
Targets == {"up", "down", "flat"}
Labels == {"up", "down", "skip"}
NoFile == {Absent, Torn}

GoldRow == [trade_date : Dates, close : Prices \cup {NoClose}, feature : Features]

\* about is the day the label tells the truth of; the file does not hold it.
DatasetRow ==
    [trade_date : Dates, feature : Features,
     target : Targets \cup {NoTarget}, about : Dates \cup {Unknown}]

\* snapshot_id is gold:<trade date>:<hash of the row>.
BacktestRow ==
    [fold_id : 1 .. MaxRows, decision_date : DecisionDates, label : Labels,
     target_label : Targets, correct : BOOLEAN,
     snapshot_id : Dates \X Features, config_signature : Configs]

ASSUME BacktestAssumption ==
    /\ MaxDate \in Nat /\ MaxRows \in Nat
    /\ Weekdays \subseteq Nat
    /\ \A d \in Dates : \E w \in Weekdays : w > d
    /\ Prices \subseteq Nat /\ NoClose \notin Prices
    /\ Decide \in [Configs -> [Features -> Labels \cup {Raises}]]
    /\ GoldFiles \subseteq SUBSET GoldRow /\ HandMade \subseteq SUBSET DatasetRow
    /\ \A d \in HandMade : \A r \in d : r.about = Unknown
    /\ NoTarget \notin Targets /\ Unknown \notin Dates /\ Absent # Torn
    /\ MinTrainRows \subseteq Nat \ {0} /\ TestFoldSizes \subseteq Nat \ {0}
    /\ GapDays \subseteq Nat /\ {} \notin {MinTrainRows, TestFoldSizes, GapDays}
    /\ MaxEdits \in Nat /\ MaxCommands \in Nat /\ MaxKills \in Nat

VARIABLES
    gold,         \* decision_features.parquet
    dataset,      \* backtest_dataset.parquet, beside it
    agents_yaml,
    reports,      \* rows.jsonl, metrics.json, metrics.csv
    stage,        \* where the command is
    gold_dir,     \* whether it was given the directory of the Gold file
    rows,         \* the dataset in memory
    n, trade_dates, min_train_rows, test_fold_size, gap_days,
    sorted_positions, train, last, folds, pc,   \* the generator
    todo,         \* the test rows of the current fold not yet decided
    fold_rows,    \* those decided
    report,       \* the report being written
    edits, commands, kills

files == <<gold, dataset, agents_yaml, reports>>
splitter == <<n, trade_dates, min_train_rows, test_fold_size, gap_days,
              sorted_positions, train, last, folds, pc>>
bounds == <<edits, commands, kills>>
vars == <<files, stage, gold_dir, rows, splitter, todo, fold_rows, report, bounds>>

WF == INSTANCE WalkForward

-----------------------------------------------------------------------------
(* The dataset. *)

\* Rows of Gold that follow one another, whatever days lie between them.
Consecutive(g) ==
    {p \in g \X g : /\ p[1].trade_date < p[2].trade_date
                    /\ \A q \in g : q.trade_date <= p[1].trade_date
                                     \/ p[2].trade_date <= q.trade_date}

Direction(today, tomorrow) ==
    IF tomorrow > today THEN "up" ELSE IF tomorrow < today THEN "down" ELSE "flat"

Positive(close) == close # NoClose /\ close > 0

Labelled(r, s) ==
    [trade_date |-> r.trade_date, feature |-> r.feature,
     target |-> Direction(r.close, s.close), about |-> s.trade_date]

\* The last row has no label; nor has a row next to a close that is not positive.
DatasetOf(g) ==
    {Labelled(p[1], p[2]) :
        p \in {q \in Consecutive(g) : Positive(q[1].close) /\ Positive(q[2].close)}}

DistinctDates(rs) == \A r, s \in rs : r.trade_date = s.trade_date => r = s

\* A gold file that is absent is one without rows.
Datasets == HandMade \cup {DatasetOf(g) : g \in GoldFiles \cup {{}}}

ASSUME RowsAssumption == \A d \in Datasets : DistinctDates(d) => Cardinality(d) <= MaxRows

\* A missing path is an empty directory: no rows, and no error.
GoldRead == IF gold = Absent THEN {} ELSE gold

\* A directory is read with every parquet file in it, an earlier dataset too,
\* whose target_ columns are refused; they show in its first row only.
GoldReadable ==
    /\ gold # Torn /\ (gold_dir => dataset \in {Absent, {}})
    /\ DistinctDates(GoldRead)

-----------------------------------------------------------------------------
(* The rows in memory, and the metrics of those decided. *)

Position(rs, r) == Cardinality({q \in rs : q.trade_date < r.trade_date})
RowAt(p) == CHOOSE r \in rows : Position(rows, r) = p

NextWeekday(d) == CHOOSE w \in Weekdays : w > d /\ \A v \in Weekdays : v > d => w <= v

\* Mutant of DecisionDate: the next weekday, as for the last row, for each row.
DecisionDateOfWeek(p) == NextWeekday(RowAt(p).trade_date)

\* _next_decision_date: the next row of the dataset, or the next weekday.
DecisionDate(p) ==
    IF p + 1 < n THEN RowAt(p + 1).trade_date ELSE NextWeekday(RowAt(p).trade_date)

Deciding(label, R) == {r \in R : r.label = label}
Targeting(target, R) == {r \in R : r.target_label = target}
Matches(label, R) == Deciding(label, R) \cap Targeting(label, R)

\* _safe_ratio(a, b) is a / b, or None when b is 0.
Ratio(A, B) == <<Cardinality(A), Cardinality(B)>>

\* Mutant of NonSkip: the skip days count in the hit rate.
NonSkipOrSkip(R) == R

NonSkip(R) == R \ Deciding("skip", R)

\* compute_fold_metrics, and the same sums in compute_overall_metrics.
Rates(R) ==
    [decision_count |-> Cardinality(R),
     start          |-> Min({r.decision_date : r \in R}),
     end            |-> Max({r.decision_date : r \in R}),
     hit_rate       |-> Ratio({r \in R : r.correct}, NonSkip(R)),
     precision_up   |-> Ratio(Matches("up", R), Deciding("up", R)),
     precision_down |-> Ratio(Matches("down", R), Deciding("down", R)),
     recall_up      |-> Ratio(Matches("up", R), Targeting("up", R)),
     recall_down    |-> Ratio(Matches("down", R), Targeting("down", R)),
     skip_rate      |-> Ratio(Deciding("skip", R), R),
     flat_rate      |-> Ratio(Targeting("flat", R), R)]

FoldIds(R) == {r.fold_id : r \in R}
Metrics(R) ==
    [overall |-> Rates(R),
     folds |-> [k \in FoldIds(R) |-> Rates({r \in R : r.fold_id = k})]]

-----------------------------------------------------------------------------

Init ==
    /\ gold \in GoldFiles \cup NoFile
    /\ dataset \in HandMade \cup {Absent}
    /\ agents_yaml \in Configs
    /\ reports = [k \in 1 .. 3 |-> Absent]
    /\ stage = "idle" /\ gold_dir = FALSE /\ rows = {}
    /\ n = 0 /\ trade_dates = <<>>
    /\ min_train_rows = Min(MinTrainRows) /\ test_fold_size = Min(TestFoldSizes)
    /\ gap_days = Min(GapDays)
    /\ sorted_positions = <<>> /\ train = {} /\ last = 0 /\ folds = <<>> /\ pc = "begin"
    /\ todo = {} /\ fold_rows = {} /\ report = 1
    /\ edits = 0 /\ commands = 0 /\ kills = 0

\* The process is gone, well or badly, with all it had in memory; files stay.
End ==
    /\ stage' = "idle" /\ gold_dir' = FALSE /\ rows' = {}
    /\ n' = 0 /\ trade_dates' = <<>>
    /\ min_train_rows' = Min(MinTrainRows) /\ test_fold_size' = Min(TestFoldSizes)
    /\ gap_days' = Min(GapDays)
    /\ sorted_positions' = <<>> /\ train' = {} /\ last' = 0 /\ folds' = <<>> /\ pc' = "begin"
    /\ todo' = {} /\ fold_rows' = {} /\ report' = 1

StartBuild(directory) ==
    /\ stage = "idle" /\ commands < MaxCommands
    /\ stage' = "read_gold" /\ gold_dir' = directory
    /\ commands' = commands + 1
    /\ UNCHANGED <<files, rows, splitter, todo, fold_rows, report, edits, kills>>

\* _read_gold_rows, _sorted_gold_rows and the loop; write_table truncates the file,
OpenDataset ==
    /\ stage = "read_gold" /\ GoldReadable
    /\ rows' = DatasetOf(GoldRead)
    /\ dataset' = Torn /\ stage' = "write_dataset"
    /\ UNCHANGED <<gold, agents_yaml, reports, gold_dir, splitter, todo, fold_rows,
                   report, bounds>>

\* and ends with the rows in it.
CloseDataset ==
    /\ stage = "write_dataset"
    /\ dataset' = rows
    /\ End /\ UNCHANGED <<gold, agents_yaml, reports, bounds>>

BuildFails ==
    /\ stage = "read_gold" /\ ~GoldReadable
    /\ End /\ UNCHANGED <<files, bounds>>

\* run-backtest, with the splitter of --folds-config or the default one.
StartBacktest(m, t, g) ==
    /\ stage = "idle" /\ commands < MaxCommands
    /\ stage' = "load"
    /\ min_train_rows' = m /\ test_fold_size' = t /\ gap_days' = g
    /\ commands' = commands + 1
    /\ UNCHANGED <<files, gold_dir, rows, n, trade_dates, sorted_positions, train, last,
                   folds, pc, todo, fold_rows, report, edits, kills>>

\* Mutant of Loadable: the labels are not looked at before they are used.
LoadableUnchecked == dataset \notin NoFile /\ dataset # {} /\ DistinctDates(dataset)

Loadable ==
    /\ dataset \notin NoFile /\ dataset # {} /\ DistinctDates(dataset)
    /\ \A r \in dataset : r.target \in Targets

\* _load_dataset_rows and _build_runtime_rows; split receives the sorted dates.
Load ==
    /\ stage = "load" /\ Loadable
    /\ rows' = dataset /\ n' = Cardinality(dataset)
    /\ trade_dates' =
           [p \in 0 .. Cardinality(dataset) - 1 |->
               (CHOOSE r \in dataset : Position(dataset, r) = p).trade_date]
    /\ sorted_positions' = [p \in 0 .. Cardinality(dataset) - 1 |-> p]
    /\ stage' = "split"
    /\ UNCHANGED <<files, gold_dir, min_train_rows, test_fold_size, gap_days, train,
                   last, folds, pc, todo, fold_rows, report, bounds>>

LoadFails ==
    /\ stage = "load" /\ ~Loadable
    /\ End /\ UNCHANGED <<files, bounds>>

\* The for loop asks the generator for a fold.
Split ==
    /\ stage = "split" /\ todo = {} /\ pc \in {"begin", "loop"}
    /\ WF!Resume
    /\ todo' = IF Len(folds') > Len(folds) THEN folds'[Len(folds')].test ELSE {}
    /\ UNCHANGED <<files, stage, gold_dir, rows, fold_rows, report, bounds>>

Invoking == stage = "split" /\ todo # {}
Feature == RowAt(Min(todo)).feature

\* The features file must hold exactly one row of the decision date, of a day before.
Selected ==
    /\ {p \in WF!Positions : DecisionDate(p) = DecisionDate(Min(todo))} = {Min(todo)}
    /\ RowAt(Min(todo)).trade_date < DecisionDate(Min(todo))

Scored(p, label) ==
    [fold_id |-> Len(folds), decision_date |-> DecisionDate(p), label |-> label,
     target_label |-> RowAt(p).target, correct |-> label = RowAt(p).target,
     snapshot_id |-> <<RowAt(p).trade_date, RowAt(p).feature>>,
     config_signature |-> agents_yaml]

\* scenario_invoker decides the next test row of the fold.
Invoke ==
    /\ Invoking /\ Selected /\ Decide[agents_yaml][Feature] # Raises
    /\ fold_rows' = fold_rows \cup {Scored(Min(todo), Decide[agents_yaml][Feature])}
    /\ todo' = todo \ {Min(todo)}
    /\ UNCHANGED <<files, stage, gold_dir, rows, splitter, report, bounds>>

\* Mutant of InvokeFails: the row that cannot be decided is tried again and again.
InvokeRetries ==
    /\ Invoking /\ ~(Selected /\ Decide[agents_yaml][Feature] # Raises)
    /\ UNCHANGED vars

\* The rules do not load or an agent raises: nothing is reported.
InvokeFails ==
    /\ Invoking /\ ~(Selected /\ Decide[agents_yaml][Feature] # Raises)
    /\ End /\ UNCHANGED <<files, bounds>>

\* The dates differ, so the generator returns and never raises.
NoRows ==
    /\ stage = "split" /\ pc = "returned" /\ todo = {} /\ fold_rows = {}
    /\ End /\ UNCHANGED <<files, bounds>>

\* The three reports follow one another; each write truncates the old report
OpenReport ==
    /\ \/ stage = "split" /\ pc = "returned" /\ todo = {} /\ fold_rows # {}
       \/ stage = "next_report"
    /\ reports' = [reports EXCEPT ![report] = Torn]
    /\ stage' = "write_report"
    /\ UNCHANGED <<gold, dataset, agents_yaml, gold_dir, rows, splitter, todo, fold_rows,
                   report, bounds>>

\* and ends with the new one in its place.
CloseReport ==
    /\ stage = "write_report"
    /\ reports' = [reports EXCEPT ![report] =
                       IF report = 1 THEN fold_rows ELSE Metrics(fold_rows)]
    /\ IF report < 3
          THEN /\ stage' = "next_report" /\ report' = report + 1
               /\ UNCHANGED <<gold_dir, rows, splitter, todo, fold_rows>>
          ELSE End
    /\ UNCHANGED <<gold, dataset, agents_yaml, bounds>>

\* A kill, or a write that fails, at any point.
Kill ==
    /\ stage # "idle" /\ kills < MaxKills
    /\ kills' = kills + 1
    /\ End /\ UNCHANGED <<files, edits, commands>>

\* agents.yaml may be edited at any moment, between two invocations too.
EditAgents ==
    /\ edits < MaxEdits
    /\ agents_yaml' \in Configs \ {agents_yaml} /\ edits' = edits + 1
    /\ UNCHANGED <<gold, dataset, reports, stage, gold_dir, rows, splitter, todo,
                   fold_rows, report, commands, kills>>

Start ==
    \/ \E directory \in BOOLEAN : StartBuild(directory)
    \/ \E m \in MinTrainRows, t \in TestFoldSizes, g \in GapDays : StartBacktest(m, t, g)

Run ==
    \/ OpenDataset \/ CloseDataset \/ BuildFails
    \/ Load \/ LoadFails \/ Split \/ Invoke \/ InvokeFails \/ NoRows
    \/ OpenReport \/ CloseReport

Next == Start \/ Run \/ Kill \/ EditAgents

Spec == Init /\ [][Next]_vars
FairSpec == Spec /\ WF_vars(Run)

-----------------------------------------------------------------------------

Stages == {"idle", "read_gold", "write_dataset", "load", "split", "next_report",
           "write_report"}

\* Every variable has its type, those of the generator included.
TypeOK ==
    /\ gold \in NoFile \/ gold \subseteq GoldRow
    /\ dataset \in NoFile \/ dataset \subseteq DatasetRow
    /\ agents_yaml \in Configs
    /\ reports[1] \in NoFile \/ reports[1] \subseteq BacktestRow
    /\ stage \in Stages /\ gold_dir \in BOOLEAN /\ rows \subseteq DatasetRow
    /\ WF!TypeOK
    /\ todo \subseteq WF!Positions /\ fold_rows \subseteq BacktestRow
    /\ report \in 1 .. 3
    /\ edits \in 0 .. MaxEdits /\ commands \in 0 .. MaxCommands /\ kills \in 0 .. MaxKills

\* The truth a decision is scored against is that of its own features, and never of a
\* day after the one the decision is for.  A day dropped for its price is where the two
\* days part: within a dataset built from Gold they are the same if and only if the
\* labelled day was kept.  The last row has no next one, and is dated no later than the
\* day its label is about, which a holiday may put off (target_labels.py:159-178,
\* runner.py:136-147, 170-177).
OwnTruth ==
    \A s \in fold_rows : \E r \in rows :
        LET later == {q \in rows : r.trade_date < q.trade_date} IN
        /\ s.snapshot_id = <<r.trade_date, r.feature>> /\ s.target_label = r.target
        /\ r.trade_date < s.decision_date
        /\ \A q \in later : s.decision_date <= q.trade_date
        /\ r.about # Unknown =>
              IF later # {}
                 THEN /\ r.about <= s.decision_date
                      /\ s.decision_date = r.about <=> \E q \in rows : q.trade_date = r.about
                 ELSE r.about \in Weekdays => s.decision_date <= r.about

TestedDates(k) == {trade_dates[p] : p \in folds[k].test}

\* The reports of a backtest are about the rows the folds tested, each once and in
\* its fold, and its metrics count those rows; unless a process is killed, the
\* three reports in the directory are of one backtest (runner.py:65-100,
\* metrics.py:8-71): every non-skip is up or down, every hit one of the two, and
\* the folds add up to the whole.
ReportsAgree ==
    /\ stage \in {"next_report", "write_report"} =>
          /\ \A k \in 1 .. Len(folds) :
                TestedDates(k) = {r.snapshot_id[1] : r \in {s \in fold_rows : s.fold_id = k}}
          /\ Cardinality(fold_rows) = Cardinality(WF!Tested)
    /\ stage = "idle" /\ kills = 0 /\ reports # [k \in 1 .. 3 |-> Absent] =>
          LET R == reports[1]
              all == reports[2].overall
              part == reports[2].folds
          IN /\ reports[2] = reports[3]
             /\ all.decision_count = Cardinality(R) /\ DOMAIN part = FoldIds(R)
             /\ all.hit_rate[1] = all.precision_up[1] + all.precision_down[1]
             /\ all.hit_rate[2] = all.precision_up[2] + all.precision_down[2]
             /\ all.hit_rate[2] + all.skip_rate[1] = Cardinality(R)
             /\ all.recall_up[2] + all.recall_down[2] + all.flat_rate[1] = Cardinality(R)
             /\ \A rate \in {"hit_rate", "precision_up", "precision_down", "recall_up",
                             "recall_down", "skip_rate", "flat_rate"} :
                   \A i \in 1 .. 2 :
                      all[rate][i] = MapThenSumSet(LAMBDA k : part[k][rate][i], FoldIds(R))

\* A build or a backtest ends, however it is edited under and whatever it reads.
BacktestEnds == (stage # "idle") ~> (stage = "idle")

=============================================================================
