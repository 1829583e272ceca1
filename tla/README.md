# Verification of the KOSPI decision pipeline

TLA+ models of the pipeline in this repository, TLC configurations that check
them on small instances, and TLAPS proofs of the results that matter most for
every instance. Below, `C/` is `core/src/kospi_decision_pipeline_core/` and
`A/` is `apps/kr-kospi/src/kospi_decision_pipeline_app_kr_kospi/`.

## 1. The system

The pipeline decides, for each trading day of the Korean exchange, whether the
KOSPI will go up, down, or whether to skip. It is a set of commands
(`kospi-pipeline ingest`, `build-features`, `run-backtest`, `run`,
`run-scenario`, `backtest`) that run as separate processes and meet only in the
files they leave: no locks, no atomic renames, no database.

| Component | Code | State it keeps | Operations | Talks to |
|---|---|---|---|---|
| Connectors | `A/connectors/` | none | `fetch(dataset, from, to)`: rows, no rows, unsupported, or an exception | remote sources, `FixtureConnector` over CSV files |
| Bronze ingest | `A/ingest/bronze.py`, `manifests.py` | one parquet partition per dataset and day, one manifest per root | fixture ingest (one fetch), live ingest (day by day, skipping what is there) | connectors |
| Silver | `A/transforms/silver.py` | one normalised partition per day | `normalize_dataset`: day by day, first error aborts | reads Bronze |
| Gold | `A/transforms/gold_features.py` | one feature file | `build`: daily inputs with a warm-up window, one row per day | reads Silver |
| Target labels | `A/transforms/target_labels.py` | one dataset file | `build`: next-day direction joined to the features | reads Gold |
| Calendar, leakage guard | `C/calendar.py`, `C/features/` | none | next/previous trading day; refuse rows from the future and label columns | called by Gold, runtime, backtests |
| Rule agents, decision agent | `C/agents/`, `agents.yaml` | the loaded rules | five votes, one weighted decision | called through the runtime |
| Decision runtime | `C/runtime/` | one decision file per date | `run` (every Gold row), `run-scenario` (one date) | reads Gold and `agents.yaml`, drives the agents through the external ABDP `ScenarioRunner` |
| Walk-forward splitter | `C/backtest/walk_forward.py` | the generator's locals | `split`: yields expanding folds | called by the core backtest |
| Core backtest | `C/backtest/runner.py`, `metrics.py`, `reports.py` | three reports | `run`: folds, decisions, metrics, reports | splitter, agents |
| App backtest | `A/backtest/runner.py` | slice file, decisions, reports | `run_backtest`: one runtime call per Gold row | runtime, Bronze closes |

What is hard here, and cannot be seen by running a command once:

- **A process dies between two writes**, or inside one. Every file is written in
  place, so an interrupted write leaves a torn file that the next command reads
  or, worse, takes for a good one.
- **State is read twice.** The existence of a partition is checked for one date
  and written under another; the rules are loaded once and signed later.
- **Reruns.** Each command is meant to be idempotent, over ranges that overlap,
  after failures, in any order.
- **Time.** Nothing a decision or a fold uses may be dated on the day it
  predicts or later, across holidays, ties, gaps and unsorted inputs.
- **Partial failure.** A loop over days or rows fails in the middle, after some
  of its effects are on disk.

What makes each component correct, and so what its module states:

- Bronze: a snapshot is a write-once store; a published manifest is true and
  complete, and stays so; an interruption costs one partition; every run ends.
- Silver and Gold: a feature row is computed from the days of its own window,
  which end on its own date, and from no stale partition; a build fails rather
  than leaving a gap.
- Runtime: no look-ahead; one row set and one rule set per command; a decision
  can be traced to the rules and the row that made it; the two commands agree.
- Splitter: folds never look ahead, keep the embargo, test each row once.
- Backtests: each row is scored once, against the truth of its own day, and a
  set of reports belongs to one backtest.

`PROJECT.json` lists every component with its status, and under `hazards` the
places in the code where these things can go wrong. A few of them have no property: the
model does what the code does there, and neither code nor documents say that it
should not.

## 2. Modules

| Module | Models | Kind |
|---|---|---|
| `SnapshotStore` | what a live snapshot promises: a write-once store with a manifest | abstract specification |
| `BronzeIngest` | `BronzeIngestor` and `run_ingest_command` over the files of one dataset | state machine |
| `WalkForward` | `WalkForwardSplitter.split` as a generator | state machine |
| `DecisionRuntime` | `run_kospi_snapshot`, `run_kospi_scenario` and the files around them | state machine |
| `AppBacktest` | `run_backtest`, which drives `DecisionRuntime` over the closes of a snapshot | state machine, composes `DecisionRuntime` |
| `FeatureLayers` | `build-features`: Silver and Gold over the partitions of Bronze | state machine |
| `CoreBacktest` | `build_backtest_dataset` and `run-backtest`, which iterates over `WalkForward` | state machine, composes `WalkForward` |
| `RuleAgents` | one decision from the inside: the loaders, the five rules, the protocol of the scenario | operators and a state machine |
| `MCBronzeIngest`, `MCWalkForward`, `MCDecisionRuntime`, `MCAppBacktest`, `MCFeatureLayers`, `MCCoreBacktest`, `MCRuleAgents` | instances for TLC | |
| `BronzeIngestProofs`, `WalkForwardProofs`, `DecisionRuntimeProofs`, `AppBacktestProofs`, `FeatureLayersProofs`, `CoreBacktestProofs`, `RuleAgentsProofs` | theorems and their proofs | |
| `Counting` | least numbers, sums and sizes of finite sets: the lemmas of the proofs that count | lemmas |

In each state machine a definition named `... "Mutant of X"` stands before `X`.
It is `X` with a plausible bug; no behaviour of the model uses it. Putting it in
the place of `X` must break the property that `PROJECT.json` pairs it with, and
shows that the property says something about that line of the code.

### BronzeIngest

`disk[r][d]` is the partition of day `d` under root `r` (a snapshot id, or the
root of the fixture runs) and `manifest[r]` the `manifest.json` there. All
other variables are locals of the running process and are forgotten in `End`.

| Action | Code |
|---|---|
| `StartLive`, `StartFixture` | `run_ingest_command`, the first lines of `BronzeIngestor.ingest` |
| `SkipExisting`, `FetchEmpty`, `FetchFails`, `FetchUnsupported`, `FetchRows` | the branches of `_ingest_live_partitions`, bronze.py:275-313 |
| `OpenPartition`, `ClosePartition`, `SerialiseFails`, `PartitionFails` | `_write_partition`, and the entry noted after it |
| `OpenManifest`, `CloseManifest`, `ManifestFails` | `write_manifest` |
| `Crash` | the process is killed |

A write is two steps, since opening the file truncates it. The content of a
partition is one value: what the code compares is its sha256. A source is the
function `RowDate` from the queried day to the date on its rows: the identity
for daily sources, the first of the month for KOSIS (kosis.py:161-164).
Datasets share no file, so one dataset stands for all; commands run one after
another, as the CLI and the CI workflow call them.

### WalkForward

`Init` chooses the argument of `split` and the three parameters; `Begin`, `Yield`,
`Return` and `Raise` are what a resumption of the generator can do. Positions
and rows are kept apart as in the code: `train` holds positions, a fold holds
rows. The stable sort is stated, not computed: the order that sorts the dates
and keeps the rows of one date as they came.

### DecisionRuntime

The files are `agents_yaml`, `features` and `decisions`; `work` is what the running
command holds.

| Action | Code |
|---|---|
| `Start` | `run_kospi_snapshot` / `run_kospi_scenario` up to the load of the rules, service.py:69-77, 87-95 |
| `LoadRows`, `LoadFails` | the row selection and its checks: `_runtime_decision_date`, `_matching_rows`, `_assert_lag_safe_row`, duplicates |
| `Sign`, `SignFails` | `_build_agents`, which reads `agents.yaml` again for its signature |
| `Vote`, `VoteFails` | the two steps of the scenario: five votes, one decision |
| `OpenDecision`, `CloseDecision`, `Finish` | `_persist_decision_result`, and the return |
| `EditAgents`, `BuildFeatures`, `Interrupt` | what goes on around the command |

The rules are the function `Decide` from a config and the feature values to an
outcome, so every statement holds whatever the rules are. The hash in a
decision's `snapshot_id` and `config_signature` is the thing hashed.

### AppBacktest

The module instantiates `DecisionRuntime`, with the feature files a backtest can
write as its `FeatureFiles`, and shares its variables. The steps of an invocation
are the runtime's own actions; around them the backtest keeps its rows (`gold`,
`ahead`), the truth of the current one and what it has scored (`done`). `closes` are
the Bronze partitions of the index, `rows_jsonl` and `summary` the reports.

| Action | Code |
|---|---|
| `Start` | `run_backtest` up to the loop: the Gold rows, sorted by day |
| `TruthFails`, `PassUnknown`, `WriteSlice` | the start of an iteration: `_truth_label` raises, has no answer, or has one; then the slice of the rows so far is written |
| `Invoke`, `InvokeFails`, `Invocation`, `InvocationFails`, `Score` | the call of `run_kospi_scenario`, step by step, its exceptions, and the scored row |
| `NoRows`, `OpenRows`, `CloseRows`, `OpenSummary`, `CloseSummary` | the two reports |
| `Kill`, `EditAgents`, `Ingest`, `SupplyClose` | what goes on around the command |

A close is a price, or the partition is missing (`Absent`), unreadable (`Torn`), or
as the ingest writes it (`Raw`), which has no column `close`: see below. `Ingest`
leaves `Raw` or `Torn`; `SupplyClose` stands for whoever puts the partitions there
that the backtest can use, as its tests do.

### FeatureLayers

`bronze` is the Bronze root the next command is given, `silver` the Silver files,
`gold` the feature file. Silver is read from where it was written: `--silver-dir`
of the one command is `--output-dir` of the other.

| Action | Code |
|---|---|
| `StartSilver`, `StartGold`, `StartAll` | `run_build_features_command`, one per `--layer`; a start whose history begins before the calendar raises and changes nothing |
| `SkipDay`, `NormalizeFails`, `OpenSilver`, `CloseSilver` | an iteration of `normalize_dataset`, silver.py:129-133 |
| `NextDataset`, `SilverDone` | the loop over the required datasets, cli.py:122-132, or the return |
| `BuildRows`, `ReadFails` | the read of every day and the rows, gold_features.py:188-198 |
| `OpenGold`, `CloseGold` | the replacement of `decision_features.parquet` |
| `Kill`, `Ingest` | what goes on around the command |

What a normaliser does with the rows of a partition is the function `Normalize`, with
`Rejected` for any field it refuses. A feature is computed from the days of the
window of its row and nothing else (gold_features.py:281-367), so a Gold row is
modelled by that window. `Undefined` holds of the windows that divide by zero.

### CoreBacktest

The module instantiates `WalkForward` and shares its variables: `Load` gives the
generator its dates, `Split` is its resumption, and the rows it yields are decided
before it is resumed again. The order of the rows is by date, as all of them differ
then, so rows are positions without ties.

| Action | Code |
|---|---|
| `StartBuild`, `OpenDataset`, `CloseDataset`, `BuildFails` | `build_backtest_dataset`, over a file or a directory |
| `StartBacktest`, `Load`, `LoadFails` | `run_backtest_command`, `_load_dataset_rows`, `_build_runtime_rows` |
| `Split`, `Invoke`, `InvokeFails` | the two loops of `BacktestRunner.run` |
| `NoRows`, `OpenReport`, `CloseReport` | the end of it: `rows.jsonl`, `metrics.json`, `metrics.csv` |
| `Kill`, `EditAgents` | what goes on around the command |

An invocation of the runtime is one step here: its decisions go to a temporary
directory, and `DecisionRuntime` is about its steps. A ratio is kept as its two counts,
so that the reports can be compared without rounding. `about` is not in the file: it
records which day the label of a row built from Gold tells of, so that `OwnTruth` can ask.

### RuleAgents

`DecisionRuntime` takes the outcome of a decision as a function `Decide` of config and
features, and `Voteless` for the features an agent raises on. `RuleAgents` is that
function from the inside.

| Action | Code |
|---|---|
| `Load`, `LoadFails` | `load_scenario_config`, `load_agents_config`, with every check they make |
| `Build`, `BuildFails` | `_build_agents`, and what the constructors check again |
| `Ask`, `AskFails` | one adapter asked in the current phase, in the order of service.py:184-222 |
| `ResolveVotes`, `ResolveDecision` | `KospiScenarioResolver.resolve` |

Numbers are scaled to integers and added exactly; `NaN` is a number every comparison
with which is false. The scores of the votes are written and never read: the
decision is made of weights and signs (decision.py:31), and so it is here.
The `agents` of a scenario are checked and not used: all six are always built
(service.py:178-223).

## 3. What the runs check

| Run | Instance | Result |
|---|---|---|
| `bronze_ingest` | 2 days, one snapshot and the fixtures, 2 contents, 2 kills, daily source | passes, about 540 000 states |
| `bronze_resume` | the same, one kill | `ResumeIsSafe` violated |
| `bronze_monthly` | the same, both days of one month | `NoRewrite` violated |
| `bronze_failures` | the same, no kill | `FailuresAreLoud` violated |
| `walk_forward` | 0, 2 or 5 rows dated 1..4 in any order with any ties; train 1-2, fold 1-2, gap 0-1 | passes, about 32 000 states |
| `decision_runtime` | 4 dates, a holiday on date 3, five feature files, 2 configs, one edit, one fault | passes, about 254 000 states |
| `traceability` | the same without faults | `Traceable` violated |
| `app_backtest` | 5 dates, a holiday on date 3, three Gold files, two sets of closes, 2 configs, one edit, one fault, one kill | passes, about 152 000 states |
| `backtest_ingested` | the same without kill and fault | `IngestedIsUsable` violated |
| `feature_layers` | 5 dates, a holiday on date 3, 2 datasets, a warm-up of 2 days, 5 ranges, 7 Bronze trees, 2 commands, one change of Bronze, one kill | passes, about 186 000 states |
| `core_backtest` | 9 dates, a holiday on date 3 and a weekend on 4-5, 5 Gold files, 3 datasets made by hand, 8 splitters, 2 configs, 2 commands, one edit, one kill | passes, about 94 000 states |
| `rule_agents` | 15 configurations, 5 scenario files, features -2..2, NaN, text and null | passes, about 63 600 states |

**bronze_ingest.** `ManifestMatchesDisk`: a published manifest names each
partition with the hash it has on disk, through every later run. `ManifestAccounts`:
it lists each requested day once. `CrashLosesOnePartition` and `FixtureRunRepairs`:
what an interruption costs, and that the fixture path repairs it. `StoreSpec`: the
snapshots implement `SnapshotStore`. `RunEnds`: a started run ends. Two days are
needed for ranges that overlap without being equal, two contents for a rewrite
to be seen, two kills for a kill of the run that resumes a killed one; a third
day or a second snapshot adds only copies, since no action relates two
snapshots or more than two days.

**walk_forward.** `NoLookAhead`, `TestedOnce`, `Embargo`, `Expanding`: the folds.
`AllRowsTested`: what is left over is what the gap embargoes. `RaisesOnlyOnTies`: with
distinct dates a backtest is not stopped half-way. `Terminates`. Five rows give
up to four folds, and a last fold that is short; 0 and 2 rows give the early
return. Here deadlock is not checked, as a generator that has returned stays so.

**decision_runtime.** `NoLookAhead`; `DoneRowsKept`: a row the command is done with
keeps its decision; `OneRuleSet`: one command never mixes rules, though
`agents.yaml` changes; `InterruptLosesOne`; `CommandsAgree`: `run` goes from a row to its
date and `run-scenario` from a date to its row, and they meet. The five
feature files are what Gold builds, a row an agent cannot vote on, two rows
with the same decision date (a holiday between them), a row of its own day, and
what a backtest writes: every outcome of the load is among them.

**app_backtest.** `OwnDecision`: a scored row holds the decision made on the features
of its own day for the trading day after it, and no later invocation into the
same directory has replaced that decision. `TruthHolds`: the truths of a written report
stay those of the snapshot, through every later ingest, edit and kill. `NoHole`:
a row passed over for want of a truth is never followed by a scored row of the
next trading day. `ReportsAgree`: the two reports on disk are of one backtest, be
it followed by failing ones; a kill between the two writes is the only
exception. Deadlock is checked: once the kill and the edit are spent, a running backtest,
or an invocation in it, without a step would be one. The closes have a day
without one, a price of zero, and a last day beyond the calendar; the Gold files
a row without votes and a gap at the holiday: every branch of the loop is taken.

**feature_layers.** `RowHistory`: whatever is absent, torn or refused, a Gold row has
the whole window of consecutive trading days that ends on its own. `FreshGold`: a file
built by `--layer all` holds what the given Bronze says for every day of every
window, also those before the requested range. `GoldComplete`: a build that succeeds
has a row for each requested trading day, unless a day of its history before the
range was absent. `KillLosesOne`: a build that fails by itself, on a torn or refused
partition, a missing day or a quotient by zero, leaves no torn file and the older Gold
file as it was; a kill spoils one file of the two layers at most. `BuildEnds`. A warm-up of two gives windows of three days, the
least that can have a hole in the middle; five dates give two such windows and a
day without history. The second command meets what the first one, or its kill,
left; the trees differ by whole content, by an absent day in either dataset, by
torn, refused and doubled partitions and by a partition on the holiday.

**core_backtest.** `OwnTruth`: each decision is scored against the label of the row it was
decided on, and no row of the dataset lies between its features and its date. In a
dataset built from Gold the label tells of the next Gold row, while the decision is
dated by the next row that was kept. So the label tells of no later day than the
decision, and of the same day exactly when the row of that day was kept: a row left out
for its closes is where they part. The last row has no next one; it is dated by the next
weekday, no later than the weekday its label tells of, and earlier before a holiday.
`ReportsAgree`: the rows reported are
those the folds tested, the counts of the metrics add up over labels, truths and
folds, and the three files are of one backtest unless one was killed.
`BacktestEnds`. Two commands are a build and a backtest, a build over its own
output, or two backtests over the same reports. The Gold files have a close
of zero and a null one, tied dates, and a single row; the datasets made by hand a
tie and a label that is none. Rows next to the bad closes and last rows before the
holiday are scored, so that both cases of `OwnTruth` occur.

**rule_agents.** `Monotone`: had one feature of the decided row been more bullish, the
decision would be no lower, through five rules, their order of branches and the
weighted sum; it holds even for thresholds that overlap, and not for negative
weights, which the loader accepts (config.py:146-152) and the property excludes.
`HeavierSideDecides`: as long as the thresholds leave zero between them, the side that a
decision takes has more weight than the other, also where a threshold is zero and the
score of a tie, or of a day when every agent abstains, just reaches it.
`AcceptedIsDecided`: a loaded configuration of all five agents decides every row
of numbers, and an agent without a finite value abstains; a configuration of fewer agents, which
the loader accepts too, is given up before any agent votes. The rows are every
combination of strengths of the five agents, every combination of features of one
agent while the rest leave the decision to it, and rows with one odd value.
Here deadlock is not checked: a decision, or a failure, is the end.

### Where the code and its documents disagree

- `bronze_resume`: operator.md:78 calls a rerun with the same snapshot id a safe
  resume. A kill while a partition is written leaves a torn parquet, which the
  rerun finds with `is_file()`, skips, and lists under `skipped_dates`.
- `bronze_monthly`: README.md:121 promises that written partitions are never
  rewritten. The check is for the queried day, the write for the date of the
  row: every day of a month rewrites the KOSIS partition of the first.
- `bronze_failures`: README.md:240 calls upstream failures loud. A live ingest
  whose every fetch fails publishes its manifest and exits with 0.
- `backtest_ingested`: the tests of the backtest write Bronze partitions with a
  column `close` (test_backtest_cli.py:55), which runner.py:224 reads. The ingest
  writes the rows of the connector as they are, and its column is `close_price`
  (krx.py:20). A backtest over an ingested snapshot therefore raises at its first
  row. The other properties of the backtest are about snapshots that do have a
  close.
- `traceability`: spec.md:793 wants outputs traceable to their config. The rules
  are loaded before the signature is computed from the file again, so an edit in
  between is signed though it was not used.

Met while modelling, without a run of their own:

- README.md:128 and 201 build features from 2024-01-01. The history of the first day
  begins 271 trading days earlier, in a year the calendar does not support:
  `gold_lookback_start` raises. In `FeatureLayers` such a start is not enabled.
- spec.md:120 has a branch with a null feature count as not matched. Only the
  volatility agent does so; the others raise (adapters.py:223-232, flow.py:187-190)
  and the decision fails: `AskFails`.
- README.md:259 says that `run` decides the latest Gold row; it decides and persists
  each of them (service.py:100-110). README.md:263 calls `backtest` a stub.
- `build_backtest_dataset` over a directory reads the dataset it wrote there before
  and refuses its label columns (target_labels.py:117-122): `GoldReadable`.
- The decision date of the last row of a backtest is the next weekday
  (runner.py:180-184), where the runtime would take the next trading day.
- A configuration that names only some of the agents loads, and the command dies
  with a `KeyError` when it builds the others (service.py:187).

### Fairness

`FairSpec` in the ingest, the feature layers and the core backtest is weak fairness of
`Run`, the steps of the process that is running, and in `RuleAgents`, where nothing else
happens, of `Next`: a sequential Python process goes on as long as it can. Nobody has to
start a command, kill it or edit a file. In `feature_layers` and `core_backtest` the
commands and kills are bounded, so that the system stops with no command running;
deadlock is not checked there, and `BuildEnds` and `BacktestEnds` say that it stops
nowhere else. `DecisionRuntime` and `AppBacktest` need no fairness: their commands take a
bounded number of steps (proved, see "Counting down"), and the deadlock check of
`app_backtest` finds no command, invocations of the runtime included, without a step to
take. In the splitter it is
weak fairness of the resumption: the backtest iterates to the end.

## 4. What is proved

The theorems hold for every value of the constants that satisfies the `ASSUME`s of
the module, any number of days, rows, snapshots, kills and edits included.

**BronzeIngestProofs.** `TypeCorrect`, `LosesOnePartition` and `FixturesRepair` need no
more than the assumptions. The four others assume `Daily`, which the monthly run shows to be necessary. Their
invariant `IInv` adds to the types: before a partition is written its day is
the only pending one and nothing is there (`_ingest_live_partitions` checked it,
and no other step can write under that snapshot meanwhile); each entry of the
running command agrees with the disk; the three lists divide the days behind
`current`; each published manifest agrees with the disk. `ManifestMatchesDisk` alone is
not inductive: that a manifest stays true rests on the check made several steps
before the write. `ImplementsStore` maps each step to a write, a loss, a
publication or a stutter of `SnapshotStore`.

`LosesOnePartition` counts: by `LostInv` the torn partitions nobody is writing are finite,
though there may be infinitely many snapshots, and no more than the kills, since
each step but a kill loses none and a kill loses the one in flight. `FixturesRepair`
rests on `RepairInv`: a day of the range is whole or still pending, and a day the
fixtures have nothing for has no file, which no ingest of another day puts there.

**WalkForwardProofs.** `NoLookAhead` is not inductive either: it rests on `train`
being the positions `0 .. last` or an initial part of the sorted order
(`Window`), on the order being sorted (`Ordered`), and on every fold being made of
positions below the current window (`TakenUp`, `Apart`, `Carried`). From them
follow `NeverLooksAhead`, `TestsRowsOnce`, `KeepsEmbargo`, `WindowExpands` and `RaisesForTies`,
for any dates, lengths and parameters. `TestsAllRows` counts what is left over: behind
the window lie the first training set, the tested rows and at most one gap for
each fold so far (`LeftBehind`), and the folds are fewer than the rows (`FewFolds`).

**DecisionRuntimeProofs.** `IInv` says what the loaded rows are (`PlanInv`: lag safe,
with one date each, no two with the same), what the signature and the outcome
in hand are (`DraftInv`), and that what is done is on disk. `TraceableWithoutEdits`
assumes that `agents.yaml` is not edited while a command runs: then every
decision is traceable, so that edit is the only cause of the divergence the
`traceability` run shows. `LosesOneDecision` counts the torn files as above.
`CommandsDecideAlike` needs no invariant beyond the types of the files: on the trading
days of any calendar the next day of the previous one is where one began, so that
the row `run` takes to a date is the one `run-scenario` takes from it.

**AppBacktestProofs.** `UsesRuntime` is the composition: every step of the backtest is a
step of `DecisionRuntime` or leaves it alone, so that the runtime's invariants,
proved in `DecisionRuntimeProofs`, hold inside the backtest, and `NeverLooksAhead` and
`KeepsTheRuntimesPromises` are inherited without a new induction. The invariant `BInv` adds to them: closes are
there on trading days only, and what was read of them still is (`DaysInv`,
`LoopInv`: partitions come, and none goes); the rows scored are of the days the
loop has left behind; the invocation that runs is the one for the current row
(`CallInv`). `OwnDecision` is inductive only with these: that a later invocation does
not replace a scored decision rests on the next trading days of two trading
days being different, hence on every scored day having had a close.
`TruthStays`, `LeavesNoHole` and `ReportsBelongTogether` follow; the last assumes
that `Absent` and `Torn` are not sets of rows.

**FeatureLayersProofs.** For any calendar, number of datasets, warm-up and Bronze
roots: `TypeCorrect`; `RowsHaveHistory`, where the segments of the days that were read
give a row only to a day whose `Warmup` predecessors all stand in its segment
(`SegmentIsWhole`, `RowFacts`); `AllIsFresh`, whose invariant `FreshInv` follows the two
loops: the days of the history that the loops have passed say in Silver what the
given Bronze says, and no write of a later day or dataset undoes it;
`BuildsAreComplete`, where a requested day without a row is excused by a hole in its
history before the range (`CompleteInv`). `KillsCostOne` counts the torn files nobody is
writing, Silver partitions and the Gold file together, against the kills, and needs that
`Torn` is no set of rows. The assumptions are that `MaxDate`,
`DatasetCount` and `Warmup` are positive numbers, and what the constants range over.

**CoreBacktestProofs.** The splitter in the backtest is an instance of `WalkForward`, and
its theorems are used, not proved again: `Proved == INSTANCE WalkForwardProofs`, and each
step of the backtest is a resumption of the splitter, a fresh start, or leaves it
alone (`UsesSplitter`). `IInv` relates the rest to it: what is in memory is a readable
dataset with the dates of its rows in order (`RowsInv`), every scored row is one of a
tested position, with its own label and date (`ScoresInv`), each tested position is
scored once (`OnceInv`, `EachInv`) or still waits, and the reports behind the one being
written are made of those rows (`ReportsInv`). `ScoresOwnTruth` then rests on the
ranks of different dates: the row behind a position has the next larger date. That the
label and the decision part only over a row that was left out follows from the
next Gold date lying before or on the date of every later row that was kept.
`ReportsBelongTogether` needs sums: that the counts of the folds add up to the overall
ones is `PartitionSize` and the sum lemmas of `Counting`. `RowsAssumption` only bounds
the constant `MaxRows` from below by the datasets there are; `MaxRows = MaxDate`
always satisfies it. The other assumptions say that hand-made datasets name no
day they tell of, and that each parameter of the splitter has a value.

**RuleAgentsProofs.** `NewsIsMonotone` is the theorem about the rules: for all thresholds,
also overlapping ones, all features, `NaN` and null among them, and all weights that
are not negative, one more bullish feature never lowers the decision. It goes rule by
rule (`RulesFollow`), then through the weighted sum, whose value does not depend on
the order of the votes (`SumMonotone` in `Counting`). `HeavierSideWins` splits the same
sum: the score is the weight of the votes for a rise less that of the votes for a fall
(`SumOfSides`, `ScoreOfSides`), so that a score beyond a threshold, with zero between
the two, has the sign of the heavier side. `AcceptedNeverFails` is what is
safety in `AcceptedIsDecided`: after the load only an agent without weights or a
feature that is no number stops a decision, an agent without a finite value
abstains, and a configuration of fewer agents never gets to a vote. `DecidesByRowAlone`: whatever came before, the decision is one function of
configuration and row, and a failure is one of an agent that raises on that row.
This is what `DecisionRuntime`, `AppBacktest` and `CoreBacktest` assume with their
constants `Decide` and `Voteless`.

**Counting.** The induction over the size of a set is by a least counterexample (the
well-foundedness of finite sets under inclusion), as the induction theorems of the
library take an operator and no prover here instantiates one. `Sum` is `MapThenSumSet`
of a function: its partial sums exist as a function on the subsets, and agree
whatever order the elements leave in.

**Counting down.** Each of these modules has a measure, a natural number that is 0 when
nothing runs (`StepsLeft`; `ResumptionsLeft` for the splitter): every step of the running
command lowers it and nothing but the next command raises it, no kill, edit or ingest. So no
loop over days, datasets, rows or folds is endless, whatever is in the files, and the
bound of the measure bounds the command:

| Module | at most | why it falls |
|---|---|---|
| BronzeIngest | 3 MaxDay + 2 steps | a day is fetched, then written or recorded; a live run has one pending partition (`Busy`) |
| WalkForward | n + 1 resumptions | each fold has a test row |
| DecisionRuntime | 4 MaxDate + 2 steps | the rows are of different days (`PlanInv`) |
| AppBacktest | MaxDate (4 MaxDate + 6) + 5 steps | a row with a whole invocation, whose count-down is the runtime's theorem |
| CoreBacktest | 2 MaxRows + 8 steps | the splitter's theorem, and no row is decided twice (`ScoresFit`) |
| FeatureLayers | DatasetCount (2 MaxDate + 1) + 4 steps | the loop over the days in the loop over the datasets |
| RuleAgents | 16 steps | two phases of six agents |

It is the part of the liveness properties that is safety. What is left of them is that
the running command always has a step (`ENABLED`) and that it takes it (fairness).
`ResolverNeverRaises` supplies the one place where the first is not plain: at a
resolution `RuleAgents` has no step for the errors of `_resolve_vote_phase` and
`_resolve_decide_phase`, and the theorem shows that none is missing.

Every type invariant, safety invariant and action property of a passing run is
the statement of a theorem. Only model-checked are the liveness properties
(`RunEnds` of the ingest, `Terminates`, `BuildEnds`, `BacktestEnds` of the core backtest,
`AcceptedIsDecided`), since neither leads-to
under fairness nor `ENABLED` is in the reach of the provers.

## 5. Plan

The modules, in the order they were planned, each with its runs and theorems:
`SnapshotStore` and `BronzeIngest`, `WalkForward`, `DecisionRuntime`, `AppBacktest`,
`FeatureLayers`, `CoreBacktest`, `RuleAgents`, and the counting properties: done.

Left to prove: nothing that a passing run checks but its liveness properties. Left to
model: in `CoreBacktest` the Gold file is any file but stays the same in a behaviour, so
that one rebuilt between a dataset and its backtest is still to come (`AppBacktest`
takes any Gold rows anew for each backtest).

## 6. What is not modelled

Parsing of payloads and of YAML text, wording, logging, argument parsing; the
formulas of the features (a row stands for the window they are computed from) and
the rounding of floats; serialisation, which the pipeline only writes; the client
factory and the registry (wiring); the holiday table (any set of trading days stands
for it); the remote sources and the ABDP library beyond what the code makes of
their answers; `normalize_ingest_result` and the guards of `leakage_guard.py` that no
command calls; the typing-policy script and the CI workflows. Commands running at
the same time on the same files are not modelled: neither the CLI nor the
workflow starts two.
