--------------------------- MODULE FeatureLayers ---------------------------
(***************************************************************************)
(* build-features: Bronze to Silver, Silver to Gold, or both in one        *)
(* command (apps/kr-kospi/.../cli.py, transforms/silver.py,                *)
(* transforms/gold_features.py).                                           *)
(*                                                                         *)
(* Silver holds one file per dataset and day, normalised from the Bronze   *)
(* partition of that day; a day without a partition is passed over, so an  *)
(* older Silver file of that day stays.  Gold is a single file, replaced   *)
(* in place: one row for each day that has a whole window of Warmup        *)
(* trading days before it.  A command stops at the first file it cannot    *)
(* use and leaves behind what it has written so far.                       *)
(*                                                                         *)
(* A feature is a function of the window of its row, so a row is modelled  *)
(* by that window: the Silver rows of each of its days.  Nothing writes    *)
(* Silver while a command reads it, so reading it is one step.             *)
(***************************************************************************)
EXTENDS Integers, FiniteSets

CONSTANTS
    MaxDate,       \* the supported calendar is 1 .. MaxDate
    TradingDays,   \* its trading days
    DatasetCount,  \* REQUIRED_SILVER_DATASETS, in the order they are read
    Warmup,        \* gold_warmup_trading_days(): 271 in the code
    BronzeRows,    \* contents of a whole Bronze partition
    SilverRows,    \* contents of a whole Silver file
    Rejected,      \* what the normaliser of a dataset says of rows it refuses
    Normalize,     \* the Silver rows of Bronze rows, or Rejected
    Usable,        \* the Silver rows Gold accepts: one of that day, one of 3Y
    Undefined(_),  \* a window with a quotient by zero
    Ranges,        \* the requested ranges, <<from, to>>; a range may be empty
    BronzeTrees,   \* the Bronze roots a command may be given
    Absent, Torn,  \* no file; a file whose write did not end
    MaxIngests,    \* bound: changes of Bronze in a behaviour
    MaxCommands,   \* bound: commands in a behaviour
    MaxKills       \* bound: kills and failed writes in a behaviour

Dates == 1 .. MaxDate
Datasets == 1 .. DatasetCount
NoFile == {Absent, Torn}

\* A day's input of Gold, and a Gold row with the window it is computed from.
DailyInputs == [Datasets -> Usable]
GoldRows == [as_of_date : Dates, window : UNION {[S -> DailyInputs] : S \in SUBSET Dates}]

ASSUME LayersAssumption ==
    /\ MaxDate \in Nat \ {0} /\ DatasetCount \in Nat \ {0} /\ Warmup \in Nat \ {0}
    /\ TradingDays \subseteq Dates
    /\ Normalize \in [BronzeRows -> SilverRows \cup {Rejected}]
    /\ Usable \subseteq SilverRows
    /\ Ranges \subseteq Dates \X Dates
    /\ Absent # Torn /\ Rejected \notin SilverRows
    /\ NoFile \cap (BronzeRows \cup SilverRows) = {}
    /\ BronzeTrees \subseteq [Datasets -> [Dates -> BronzeRows \cup NoFile]]
    /\ MaxIngests \in Nat /\ MaxCommands \in Nat /\ MaxKills \in Nat

VARIABLES
    bronze,      \* bronze[k][d] is the partition of dataset k and day d
    silver,      \* silver[k][d] likewise
    gold,        \* decision_features.parquet: a set of rows, each its own day
    stage,       \* where the command is
    layer,       \* --layer
    dataset,     \* the dataset being normalised
    start, end,  \* --from, --to
    current,     \* the day the normaliser looks at
    gold_rows,   \* the rows of the build, computed and not yet written
    ingests, commands, kills

files == <<bronze, silver, gold>>
request == <<layer, start, end>>
bounds == <<ingests, commands, kills>>
vars == <<files, stage, request, dataset, current, gold_rows, bounds>>

Stages == {"idle", "normalize", "write_silver", "read", "build", "write_gold"}

\* Every variable has its type.
TypeOK ==
    /\ bronze \in [Datasets -> [Dates -> BronzeRows \cup NoFile]]
    /\ silver \in [Datasets -> [Dates -> SilverRows \cup NoFile]]
    /\ gold \in NoFile \/ gold \subseteq GoldRows
    /\ stage \in Stages /\ layer \in {"silver", "gold", "all"}
    /\ dataset \in 1 .. DatasetCount + 1 /\ current \in 1 .. MaxDate + 1
    /\ start \in Dates /\ end \in Dates
    /\ gold_rows \subseteq GoldRows
    /\ ingests \in 0 .. MaxIngests /\ commands \in 0 .. MaxCommands
    /\ kills \in 0 .. MaxKills

Init ==
    /\ bronze \in BronzeTrees
    /\ silver = [k \in Datasets |-> [d \in Dates |-> Absent]]
    /\ gold = Absent
    /\ stage = "idle" /\ layer = "gold"
    /\ dataset = 1 /\ current = 1 /\ start = 1 /\ end = 1
    /\ gold_rows = {}
    /\ ingests = 0 /\ commands = 0 /\ kills = 0

-----------------------------------------------------------------------------
(* The history Gold needs. *)

\* Mutant of LookbackDays: one trading day too few.
LookbackShort(s) ==
    {l \in TradingDays : l < s /\ Cardinality(TradingDays \cap l .. s - 1) = Warmup - 1}

\* gold_lookback_start: the Warmup-th trading day before s.  There is none
\* when the walk leaves the supported calendar, which raises.
LookbackDays(s) ==
    {l \in TradingDays : l < s /\ Cardinality(TradingDays \cap l .. s - 1) = Warmup}

Lookback(s) == CHOOSE l \in LookbackDays(s) : TRUE

\* The days whose inputs build() lists, and its index-arithmetic segment of d.
ReadDays == TradingDays \cap Lookback(start) .. end
Segment(days, d) == {w \in days : w <= d /\ Cardinality(days \cap w .. d) <= Warmup + 1}

\* _load_daily_inputs reads the datasets in order; the first it cannot use decides.
Whole(d) == \A k \in Datasets : silver[k][d] \in Usable
Missing(d) ==
    \E k \in Datasets :
        silver[k][d] = Absent /\ \A j \in 1 .. k - 1 : silver[j][d] \in Usable

\* A day missing before the requested range is None in the list.
Excused(d) == d < start /\ Missing(d)

WindowOf(S) == [w \in S |-> [k \in Datasets |-> silver[k][w]]]

\* Mutant of Segments: a missing day is left out of the list, not None in it.
SegmentsOfWhole ==
    LET days == {d \in ReadDays : Whole(d)} IN
    {S \in {Segment(days, d) : d \in days} : Cardinality(S) = Warmup + 1}

\* The segments _build_rows computes a row from.
Segments ==
    {S \in {Segment(ReadDays, d) : d \in ReadDays} :
        Cardinality(S) = Warmup + 1 /\ \A w \in S : Whole(w)}

Last(S) == CHOOSE d \in S : \A w \in S : w <= d
RowOf(S) == [as_of_date |-> Last(S), window |-> WindowOf(S)]

-----------------------------------------------------------------------------
(* The command. *)

\* The process is gone, well or badly, with all it had in memory; files stay.
End ==
    /\ stage' = "idle" /\ layer' = "gold"
    /\ dataset' = 1 /\ current' = 1 /\ start' = 1 /\ end' = 1
    /\ gold_rows' = {}

Begin(next, l, k, s, e) ==
    /\ stage = "idle" /\ commands < MaxCommands
    /\ stage' = next /\ layer' = l /\ dataset' = k /\ start' = s /\ end' = e
    /\ commands' = commands + 1
    /\ UNCHANGED <<files, gold_rows, ingests, kills>>

StartSilver(k, s, e) == Begin("normalize", "silver", k, s, e) /\ current' = s

StartGold(s, e) == LookbackDays(s) # {} /\ Begin("read", "gold", 1, s, e) /\ UNCHANGED current

\* Mutant of StartAll: Silver is brought up to date in the requested range only.
StartAllRequested(s, e) ==
    LookbackDays(s) # {} /\ Begin("normalize", "all", 1, s, e) /\ current' = s

\* --layer all normalises from the first day of the history, then builds.
StartAll(s, e) ==
    LookbackDays(s) # {} /\ Begin("normalize", "all", 1, s, e) /\ current' = Lookback(s)

Normalizing == stage = "normalize" /\ current <= end
Partition == bronze[dataset][current]

\* is_file() fails: nothing is written, and nothing is removed.
SkipDay ==
    /\ Normalizing /\ Partition = Absent
    /\ current' = current + 1
    /\ UNCHANGED <<files, stage, request, dataset, gold_rows, bounds>>

\* Mutant of Normalizable: what a field parser says of a row is not looked at.
NormalizableUnchecked == Partition \in BronzeRows /\ current \in TradingDays

\* Every row parses, is of the partition's day, and the day is a trading day.
Normalizable ==
    /\ Partition \in BronzeRows /\ Normalize[Partition] \in SilverRows
    /\ current \in TradingDays

\* Mutant of NormalizeFails: the process hangs on a partition it cannot read.
NormalizeWaits ==
    /\ Normalizing /\ Partition \notin {Absent, Torn} /\ ~Normalizable
    /\ End /\ UNCHANGED <<files, bounds>>

\* The read, the parsing of a field or the calendar raises.
NormalizeFails ==
    /\ Normalizing /\ Partition # Absent /\ ~Normalizable
    /\ End /\ UNCHANGED <<files, bounds>>

\* write_table truncates the Silver file of the day,
OpenSilver ==
    /\ Normalizing /\ Normalizable
    /\ silver' = [silver EXCEPT ![dataset][current] = Torn]
    /\ stage' = "write_silver"
    /\ UNCHANGED <<bronze, gold, request, dataset, current, gold_rows, bounds>>

\* and ends with the rows in it.
CloseSilver ==
    /\ stage = "write_silver"
    /\ silver' = [silver EXCEPT ![dataset][current] = Normalize[Partition]]
    /\ stage' = "normalize" /\ current' = current + 1
    /\ UNCHANGED <<bronze, gold, request, dataset, gold_rows, bounds>>

\* The dataset is done: the next one, then Gold, or the end of the command.
NextDataset ==
    /\ stage = "normalize" /\ current > end /\ layer = "all"
    /\ dataset' = dataset + 1
    /\ IF dataset < DatasetCount
          THEN stage' = "normalize" /\ current' = Lookback(start)
          ELSE stage' = "read" /\ current' = 1
    /\ UNCHANGED <<files, request, gold_rows, bounds>>

SilverDone ==
    /\ stage = "normalize" /\ current > end /\ layer = "silver"
    /\ End /\ UNCHANGED <<files, bounds>>

Readable == \A d \in ReadDays : Whole(d) \/ Excused(d)

\* _load_daily_inputs for every day, then _build_rows.
BuildRows ==
    /\ stage = "read" /\ Readable
    /\ \A S \in Segments : ~Undefined(WindowOf(S))
    /\ gold_rows' = {RowOf(S) : S \in Segments}
    /\ stage' = "build"
    /\ UNCHANGED <<files, request, dataset, current, bounds>>

\* Mutant of ReadFails: rows are written as they are computed, up to the quotient by zero.
ReadFailsOpen ==
    /\ stage = "read"
    /\ ~Readable \/ \E S \in Segments : Undefined(WindowOf(S))
    /\ gold' = IF Readable THEN Torn ELSE gold
    /\ End /\ UNCHANGED <<bronze, silver, bounds>>

\* A required day is missing, a file is torn or refused, a quotient undefined.
ReadFails ==
    /\ stage = "read"
    /\ ~Readable \/ \E S \in Segments : Undefined(WindowOf(S))
    /\ End /\ UNCHANGED <<files, bounds>>

OpenGold ==
    /\ stage = "build"
    /\ gold' = Torn /\ stage' = "write_gold"
    /\ UNCHANGED <<bronze, silver, request, dataset, current, gold_rows, bounds>>

\* Also when there are no rows: a good file is replaced by one without rows.
CloseGold ==
    /\ stage = "write_gold"
    /\ gold' = gold_rows
    /\ End /\ UNCHANGED <<bronze, silver, bounds>>

\* A kill, or a write that fails, at any point.
Kill ==
    /\ stage # "idle" /\ kills < MaxKills
    /\ kills' = kills + 1
    /\ End /\ UNCHANGED <<files, ingests, commands>>

\* Between commands, partitions are ingested or another root is chosen.
Ingest ==
    /\ stage = "idle" /\ ingests < MaxIngests
    /\ bronze' \in BronzeTrees /\ bronze' # bronze
    /\ ingests' = ingests + 1
    /\ UNCHANGED <<silver, gold, stage, request, dataset, current, gold_rows, commands, kills>>

Start ==
    \E r \in Ranges :
        \/ \E k \in Datasets : StartSilver(k, r[1], r[2])
        \/ StartGold(r[1], r[2])
        \/ StartAll(r[1], r[2])

Run ==
    \/ SkipDay \/ NormalizeFails \/ OpenSilver \/ CloseSilver \/ NextDataset
    \/ SilverDone \/ BuildRows \/ ReadFails \/ OpenGold \/ CloseGold

Next == Start \/ Run \/ Kill \/ Ingest

Spec == Init /\ [][Next]_vars
FairSpec == Spec /\ WF_vars(Run)

-----------------------------------------------------------------------------

\* Every Gold row is computed from exactly Warmup + 1 consecutive trading days
\* that end on its own, none left out, whatever was missing, refused or torn in
\* between (_build_rows and gold_lookback_start, gold_features.py:158-165, 274-280).
RowHistory ==
    gold \notin NoFile =>
        \A r \in gold :
            LET days == DOMAIN r.window IN
            /\ r.as_of_date \in days /\ days \subseteq TradingDays
            /\ Cardinality(days) = Warmup + 1
            /\ \A d \in days, t \in TradingDays : d <= t /\ t <= r.as_of_date => t \in days
            /\ \A d \in days : d <= r.as_of_date

\* A Gold file built by --layer all holds, in the whole history of every row,
\* the Bronze rows the command was given: nothing of an earlier Bronze is left
\* where there is a partition now (silver_start in run_build_features_command).
FreshGold ==
    [][CloseGold /\ layer = "all" =>
        \A r \in gold' : \A d \in DOMAIN r.window : \A k \in Datasets :
            bronze[k][d] # Absent =>
                /\ bronze[k][d] \in BronzeRows
                /\ r.window[d][k] = Normalize[bronze[k][d]]]_vars

\* A build that succeeds has a row for each requested trading day, unless a day
\* of its history before the requested range is missing; the days it lists
\* before the range give the first row its whole window (gold_features.py:188-197).
GoldComplete ==
    [][CloseGold =>
        \A d \in TradingDays \cap start .. end :
            \/ \E r \in gold' : r.as_of_date = d
            \/ \E w \in TradingDays :
                  /\ w < start /\ Cardinality(TradingDays \cap w .. d) <= Warmup + 1
                  /\ \E k \in Datasets : silver[k][w] = Absent]_vars

\* The files that are torn and that nobody is writing.
LostSilver ==
    {p \in Datasets \X Dates :
        silver[p[1]][p[2]] = Torn /\ ~(stage = "write_silver" /\ p = <<dataset, current>>)}
LostGold == IF gold = Torn /\ stage # "write_gold" THEN 1 ELSE 0

\* A build that fails by itself, on a torn or refused partition, a missing day or a
\* division by zero, leaves no torn file behind, in Silver or in place of the older Gold:
\* all it reads and computes comes before the write.  Only a kill does, and each spoils
\* one file of the two layers at most (silver.py:88-110, gold_features.py:185-204, 345).
KillLosesOne == Cardinality(LostSilver) + LostGold <= kills

\* Every build-features command ends, whatever it finds.
BuildEnds == (stage # "idle") ~> (stage = "idle")

=============================================================================
