----------------------------- MODULE AppBacktest -----------------------------
(***************************************************************************)
(* The command backtest: run_backtest of apps/kr-kospi/.../backtest/       *)
(* runner.py, which composes the decision runtime.                         *)
(*                                                                         *)
(* For each Gold row in the order of its day it reads the truth from the   *)
(* closes of the snapshot, writes the rows up to that day into a feature   *)
(* file of its own, runs run_kospi_scenario on it for the next trading     *)
(* day, and scores the decision.  Two reports follow.  The invocation is   *)
(* the runtime of module DecisionRuntime, step by step: agents.yaml may    *)
(* be edited at any moment, and the process be killed.  Partitions come    *)
(* into the snapshot between backtests, as commands follow one another.    *)
(*                                                                         *)
(* A partition as the ingest writes it has a column close_price, and no    *)
(* column close (krx.py:20, bronze.py:374-389), which is the one that is   *)
(* read here.  Partitions with a close come from elsewhere.                *)
(***************************************************************************)
EXTENDS Integers, FiniteSets

CONSTANTS
    MaxDate, TradingDays, Contents, Voteless, Configs, Outcomes, Decide,
    Unreadable, Null, Absent, Torn, EditsDuringRun, MaxEdits, MaxFaults,
                   \* as in DecisionRuntime
    GoldFiles,     \* what --features may hold: sets of rows
    Prices,        \* the closes of the index
    Raw,           \* a partition as the ingest writes it, without a column close
    Positive,      \* those above zero
    Truths,        \* the labels of the truth
    Move,          \* the label of the move between two closes
    CloseFiles,    \* the closes that may be there at first
    MaxKills       \* bound: kills of a backtest

Dates == 1 .. MaxDate

GoldRows == [as_of_date : Dates, decision_date : {Null}, content : Contents]

Until(g, r) == {q \in g : q.as_of_date <= r.as_of_date}

FeatureFile(rs) == [has_decision_date |-> FALSE, forbidden_columns |-> FALSE, rows |-> rs]

\* Every file the runtime may find here.
Slices == {FeatureFile(Until(g, r)) : g \in GoldFiles, r \in GoldRows}

VARIABLES
    agents_yaml, features, decisions, stage, asked, rules, loaded, todo,
    signature, outcome, edits, faults,  \* of the runtime
    closes,       \* the partitions of the closes
    rows_jsonl, summary,  \* the reports
    phase,        \* where the backtest is
    gold,         \* its feature rows
    ahead,        \* those the loop has not reached
    truth,        \* the truth of the current row
    done,         \* the rows scored so far
    kills

runtime == <<agents_yaml, features, decisions, stage, asked, rules, loaded,
             todo, signature, outcome, edits, faults>>
\* What a backtest leaves of the runtime alone when it writes a slice.
runtime_but_features == <<agents_yaml, decisions, stage, asked, rules, loaded,
                          todo, signature, outcome, edits, faults>>
reports == <<rows_jsonl, summary>>
memory == <<gold, ahead, truth, done>>
vars == <<runtime, closes, reports, phase, memory, kills>>

Runtime == INSTANCE DecisionRuntime WITH FeatureFiles <- Slices

\* The runtime is used under its own assumptions.
ASSUME BacktestAssumption ==
    /\ Runtime!RuntimeAssumption
    /\ GoldFiles \subseteq SUBSET GoldRows
    /\ Positive \subseteq Prices
    /\ Move \in [Positive \X Positive -> Truths]
    /\ {Absent, Torn, Raw} \cap Prices = {} /\ Raw # Absent
    /\ CloseFiles \subseteq [Dates -> Prices \cup {Absent, Torn, Raw}]
    /\ \A c \in CloseFiles : \A d \in Dates \ TradingDays : c[d] = Absent
    /\ MaxKills \in Nat

Phases == {"idle", "truth", "invoke", "running",
           "report", "write_rows", "summarize", "write_summary"}

\* A scored row holds the decision itself in place of its label, score and ids.
BacktestRow ==
    [decision_date : Dates, next_trading_date : Dates,
     decision : Runtime!Decisions, truth_label : Truths]

Summaries == [evaluated_count : Nat, hit_count : Nat, skip_count : Nat]

TypeOK ==
    /\ Runtime!TypeOK
    /\ closes \in [Dates -> Prices \cup {Absent, Torn, Raw}]
    /\ rows_jsonl \in {Absent, Torn} \/ rows_jsonl \subseteq BacktestRow
    /\ summary \in Summaries \cup {Absent, Torn}
    /\ phase \in Phases
    /\ gold \in SUBSET GoldRows /\ ahead \in SUBSET gold
    /\ truth \in Truths \cup {Null}
    /\ done \in SUBSET BacktestRow
    /\ kills \in 0 .. MaxKills

Init ==
    /\ Runtime!Init /\ features = Unreadable
    /\ closes \in CloseFiles
    /\ rows_jsonl = Absent /\ summary = Absent
    /\ phase = "idle" /\ gold = {} /\ ahead = {} /\ truth = Null /\ done = {}
    /\ kills = 0

End == phase' = "idle" /\ gold' = {} /\ ahead' = {} /\ truth' = Null /\ done' = {}

-----------------------------------------------------------------------------

\* An empty file, or two rows of one day, end the command before it has an effect.
Loadable(g) ==
    g # {} /\ \A r, q \in g : r.as_of_date = q.as_of_date => r = q

\* The feature file of the invocations is in a directory of its own for each run.
Start ==
    /\ phase = "idle"
    /\ \E g \in GoldFiles : Loadable(g) /\ gold' = g /\ ahead' = g
    /\ phase' = "truth"
    /\ features' = Unreadable
    /\ UNCHANGED <<runtime_but_features, closes, reports, truth, done, kills>>

\* r is the row the loop is at.
At(r) == r \in ahead /\ \A q \in ahead : r.as_of_date <= q.as_of_date

Next_trading_day(r, n) == Runtime!IsNext(r.as_of_date, n)

\* The loop goes on behind row r.
Pass(r) ==
    /\ ahead' = ahead \ {r}
    /\ truth' = Null
    /\ phase' = IF ahead = {r} THEN "report" ELSE "truth"

\* A day without a close of its own, a day beyond the calendar, and a close that
\* cannot be read or is not positive, end the command; the reports stay.
TruthFails ==
    /\ phase = "truth"
    /\ \E r \in gold :
        /\ At(r)
        /\ \/ closes[r.as_of_date] \in {Absent, Torn, Raw}
           \/ ~\E n \in Dates : Next_trading_day(r, n)
           \/ \E n \in Dates : Next_trading_day(r, n) /\ closes[n] \in {Torn, Raw}
           \/ \E n \in Dates :
                /\ Next_trading_day(r, n) /\ closes[n] \in Prices
                /\ ~({closes[r.as_of_date], closes[n]} \subseteq Positive)
    /\ End
    /\ UNCHANGED <<runtime, closes, reports, kills>>

\* Mutant of PassUnknown: a day without a close of its own is passed, too.
PassEither ==
    /\ phase = "truth"
    /\ \E r \in gold, n \in Dates :
        /\ At(r) /\ Next_trading_day(r, n)
        /\ Absent \in {closes[r.as_of_date], closes[n]}
        /\ Pass(r)
    /\ UNCHANGED <<runtime, closes, reports, gold, done, kills>>

\* The next day's close is not there yet: no truth, no decision, no row.
PassUnknown ==
    /\ phase = "truth"
    /\ \E r \in gold, n \in Dates :
        /\ At(r) /\ Next_trading_day(r, n)
        /\ closes[r.as_of_date] \in Prices /\ closes[n] = Absent
        /\ Pass(r)
    /\ UNCHANGED <<runtime, closes, reports, gold, done, kills>>

\* Mutant of WriteSlice: the slice begins at the current row.
WriteSliceFrom ==
    /\ phase = "truth"
    /\ \E r \in gold, n \in Dates :
        /\ At(r) /\ Next_trading_day(r, n)
        /\ closes[r.as_of_date] \in Positive /\ closes[n] \in Positive
        /\ truth' = Move[closes[r.as_of_date], closes[n]]
        /\ features' = FeatureFile({q \in gold : q.as_of_date >= r.as_of_date})
    /\ phase' = "invoke"
    /\ UNCHANGED <<runtime_but_features, closes, reports, gold, ahead, done, kills>>

\* Mutant of WriteSlice: the move is taken backwards.
WriteSliceBackwards ==
    /\ phase = "truth"
    /\ \E r \in gold, n \in Dates :
        /\ At(r) /\ Next_trading_day(r, n)
        /\ closes[r.as_of_date] \in Positive /\ closes[n] \in Positive
        /\ truth' = Move[closes[n], closes[r.as_of_date]]
        /\ features' = FeatureFile(Until(gold, r))
    /\ phase' = "invoke"
    /\ UNCHANGED <<runtime_but_features, closes, reports, gold, ahead, done, kills>>

\* The truth is known, the slice for the invocation written.
WriteSlice ==
    /\ phase = "truth"
    /\ \E r \in gold, n \in Dates :
        /\ At(r) /\ Next_trading_day(r, n)
        /\ closes[r.as_of_date] \in Positive /\ closes[n] \in Positive
        /\ truth' = Move[closes[r.as_of_date], closes[n]]
        /\ features' = FeatureFile(Until(gold, r))
    /\ phase' = "invoke"
    /\ UNCHANGED <<runtime_but_features, closes, reports, gold, ahead, done, kills>>

Invoke ==
    /\ phase = "invoke"
    /\ \E r \in gold, n \in Dates :
        At(r) /\ Next_trading_day(r, n) /\ Runtime!Start(n)
    /\ phase' = "running"
    /\ UNCHANGED <<closes, reports, memory, kills>>

\* The rules do not load.
InvokeFails ==
    /\ phase = "invoke" /\ agents_yaml = Unreadable
    /\ End
    /\ UNCHANGED <<runtime, closes, reports, kills>>

Invocation ==
    /\ phase = "running"
    /\ \/ Runtime!LoadRows \/ Runtime!Sign \/ Runtime!Vote
       \/ Runtime!OpenDecision \/ Runtime!CloseDecision
    /\ UNCHANGED <<closes, reports, phase, memory, kills>>

\* An exception of the runtime is the end of the backtest.
InvocationFails ==
    /\ phase = "running"
    /\ Runtime!LoadFails \/ Runtime!SignFails \/ Runtime!VoteFails
    /\ End
    /\ UNCHANGED <<closes, reports, kills>>

\* Mutant of Score: the decision filed under the row's own day is scored.
ScoreOwnDay ==
    /\ phase = "running" /\ Runtime!Finish
    /\ \E r \in gold, n \in Dates :
        /\ At(r) /\ Next_trading_day(r, n)
        /\ done' = done \cup {[decision_date |-> r.as_of_date, next_trading_date |-> n,
                               decision |-> decisions[r.as_of_date], truth_label |-> truth]}
        /\ Pass(r)
    /\ UNCHANGED <<closes, reports, gold, kills>>

\* The runtime returns the decision it has just written.
Score ==
    /\ phase = "running" /\ Runtime!Finish
    /\ \E r \in gold, n \in Dates :
        /\ At(r) /\ Next_trading_day(r, n)
        /\ done' = done \cup {[decision_date |-> r.as_of_date, next_trading_date |-> n,
                               decision |-> decisions[n], truth_label |-> truth]}
        /\ Pass(r)
    /\ UNCHANGED <<closes, reports, gold, kills>>

-----------------------------------------------------------------------------
(* The reports. *)

Skipped(b) == b.decision.outcome = "skip"

Hit(b) == b.decision.outcome = b.truth_label

Summarize(rows) ==
    [evaluated_count |-> Cardinality(rows),
     hit_count |-> Cardinality({b \in rows : ~Skipped(b) /\ Hit(b)}),
     skip_count |-> Cardinality({b \in rows : Skipped(b)})]

NoRows ==
    /\ phase = "report" /\ done = {}
    /\ End
    /\ UNCHANGED <<runtime, closes, reports, kills>>

\* Mutant of OpenRows: the reports are opened before anything is known to be in them.
OpenAnyRows ==
    /\ phase \in {"truth", "report"}
    /\ rows_jsonl' = Torn
    /\ phase' = IF phase = "report" THEN "write_rows" ELSE phase
    /\ UNCHANGED <<runtime, closes, summary, memory, kills>>

OpenRows ==
    /\ phase = "report" /\ done # {}
    /\ rows_jsonl' = Torn
    /\ phase' = "write_rows"
    /\ UNCHANGED <<runtime, closes, summary, memory, kills>>

CloseRows ==
    /\ phase = "write_rows"
    /\ rows_jsonl' = done
    /\ phase' = "summarize"
    /\ UNCHANGED <<runtime, closes, summary, memory, kills>>

OpenSummary ==
    /\ phase = "summarize"
    /\ summary' = Torn
    /\ phase' = "write_summary"
    /\ UNCHANGED <<runtime, closes, rows_jsonl, memory, kills>>

CloseSummary ==
    /\ phase = "write_summary"
    /\ summary' = Summarize(done)
    /\ End
    /\ UNCHANGED <<runtime, closes, rows_jsonl, kills>>

-----------------------------------------------------------------------------

\* The process is killed, inside an invocation or outside.
Kill ==
    /\ phase # "idle" /\ kills < MaxKills
    /\ kills' = kills + 1
    /\ IF phase = "running" THEN Runtime!Interrupt ELSE UNCHANGED runtime
    /\ End
    /\ UNCHANGED <<closes, reports>>

EditAgents ==
    /\ Runtime!EditAgents
    /\ UNCHANGED <<closes, reports, phase, memory, kills>>

\* The partition of a day is ingested, or the ingest of it is cut short.
Ingest ==
    /\ phase = "idle"
    /\ \E d \in TradingDays, c \in {Raw, Torn} :
        closes[d] = Absent /\ closes' = [closes EXCEPT ![d] = c]
    /\ UNCHANGED <<runtime, reports, phase, memory, kills>>

\* A partition with a close is put there.
SupplyClose ==
    /\ phase = "idle"
    /\ \E d \in TradingDays, c \in Prices :
        closes[d] = Absent /\ closes' = [closes EXCEPT ![d] = c]
    /\ UNCHANGED <<runtime, reports, phase, memory, kills>>

Run ==
    \/ TruthFails \/ PassUnknown \/ WriteSlice
    \/ Invoke \/ InvokeFails \/ Invocation \/ InvocationFails \/ Score
    \/ NoRows \/ OpenRows \/ CloseRows \/ OpenSummary \/ CloseSummary

Next == Start \/ Run \/ Kill \/ EditAgents \/ Ingest \/ SupplyClose

Spec == Init /\ [][Next]_vars

-----------------------------------------------------------------------------
(* What the backtest guarantees. *)

\* A scored row was decided on the features of its own day, for the trading day that
\* follows, and while the backtest lasts the decision on disk is the one scored: no
\* later invocation into the same directory replaces it (runner.py:116-123).
OwnDecision ==
    \A b \in done :
        /\ decisions[b.next_trading_date] = b.decision
        /\ b.decision.row.as_of_date = b.decision_date
        /\ b.decision_date < b.next_trading_date

\* What rows.jsonl says is the truth stays so, whatever is ingested, edited or killed
\* after it was written: the label of the move from the close of the row's day to
\* that of the next trading day, as the snapshot holds them (runner.py:198-214).
TruthHolds ==
    rows_jsonl \notin {Absent, Torn} =>
        \A b \in rows_jsonl :
            /\ Runtime!IsNext(b.decision_date, b.next_trading_date)
            /\ b.truth_label = Move[closes[b.decision_date], closes[b.next_trading_date]]

\* A day passed over for want of a truth never hides between scored ones: when the
\* reports are written, no row is missing whose next trading day has a row
\* itself, since the loop would have raised there (runner.py:201-206).
NoHole ==
    phase \in {"report", "write_rows", "summarize", "write_summary"} =>
        \A r, q \in gold :
            Next_trading_day(r, q.as_of_date) =>
                \E b \in done : b.decision_date = r.as_of_date

\* Unless a backtest is killed, the two reports on disk are of one backtest, be it
\* followed by as many as you like that fail (runner.py:136-149 writes at the end).
ReportsAgree ==
    phase \notin {"write_rows", "summarize", "write_summary"} /\ kills = 0 =>
        \/ rows_jsonl = Absent /\ summary = Absent
        \/ rows_jsonl \notin {Absent, Torn} /\ summary = Summarize(rows_jsonl)

\* What an ingest has written whole is good for a backtest: none ends over it
\* (tests/integration/test_backtest_cli.py:55 takes a Bronze partition to have a
\* column close, as runner.py:224 does).
IngestedIsUsable ==
    [][TruthFails =>
        \E r \in gold : /\ At(r) /\ closes[r.as_of_date] # Raw
                       /\ \A n \in Dates : Next_trading_day(r, n) => closes[n] # Raw]_vars

\* The invocations are runs of the decision runtime, whatever it guarantees included.
RuntimeSpec == Runtime!Spec

=============================================================================
