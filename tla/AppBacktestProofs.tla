------------------------- MODULE AppBacktestProofs -------------------------
(***************************************************************************)
(* The backtest uses the decision runtime through its own steps only, so   *)
(* what is proved of the runtime holds in a backtest.                      *)
(***************************************************************************)
EXTENDS AppBacktest, FiniteSetTheorems, TLAPS

\* The runtime of the backtest, with what is proved of it.
Proved == INSTANCE DecisionRuntimeProofs WITH FeatureFiles <- Slices

LEMMA RuntimeAssumed == Proved!RuntimeAssumption
BY BacktestAssumption
   DEF Runtime!RuntimeAssumption, Proved!RuntimeAssumption, Runtime!Decisions, Proved!Decisions,
       Runtime!Dates, Proved!Dates, Runtime!Rows, Proved!Rows, Runtime!Features, Proved!Features

\* Both instances of the runtime are the same.
LEMMA SameInit == Runtime!Init => Proved!Init
BY DEF Runtime!Init, Proved!Init, Runtime!Dates, Proved!Dates

LEMMA SameNext == Runtime!Next => Proved!Next
BY DEF Runtime!Next, Proved!Next, Runtime!Run, Proved!Run,
       Runtime!Start, Proved!Start, Runtime!LoadRows, Proved!LoadRows,
       Runtime!LoadFails, Proved!LoadFails, Runtime!Sign, Proved!Sign,
       Runtime!SignFails, Proved!SignFails, Runtime!Vote, Proved!Vote,
       Runtime!VoteFails, Proved!VoteFails, Runtime!OpenDecision, Proved!OpenDecision,
       Runtime!CloseDecision, Proved!CloseDecision, Runtime!Finish, Proved!Finish,
       Runtime!Interrupt, Proved!Interrupt, Runtime!EditAgents, Proved!EditAgents,
       Runtime!BuildFeatures, Proved!BuildFeatures, Runtime!End, Proved!End,
       Runtime!Selected, Proved!Selected, Runtime!Matching, Proved!Matching,
       Runtime!Runnable, Proved!Runnable, Runtime!Current, Proved!Current,
       Runtime!RowDate, Proved!RowDate, Runtime!DecidedOn, Proved!DecidedOn,
       Runtime!IsNext, Proved!IsNext, Runtime!IsPrevious, Proved!IsPrevious,
       Runtime!LagSafe, Proved!LagSafe, Runtime!Dates, Proved!Dates,
       Runtime!files, Proved!files, Runtime!work, Proved!work,
       Runtime!counters, Proved!counters

LEMMA SameSpec == Runtime!Spec => Proved!Spec
<1>1. [Runtime!Next]_Runtime!vars => [Proved!Next]_Proved!vars
  BY SameNext DEF Runtime!vars, Runtime!files, Runtime!work, Runtime!counters,
     Proved!vars, Proved!files, Proved!work, Proved!counters
<1> QED
  BY SameInit, <1>1, PTL DEF Runtime!Spec, Proved!Spec

-----------------------------------------------------------------------------

\* The rows a running backtest works on are those of a feature file.
GoldInv == phase # "idle" => gold \in GoldFiles

LEMMA GoldStep == GoldInv /\ [Next]_vars => GoldInv'
<1> SUFFICES ASSUME GoldInv, [Next]_vars PROVE GoldInv'
  OBVIOUS
<1>1. CASE Start
  BY <1>1 DEF Start, GoldInv
<1>2. CASE EditAgents \/ Ingest \/ SupplyClose
  BY <1>2 DEF EditAgents, Ingest, SupplyClose, GoldInv, memory
<1>3. CASE Kill
  BY <1>3 DEF Kill, End, GoldInv
<1>4. CASE Run
  BY <1>4 DEF Run, TruthFails, PassUnknown, WriteSlice, Invoke, InvokeFails, Invocation,
     InvocationFails, Score, NoRows, OpenRows, CloseRows, OpenSummary, CloseSummary,
     End, Pass, memory, GoldInv
<1>5. CASE UNCHANGED vars
  BY <1>5 DEF vars, memory, GoldInv
<1> QED
  BY <1>1, <1>2, <1>3, <1>4, <1>5 DEF Next

\* Writing the feature file is all a backtest does to the runtime by itself.
LEMMA FeaturesStep ==
    ASSUME UNCHANGED runtime_but_features, features' \in Slices \cup {Unreadable}
    PROVE  [Runtime!Next]_Runtime!vars
<1>1. CASE features' = features
  BY <1>1 DEF runtime_but_features, Runtime!vars, Runtime!files, Runtime!work, Runtime!counters
<1>2. CASE features' # features
  <2>1. Runtime!BuildFeatures
    BY <1>2 DEF runtime_but_features, Runtime!BuildFeatures, Runtime!work, Runtime!counters
  <2> QED
    BY <2>1 DEF Runtime!Next
<1> QED
  BY <1>1, <1>2

LEMMA RuntimeStep == GoldInv /\ [Next]_vars => [Runtime!Next]_Runtime!vars
<1> SUFFICES ASSUME GoldInv, [Next]_vars PROVE [Runtime!Next]_Runtime!vars
  OBVIOUS
<1>1. CASE UNCHANGED runtime
  BY <1>1 DEF runtime, Runtime!vars, Runtime!files, Runtime!work, Runtime!counters
<1>2. CASE Start
  BY <1>2, FeaturesStep DEF Start
<1>3. CASE WriteSlice
  <2>1. PICK r \in gold : features' = FeatureFile(Until(gold, r))
    BY <1>3 DEF WriteSlice
  <2>2. gold \in GoldFiles
    BY <1>3 DEF WriteSlice, GoldInv
  <2>3. r \in GoldRows
    BY <2>2, BacktestAssumption
  <2>4. features' \in Slices
    BY <2>1, <2>2, <2>3 DEF Slices
  <2> QED
    BY <1>3, <2>4, FeaturesStep DEF WriteSlice
<1>4. CASE Invoke
  <2>1. PICK r \in gold, n \in Dates : Runtime!Start(n)
    BY <1>4 DEF Invoke
  <2>2. n \in Runtime!Dates \cup {Null}
    BY DEF Dates, Runtime!Dates
  <2> QED
    BY <2>1, <2>2 DEF Runtime!Next
<1>5. CASE Invocation \/ InvocationFails \/ Score
  BY <1>5 DEF Invocation, InvocationFails, Score, Runtime!Next, Runtime!Run
<1>6. CASE Kill
  BY <1>1, <1>6 DEF Kill, Runtime!Next
<1>7. CASE EditAgents
  BY <1>7 DEF EditAgents, Runtime!Next
<1>8. CASE \/ TruthFails \/ PassUnknown \/ InvokeFails \/ NoRows \/ OpenRows \/ CloseRows
           \/ OpenSummary \/ CloseSummary \/ Ingest \/ SupplyClose \/ UNCHANGED vars
  BY <1>1, <1>8 DEF TruthFails, PassUnknown, InvokeFails, NoRows, OpenRows, CloseRows,
     OpenSummary, CloseSummary, Ingest, SupplyClose, vars
<1> QED
  BY <1>2, <1>3, <1>4, <1>5, <1>6, <1>7, <1>8 DEF Next, Run

\* A backtest implements the decision runtime: whatever it is given, and whenever it
\* is killed, its invocations are runs of the runtime.
THEOREM UsesRuntime == Spec => RuntimeSpec
<1>1. Init => GoldInv /\ Runtime!Init
  BY DEF Init, GoldInv
<1> QED
  BY <1>1, GoldStep, RuntimeStep, PTL DEF Spec, RuntimeSpec, Runtime!Spec

\* No decision of a backtest uses data of its own day or later: the result proved of
\* the runtime, in the backtest.
THEOREM NeverLooksAhead == Spec => []Runtime!NoLookAhead
<1>1. Proved!Spec => []Proved!NoLookAhead
  BY RuntimeAssumed, Proved!NeverLooksAhead DEF Proved!RuntimeAssumption
<1>2. Proved!NoLookAhead => Runtime!NoLookAhead
  BY DEF Proved!NoLookAhead, Runtime!NoLookAhead, Proved!Dates, Runtime!Dates
<1> QED
  BY <1>1, <1>2, UsesRuntime, SameSpec, PTL DEF RuntimeSpec

\* What else the runtime promises, each invocation of a backtest keeps: it decides by one
\* set of rules, leaves what it has decided alone, and over all invocations no more
\* decisions are lost than there were faults.
InvocationsKeep ==
    [](/\ Runtime!OneRuleSet /\ Runtime!DoneRowsKept /\ Runtime!InterruptLosesOne)

\* The runtime's promises hold in a backtest, whatever is ingested, edited or killed.
THEOREM KeepsTheRuntimesPromises == Spec => InvocationsKeep
<1>1. Proved!Spec => [](Proved!OneRuleSet /\ Proved!DoneRowsKept /\ Proved!InterruptLosesOne)
  <2>1. /\ Proved!Spec => []Proved!OneRuleSet
        /\ Proved!Spec => []Proved!DoneRowsKept
        /\ Proved!Spec => []Proved!InterruptLosesOne
    BY RuntimeAssumed, Proved!DecidesByOneRuleSet, Proved!KeepsDoneRows, Proved!LosesOneDecision
       DEF Proved!RuntimeAssumption
  <2> QED
    BY <2>1, PTL
<1>2. \A r, e : (Proved!RowDate(r, e) <=> Runtime!RowDate(r, e))
  BY DEF Proved!RowDate, Runtime!RowDate, Proved!DecidedOn, Runtime!DecidedOn,
         Proved!IsNext, Runtime!IsNext
<1>3. \A r, e : (Proved!Current(r, e) <=> Runtime!Current(r, e))
  BY <1>2 DEF Proved!Current, Runtime!Current, Proved!Dates, Runtime!Dates
<1>4. Proved!OneRuleSet => Runtime!OneRuleSet
  BY <1>2 DEF Proved!OneRuleSet, Runtime!OneRuleSet, Proved!Dates, Runtime!Dates
<1>5. Proved!DoneRowsKept => Runtime!DoneRowsKept
  BY <1>2 DEF Proved!DoneRowsKept, Runtime!DoneRowsKept, Proved!Dates, Runtime!Dates
<1>6. Proved!InterruptLosesOne => Runtime!InterruptLosesOne
  <2> DEFINE Writing(d) == stage = "write" /\ \E r \in todo : Runtime!Current(r, d)
             torn == {d \in Dates : decisions[d] = Torn /\ ~Writing(d)}
  <2>1. {d \in Dates : decisions[d] = Torn
           /\ ~(stage = "write" /\ \E r \in todo : Proved!Current(r, d))} = torn
    BY <1>3
  <2>2. \A S : Proved!Cardinality(S) = Cardinality(S) /\ Runtime!Cardinality(S) = Cardinality(S)
    BY DEF Proved!Cardinality, Runtime!Cardinality, Cardinality
  <2>3. Proved!InterruptLosesOne => Cardinality(torn) <= faults
    BY <2>2, <2>1 DEF Proved!InterruptLosesOne, Proved!Dates, Dates
  <2>4. Cardinality(torn) <= faults => Runtime!InterruptLosesOne
    BY <2>2 DEF Runtime!InterruptLosesOne, Runtime!Dates, Dates
  <2> QED
    BY <2>3, <2>4
<1> QED
  BY <1>1, <1>4, <1>5, <1>6, UsesRuntime, SameSpec, PTL DEF RuntimeSpec, InvocationsKeep

-----------------------------------------------------------------------------
(* The invariant of the backtest itself. *)

\* Row b was scored against the closes as they are.
Judged(b) ==
    /\ Runtime!IsNext(b.decision_date, b.next_trading_date)
    /\ closes[b.decision_date] \in Positive /\ closes[b.next_trading_date] \in Positive
    /\ b.truth_label = Move[closes[b.decision_date], closes[b.next_trading_date]]

\* Row r is the one being decided, for day n, and its truth is known.
Called(r, n) ==
    /\ At(r) /\ Runtime!IsNext(r.as_of_date, n)
    /\ closes[r.as_of_date] \in Positive /\ closes[n] \in Positive
    /\ truth = Move[closes[r.as_of_date], closes[n]]

LocalTypeOK ==
    /\ closes \in [Dates -> Prices \cup {Absent, Torn, Raw}]
    /\ rows_jsonl \in {Absent, Torn} \/ rows_jsonl \subseteq BacktestRow
    /\ summary \in Summaries \cup {Absent, Torn}
    /\ phase \in Phases
    /\ gold \in SUBSET GoldRows /\ ahead \in SUBSET gold
    /\ truth \in Truths \cup {Null}
    /\ done \in SUBSET BacktestRow /\ IsFiniteSet(done)
    /\ kills \in 0 .. MaxKills

\* The exchange has closes of its open days only.
DaysInv == \A d \in Dates : closes[d] # Absent => d \in TradingDays

\* What lies behind the loop was scored, or has no truth yet.
LoopInv ==
    /\ phase = "idle" => gold = {} /\ done = {}
    /\ phase \in {"report", "write_rows", "summarize", "write_summary"} => ahead = {}
    /\ \A r, q \in gold : r.as_of_date = q.as_of_date => r = q
    /\ \A b \in done, r \in ahead : b.decision_date < r.as_of_date
    /\ \A r \in gold \ ahead :
        /\ closes[r.as_of_date] # Absent
        /\ \/ \E b \in done : b.decision_date = r.as_of_date
           \/ \E n \in Dates : Runtime!IsNext(r.as_of_date, n) /\ closes[n] = Absent

\* The invocation is for the row the loop is at, and loads that row only.
CallInv ==
    /\ phase \in {"invoke", "running"} =>
        /\ features \in Slices
        /\ \E r \in ahead, n \in Dates : Called(r, n) /\ (phase = "running" => asked = n)
    /\ stage \in {"idle", "load"} => loaded = {}
    /\ phase = "running" =>
        /\ \A q \in loaded : Runtime!IsPrevious(asked, q.as_of_date)
        /\ stage \notin {"idle", "load"} => loaded # {}
        /\ stage = "done" => todo = {}

\* The reports hold scored rows, and belong together.
ReportInv ==
    /\ \A b \in done : Judged(b)
    /\ rows_jsonl \notin {Absent, Torn} => \A b \in rows_jsonl : Judged(b)
    /\ phase \in {"summarize", "write_summary"} => rows_jsonl = done

BInv == LocalTypeOK /\ DaysInv /\ LoopInv /\ CallInv /\ ReportInv /\ OwnDecision

\* What is proved of the runtime and used here.
RuntimeInv == Runtime!TypeOK /\ Runtime!DoneRowsKept

LEMMA RuntimeInvariance == Spec => []RuntimeInv
<1>1. Proved!Spec => []Proved!TypeOK
  BY RuntimeAssumed, Proved!TypeCorrect DEF Proved!RuntimeAssumption
<1>2. Proved!Spec => []Proved!DoneRowsKept
  BY RuntimeAssumed, Proved!KeepsDoneRows DEF Proved!RuntimeAssumption
<1>3. Proved!TypeOK => Runtime!TypeOK
  BY DEF Proved!TypeOK, Runtime!TypeOK, Proved!Dates, Runtime!Dates, Proved!Rows,
     Runtime!Rows, Proved!Decisions, Runtime!Decisions, Proved!Stages, Runtime!Stages
<1>4. Proved!DoneRowsKept => Runtime!DoneRowsKept
  BY DEF Proved!DoneRowsKept, Runtime!DoneRowsKept, Proved!Dates, Runtime!Dates,
     Proved!RowDate, Runtime!RowDate, Proved!DecidedOn, Runtime!DecidedOn,
     Proved!IsNext, Runtime!IsNext
<1> QED
  BY <1>1, <1>2, <1>3, <1>4, UsesRuntime, SameSpec, PTL DEF RuntimeSpec, RuntimeInv

-----------------------------------------------------------------------------
(* The calendar. *)

LEMMA DatesAreNumbers == Dates \subseteq Int /\ TradingDays \subseteq Int
BY BacktestAssumption DEF Dates, Runtime!RuntimeAssumption, Runtime!Dates

LEMMA NextUnique ==
    ASSUME NEW d \in Dates, NEW e \in Dates, NEW x \in Dates,
           Runtime!IsNext(d, e), Runtime!IsNext(d, x)
    PROVE  e = x
<1>1. e <= x /\ x <= e
  BY DEF Runtime!IsNext
<1> QED
  BY <1>1, DatesAreNumbers

\* The day after a trading day is later than the day after an earlier one.
LEMMA NextLater ==
    ASSUME NEW d \in Dates, NEW c \in Dates, NEW e \in Dates, NEW x \in Dates,
           Runtime!IsNext(d, e), Runtime!IsNext(c, x), d < c, c \in TradingDays
    PROVE  e < x
<1>1. e <= c /\ c < x
  BY DEF Runtime!IsNext
<1> QED
  BY <1>1, DatesAreNumbers

LEMMA PreviousOfNext ==
    ASSUME NEW d \in Dates, NEW e \in Dates, NEW p \in Dates, d \in TradingDays,
           Runtime!IsNext(d, e), Runtime!IsPrevious(e, p)
    PROVE  p = d
<1>1. d < e /\ (\A x \in TradingDays : d < x => e <= x)
  BY DEF Runtime!IsNext
<1>2. p \in TradingDays /\ p < e /\ \A x \in TradingDays : x < e => x <= p
  BY DEF Runtime!IsPrevious
<1>3. d <= p /\ ~(d < p)
  BY <1>1, <1>2, DatesAreNumbers
<1> QED
  BY <1>3, DatesAreNumbers

-----------------------------------------------------------------------------
(* The steps. *)

LEMMA InitBInv == Init => BInv
<1> SUFFICES ASSUME Init PROVE BInv
  OBVIOUS
<1>1. closes \in CloseFiles /\ phase = "idle" /\ gold = {} /\ ahead = {} /\ done = {}
      /\ rows_jsonl = Absent /\ summary = Absent /\ truth = Null /\ kills = 0
  BY DEF Init
<1>2. LocalTypeOK
  BY <1>1, BacktestAssumption, FS_EmptySet DEF LocalTypeOK, Phases
<1>3. DaysInv
  BY <1>1, BacktestAssumption DEF DaysInv
<1>4. LoopInv /\ ReportInv /\ OwnDecision
  BY <1>1 DEF LoopInv, ReportInv, OwnDecision
<1>5. CallInv
  BY <1>1 DEF Init, Runtime!Init, CallInv
<1> QED
  BY <1>2, <1>3, <1>4, <1>5 DEF BInv

\* The end of a backtest, whatever the cause.
LEMMA EndStep ==
    ASSUME BInv, End, UNCHANGED <<closes, rows_jsonl>>,
           summary' \in Summaries \cup {Absent, Torn}, kills' \in 0 .. MaxKills,
           stage' \in {"idle", "load"} => loaded' = {}
    PROVE  BInv'
<1>1. phase' = "idle" /\ gold' = {} /\ ahead' = {} /\ truth' = Null /\ done' = {}
  BY DEF End
<1>2. LocalTypeOK'
  BY <1>1, FS_EmptySet DEF BInv, LocalTypeOK, Phases
<1>3. DaysInv' /\ LoopInv' /\ CallInv' /\ OwnDecision'
  BY <1>1 DEF BInv, DaysInv, LoopInv, CallInv, OwnDecision
<1>4. ReportInv'
  BY <1>1 DEF BInv, ReportInv, Judged
<1> QED
  BY <1>2, <1>3, <1>4 DEF BInv

LEMMA SummaryType ==
    ASSUME NEW rows, IsFiniteSet(rows) PROVE Summarize(rows) \in Summaries
<1>1. \A S : S \subseteq rows => Cardinality(S) \in Nat
  BY FS_Subset, FS_CardinalityType
<1> QED
  BY <1>1 DEF Summarize, Summaries

LEMMA EndsStep ==
    ASSUME BInv,
           TruthFails \/ InvokeFails \/ InvocationFails \/ NoRows \/ CloseSummary \/ Kill
    PROVE  BInv'
<1>1. End /\ UNCHANGED <<closes, rows_jsonl>>
  BY DEF TruthFails, InvokeFails, InvocationFails, NoRows, CloseSummary, Kill, reports
<1>2. summary' \in Summaries \cup {Absent, Torn}
  <2>1. CASE CloseSummary
    BY <2>1, SummaryType DEF CloseSummary, BInv, LocalTypeOK
  <2>2. CASE TruthFails \/ InvokeFails \/ InvocationFails \/ NoRows \/ Kill
    BY <2>2 DEF TruthFails, InvokeFails, InvocationFails, NoRows, Kill, reports,
       BInv, LocalTypeOK
  <2> QED
    BY <2>1, <2>2
<1>3. kills' \in 0 .. MaxKills
  BY BacktestAssumption DEF TruthFails, InvokeFails, InvocationFails, NoRows,
     CloseSummary, Kill, BInv, LocalTypeOK
<1>4. stage' \in {"idle", "load"} => loaded' = {}
  <2>1. CASE UNCHANGED runtime
    BY <2>1 DEF runtime, BInv, CallInv
  <2>2. CASE InvocationFails
    BY <2>2 DEF InvocationFails, Runtime!LoadFails, Runtime!SignFails, Runtime!VoteFails,
       Runtime!End
  <2>3. CASE Kill /\ ~UNCHANGED runtime
    BY <2>3 DEF Kill, Runtime!Interrupt, Runtime!End
  <2> QED
    BY <2>1, <2>2, <2>3 DEF TruthFails, InvokeFails, NoRows, CloseSummary
<1> QED
  BY <1>1, <1>2, <1>3, <1>4, EndStep

LEMMA StartStep ==
    ASSUME BInv, Start PROVE BInv'
<1>1. PICK g \in GoldFiles : Loadable(g) /\ gold' = g /\ ahead' = g
  BY DEF Start
<1>2. /\ phase = "idle" /\ phase' = "truth"
      /\ UNCHANGED <<decisions, stage, loaded, closes, rows_jsonl, summary, truth, done, kills>>
  BY DEF Start, runtime_but_features, reports
<1>3. done = {}
  BY <1>2 DEF BInv, LoopInv
<1>4. LocalTypeOK'
  BY <1>1, <1>2, BacktestAssumption DEF BInv, LocalTypeOK, Phases
<1>5. DaysInv' /\ CallInv' /\ OwnDecision'
  BY <1>2, <1>3 DEF BInv, DaysInv, CallInv, OwnDecision
<1>6. LoopInv'
  BY <1>1, <1>2, <1>3 DEF LoopInv, Loadable
<1>7. ReportInv'
  BY <1>2, <1>3 DEF BInv, ReportInv, Judged
<1> QED
  BY <1>4, <1>5, <1>6, <1>7 DEF BInv

\* What remains behind a row is later.
LEMMA PassStep ==
    ASSUME LocalTypeOK, LoopInv, NEW r \in gold, At(r), Pass(r)
    PROVE  /\ ahead' = ahead \ {r} /\ r \in ahead /\ truth' = Null
           /\ phase' \in {"truth", "report"} /\ (phase' = "report" => ahead' = {})
           /\ \A q \in ahead' : r.as_of_date < q.as_of_date
<1>1. ahead' = ahead \ {r} /\ r \in ahead /\ truth' = Null
      /\ phase' \in {"truth", "report"} /\ (phase' = "report" => ahead' = {})
  BY DEF Pass, At
<1>2. ASSUME NEW q \in ahead' PROVE r.as_of_date < q.as_of_date
  <2>1. q \in gold /\ q # r /\ r.as_of_date <= q.as_of_date
    BY <1>1, <1>2 DEF At, LocalTypeOK
  <2>2. r.as_of_date # q.as_of_date
    BY <2>1 DEF LoopInv
  <2>3. r.as_of_date \in Int /\ q.as_of_date \in Int
    BY <2>1, DatesAreNumbers DEF LocalTypeOK, GoldRows
  <2> QED
    BY <2>1, <2>2, <2>3
<1> QED
  BY <1>1, <1>2

LEMMA PassUnknownStep ==
    ASSUME BInv, PassUnknown PROVE BInv'
<1>1. PICK r \in gold, n \in Dates :
        /\ At(r) /\ Next_trading_day(r, n)
        /\ closes[r.as_of_date] \in Prices /\ closes[n] = Absent
        /\ Pass(r)
  BY DEF PassUnknown
<1>2. UNCHANGED <<decisions, stage, loaded, closes, rows_jsonl, summary, gold, done, kills>>
  BY DEF PassUnknown, runtime, reports
<1>3. /\ ahead' = ahead \ {r} /\ r \in ahead /\ truth' = Null
      /\ phase' \in {"truth", "report"} /\ (phase' = "report" => ahead' = {})
      /\ \A q \in ahead' : r.as_of_date < q.as_of_date
  BY <1>1, PassStep DEF BInv
<1>4. LocalTypeOK'
  BY <1>2, <1>3 DEF BInv, LocalTypeOK, Phases
<1>5. DaysInv' /\ CallInv' /\ OwnDecision'
  BY <1>2, <1>3 DEF BInv, DaysInv, CallInv, OwnDecision
<1>6. closes[r.as_of_date] # Absent /\ Runtime!IsNext(r.as_of_date, n)
  BY <1>1, BacktestAssumption DEF Next_trading_day
<1>7. LoopInv'
  BY <1>1, <1>2, <1>3, <1>6 DEF BInv, LoopInv
<1>8. ReportInv'
  BY <1>2, <1>3 DEF BInv, ReportInv, Judged
<1> QED
  BY <1>4, <1>5, <1>7, <1>8 DEF BInv

LEMMA SliceStep ==
    ASSUME BInv, GoldInv, WriteSlice PROVE BInv'
<1>1. PICK r \in gold, n \in Dates :
        /\ At(r) /\ Next_trading_day(r, n)
        /\ closes[r.as_of_date] \in Positive /\ closes[n] \in Positive
        /\ truth' = Move[closes[r.as_of_date], closes[n]]
        /\ features' = FeatureFile(Until(gold, r))
  BY DEF WriteSlice
<1>2. /\ phase = "truth" /\ phase' = "invoke"
      /\ UNCHANGED <<decisions, stage, loaded, closes, rows_jsonl, summary, gold, ahead,
                     done, kills>>
  BY DEF WriteSlice, runtime_but_features, reports
<1>3. truth' \in Truths
  BY <1>1, BacktestAssumption
<1>4. LocalTypeOK'
  BY <1>2, <1>3 DEF BInv, LocalTypeOK, Phases
<1>5. DaysInv' /\ OwnDecision'
  BY <1>2 DEF BInv, DaysInv, OwnDecision
<1>6. LoopInv'
  BY <1>2 DEF BInv, LoopInv
<1>7. CallInv'
  <2>1. gold \in GoldFiles /\ r \in GoldRows
    BY <1>2, BacktestAssumption DEF GoldInv
  <2>2. features' \in Slices
    <3>1. features' = FeatureFile(Until(gold, r))
      BY <1>1
    <3> QED
      BY <2>1, <3>1 DEF Slices
  <2>3. r \in ahead' /\ Called(r, n)'
    BY <1>1, <1>2 DEF Called, At, Next_trading_day
  <2> QED
    BY <1>2, <2>2, <2>3 DEF BInv, CallInv
<1>8. ReportInv'
  BY <1>2 DEF BInv, ReportInv, Judged
<1> QED
  BY <1>4, <1>5, <1>6, <1>7, <1>8 DEF BInv

LEMMA InvokeStep ==
    ASSUME BInv, Invoke PROVE BInv'
<1>1. PICK r \in gold, n \in Dates : At(r) /\ Next_trading_day(r, n) /\ Runtime!Start(n)
  BY DEF Invoke
<1>2. /\ phase = "invoke" /\ phase' = "running"
      /\ UNCHANGED <<closes, rows_jsonl, summary, gold, ahead, truth, done, kills>>
  BY DEF Invoke, reports, memory
<1>3. /\ stage = "idle" /\ stage' = "load" /\ asked' = n
      /\ UNCHANGED <<features, decisions, loaded>>
  BY <1>1 DEF Runtime!Start, Runtime!files
<1>4. PICK q \in ahead, e \in Dates : Called(q, e)
  BY <1>2 DEF BInv, CallInv
<1>5. e = n
  <2>1. q.as_of_date <= r.as_of_date /\ r.as_of_date <= q.as_of_date
    BY <1>1, <1>4 DEF Called, At
  <2>2. q.as_of_date \in Dates /\ r.as_of_date \in Dates
    BY <1>1, <1>4 DEF BInv, LocalTypeOK, GoldRows
  <2>3. q.as_of_date = r.as_of_date
    <3>1. q.as_of_date \in Int /\ r.as_of_date \in Int
      BY <2>2, DatesAreNumbers
    <3> QED
      BY <2>1, <3>1
  <2> QED
    BY <1>1, <1>4, <2>2, <2>3, NextUnique DEF Called, Next_trading_day
<1>6. LocalTypeOK'
  BY <1>2 DEF BInv, LocalTypeOK, Phases
<1>7. DaysInv' /\ LoopInv' /\ OwnDecision'
  BY <1>2, <1>3 DEF BInv, DaysInv, LoopInv, OwnDecision
<1>8. CallInv'
  <2>1. Called(q, e)'
    BY <1>2, <1>4 DEF Called, At
  <2>2. loaded' = {}
    BY <1>3 DEF BInv, CallInv
  <2> QED
    BY <1>2, <1>3, <1>4, <1>5, <2>1, <2>2 DEF BInv, CallInv
<1>9. ReportInv'
  BY <1>2 DEF BInv, ReportInv, Judged
<1> QED
  BY <1>6, <1>7, <1>8, <1>9 DEF BInv

\* A step of the invocation writes the decision of the day it was called for only.
LEMMA CallWrites ==
    ASSUME RuntimeInv, asked \in Dates,
           \/ Runtime!LoadRows \/ Runtime!Sign \/ Runtime!Vote
           \/ Runtime!OpenDecision \/ Runtime!CloseDecision
    PROVE  \A d \in Dates : d # asked => decisions'[d] = decisions[d]
<1>1. decisions \in [Dates -> Runtime!Decisions \cup {Absent, Torn}]
  BY DEF RuntimeInv, Runtime!TypeOK, Runtime!Dates, Dates
<1>2. asked # Null
  BY BacktestAssumption DEF Runtime!RuntimeAssumption, Runtime!Dates, Dates
<1>3. CASE UNCHANGED decisions
  BY <1>3
<1>4. CASE Runtime!OpenDecision
  <2>1. PICK r \in todo, e \in Dates :
          Runtime!Current(r, e) /\ decisions' = [decisions EXCEPT ![e] = Torn]
    BY <1>4 DEF Runtime!OpenDecision, Runtime!Dates, Dates
  <2>2. e = asked
    BY <2>1, <1>2 DEF Runtime!Current, Runtime!RowDate
  <2> QED
    BY <1>1, <2>1, <2>2
<1>5. CASE Runtime!CloseDecision
  <2>1. PICK r \in todo, e \in Dates :
          /\ Runtime!Current(r, e)
          /\ decisions' = [decisions EXCEPT ![e] =
                [row |-> r, config_signature |-> signature, outcome |-> outcome]]
    BY <1>5 DEF Runtime!CloseDecision, Runtime!Dates, Dates
  <2>2. e = asked
    BY <2>1, <1>2 DEF Runtime!Current, Runtime!RowDate
  <2> QED
    BY <1>1, <2>1, <2>2
<1> QED
  BY <1>3, <1>4, <1>5 DEF Runtime!LoadRows, Runtime!Sign, Runtime!Vote, Runtime!files

\* What the invocation has loaded, and when it is done.
LEMMA CallLoads ==
    ASSUME RuntimeInv, CallInv, phase = "running", asked \in Dates,
           \/ Runtime!LoadRows \/ Runtime!Sign \/ Runtime!Vote
           \/ Runtime!OpenDecision \/ Runtime!CloseDecision
    PROVE  /\ UNCHANGED <<features, asked>>
           /\ \A q \in loaded' : Runtime!IsPrevious(asked, q.as_of_date)
           /\ stage' \notin {"idle", "load"} /\ loaded' # {}
           /\ stage' = "done" => todo' = {}
<1>1. asked # Null
  BY BacktestAssumption DEF Runtime!RuntimeAssumption, Runtime!Dates, Dates
<1>2. CASE Runtime!LoadRows
  <2>1. PICK rs \in Runtime!Selected(features) : loaded' = rs
    BY <1>2 DEF Runtime!LoadRows
  <2>2. PICK q : rs = {q} /\ q \in Runtime!Matching(features, asked)
    BY <1>1, <2>1 DEF Runtime!Selected
  <2>3. features \in Slices
    BY DEF CallInv
  <2>4. ~features.has_decision_date
    BY <2>3 DEF Slices, FeatureFile
  <2>5. Runtime!IsPrevious(asked, q.as_of_date)
    BY <2>2, <2>4 DEF Runtime!Matching
  <2> QED
    BY <1>2, <2>1, <2>2, <2>5 DEF Runtime!LoadRows, Runtime!files
<1>3. CASE Runtime!Sign \/ Runtime!Vote \/ Runtime!OpenDecision
  BY <1>3 DEF CallInv, Runtime!Sign, Runtime!Vote, Runtime!OpenDecision, Runtime!files,
     Runtime!work
<1>4. CASE Runtime!CloseDecision
  BY <1>4 DEF CallInv, Runtime!CloseDecision
<1> QED
  BY <1>2, <1>3, <1>4

\* A scored row's decision is for a day before the one that is being decided.
LEMMA ScoredBefore ==
    ASSUME LocalTypeOK, DaysInv, LoopInv, ReportInv, NEW b \in done,
           NEW r \in ahead, NEW n \in Dates, Called(r, n)
    PROVE  b.next_trading_date \in Dates /\ b.next_trading_date < n
<1>1. /\ b.decision_date \in Dates /\ b.next_trading_date \in Dates
      /\ r.as_of_date \in Dates
  BY DEF LocalTypeOK, BacktestRow, GoldRows
<1>2. Runtime!IsNext(b.decision_date, b.next_trading_date)
  BY DEF ReportInv, Judged
<1>3. Runtime!IsNext(r.as_of_date, n) /\ closes[r.as_of_date] \in Positive
  BY DEF Called
<1>4. r.as_of_date \in TradingDays
  BY <1>1, <1>3, BacktestAssumption DEF DaysInv
<1>5. b.decision_date < r.as_of_date
  BY DEF LoopInv
<1> QED
  BY <1>1, <1>2, <1>3, <1>4, <1>5, NextLater

LEMMA InvocationStep ==
    ASSUME BInv, RuntimeInv, Invocation PROVE BInv'
<1>1. /\ phase = "running" /\ phase' = "running"
      /\ UNCHANGED <<closes, rows_jsonl, summary, gold, ahead, truth, done, kills>>
  BY DEF Invocation, reports, memory
<1>2. PICK r \in ahead, n \in Dates : Called(r, n) /\ asked = n
  BY <1>1 DEF BInv, CallInv
<1>3. \/ Runtime!LoadRows \/ Runtime!Sign \/ Runtime!Vote
      \/ Runtime!OpenDecision \/ Runtime!CloseDecision
  BY DEF Invocation
<1>4. /\ UNCHANGED <<features, asked>>
      /\ \A q \in loaded' : Runtime!IsPrevious(asked, q.as_of_date)
      /\ stage' \notin {"idle", "load"} /\ loaded' # {}
      /\ stage' = "done" => todo' = {}
  BY <1>1, <1>2, <1>3, CallLoads DEF BInv
<1>5. \A d \in Dates : d # asked => decisions'[d] = decisions[d]
  BY <1>2, <1>3, CallWrites
<1>6. OwnDecision'
  <2> SUFFICES ASSUME NEW b \in done
               PROVE  decisions'[b.next_trading_date] = decisions[b.next_trading_date]
    BY <1>1 DEF BInv, OwnDecision
  <2>1. b.next_trading_date \in Dates /\ b.next_trading_date < n
    BY <1>2, ScoredBefore DEF BInv
  <2>2. b.next_trading_date # n
    <3>1. b.next_trading_date \in Int /\ n \in Int
      BY <2>1, DatesAreNumbers
    <3> QED
      BY <2>1, <3>1
  <2> QED
    BY <1>2, <1>5, <2>1, <2>2
<1>7. LocalTypeOK'
  BY <1>1 DEF BInv, LocalTypeOK
<1>8. DaysInv' /\ LoopInv'
  BY <1>1 DEF BInv, DaysInv, LoopInv
<1>9. CallInv'
  <2>1. Called(r, n)'
    BY <1>1, <1>2 DEF Called, At
  <2> QED
    BY <1>1, <1>2, <1>4, <2>1 DEF BInv, CallInv
<1>10. ReportInv'
  BY <1>1 DEF BInv, ReportInv, Judged
<1> QED
  BY <1>6, <1>7, <1>8, <1>9, <1>10 DEF BInv

\* The decision that is scored is the one just made, on the row the loop is at.
LEMMA ScoreStep ==
    ASSUME BInv, RuntimeInv, Score PROVE BInv'
<1>1. PICK r \in gold, n \in Dates :
        /\ At(r) /\ Next_trading_day(r, n)
        /\ done' = done \cup {[decision_date |-> r.as_of_date, next_trading_date |-> n,
                               decision |-> decisions[n], truth_label |-> truth]}
        /\ Pass(r)
  BY DEF Score
<1>2. /\ phase = "running" /\ stage = "done" /\ stage' = "idle" /\ loaded' = {}
      /\ UNCHANGED <<decisions, closes, rows_jsonl, summary, gold, kills>>
  BY DEF Score, Runtime!Finish, Runtime!End, Runtime!files, reports
<1>3. /\ ahead' = ahead \ {r} /\ r \in ahead /\ truth' = Null
      /\ phase' \in {"truth", "report"} /\ (phase' = "report" => ahead' = {})
      /\ \A q \in ahead' : r.as_of_date < q.as_of_date
  BY <1>1, PassStep DEF BInv
<1>4. r.as_of_date \in Dates
  BY <1>1 DEF BInv, LocalTypeOK, GoldRows
<1>5. Called(r, n) /\ asked = n
  <2>1. PICK q \in ahead, e \in Dates : Called(q, e) /\ asked = e
    BY <1>2 DEF BInv, CallInv
  <2>2. q.as_of_date <= r.as_of_date /\ r.as_of_date <= q.as_of_date
    BY <1>1, <2>1 DEF Called, At
  <2>3. q.as_of_date \in Dates /\ q \in gold
    BY <2>1 DEF BInv, LocalTypeOK, GoldRows
  <2>4. q.as_of_date \in Int /\ r.as_of_date \in Int
    BY <1>4, <2>3, DatesAreNumbers
  <2>5. q.as_of_date = r.as_of_date
    BY <2>2, <2>4
  <2>6. q = r
    BY <2>3, <2>5 DEF BInv, LoopInv
  <2>7. e = n
    BY <1>1, <1>4, <2>1, <2>6, NextUnique DEF Called, Next_trading_day
  <2> QED
    BY <2>1, <2>6, <2>7
<1>6. r.as_of_date \in TradingDays
  BY <1>4, <1>5, BacktestAssumption DEF Called, BInv, DaysInv
<1>7. decisions[n] \in Runtime!Decisions /\ decisions[n].row.as_of_date = r.as_of_date
  <2>1. asked # Null
    BY <1>5, BacktestAssumption DEF Runtime!RuntimeAssumption, Runtime!Dates, Dates
  <2>2. PICK q \in loaded \ todo : Runtime!IsPrevious(asked, q.as_of_date)
    BY <1>2 DEF BInv, CallInv
  <2>3. PICK e \in Dates : /\ Runtime!RowDate(q, e)
                           /\ decisions[e] \notin {Absent, Torn} /\ decisions[e].row = q
    BY <2>2 DEF RuntimeInv, Runtime!DoneRowsKept, Runtime!Dates, Dates
  <2>4. e = n
    BY <1>5, <2>1, <2>3 DEF Runtime!RowDate
  <2>5. q.as_of_date \in Dates
    BY <2>2 DEF RuntimeInv, Runtime!TypeOK, Runtime!Rows, Runtime!Dates, Dates
  <2>6. q.as_of_date = r.as_of_date
    BY <1>4, <1>5, <1>6, <2>2, <2>5, PreviousOfNext DEF Called
  <2>7. decisions[n] \in Runtime!Decisions \cup {Absent, Torn}
    BY DEF RuntimeInv, Runtime!TypeOK, Runtime!Dates, Dates
  <2> QED
    BY <2>3, <2>4, <2>6, <2>7
<1> DEFINE s == [decision_date |-> r.as_of_date, next_trading_date |-> n,
                 decision |-> decisions[n], truth_label |-> truth]
<1>8. truth \in Truths
  BY <1>5, BacktestAssumption DEF Called
<1>9. s \in BacktestRow
  BY <1>4, <1>7, <1>8 DEF BacktestRow
<1>10. /\ s.decision_date = r.as_of_date /\ s.next_trading_date = n
       /\ s.decision = decisions[n] /\ s.truth_label = truth
  OBVIOUS
<1>11. done' = done \cup {s}
  BY <1>1
<1> HIDE DEF s
<1>12. LocalTypeOK'
  <2>1. done' \in SUBSET BacktestRow /\ IsFiniteSet(done')
    BY <1>9, <1>11, FS_AddElement DEF BInv, LocalTypeOK
  <2> QED
    BY <1>2, <1>3, <2>1 DEF BInv, LocalTypeOK, Phases
<1>13. DaysInv' /\ CallInv'
  BY <1>2, <1>3 DEF BInv, DaysInv, CallInv
<1>14. LoopInv'
  <2>1. closes[r.as_of_date] # Absent
    BY <1>5, BacktestAssumption DEF Called
  <2>2. \A b \in done', q \in ahead' : b.decision_date < q.as_of_date
    BY <1>3, <1>10, <1>11 DEF BInv, LoopInv
  <2>3. \E b \in done' : b.decision_date = r.as_of_date
    BY <1>10, <1>11
  <2>4. \A q \in gold \ ahead' : q = r \/ q \in gold \ ahead
    BY <1>3
  <2> QED
    BY <1>2, <1>3, <1>11, <2>1, <2>2, <2>3, <2>4 DEF BInv, LoopInv
<1>15. ReportInv'
  <2>1. Judged(s)
    BY <1>5, <1>10 DEF Judged, Called
  <2> QED
    BY <1>2, <1>3, <1>11, <2>1 DEF BInv, ReportInv, Judged
<1>16. OwnDecision'
  BY <1>2, <1>5, <1>7, <1>10, <1>11 DEF BInv, OwnDecision, Called, Runtime!IsNext
<1> QED
  BY <1>12, <1>13, <1>14, <1>15, <1>16 DEF BInv

LEMMA ReportStep ==
    ASSUME BInv, OpenRows \/ CloseRows \/ OpenSummary PROVE BInv'
<1>1. UNCHANGED <<decisions, stage, loaded, closes, gold, ahead, truth, done, kills>>
  BY DEF OpenRows, CloseRows, OpenSummary, runtime, memory
<1>2. /\ phase \in {"report", "write_rows", "summarize"}
      /\ phase' \in {"write_rows", "summarize", "write_summary"}
      /\ rows_jsonl' \in {rows_jsonl, Torn, done}
      /\ summary' \in {summary, Torn}
      /\ phase' \in {"summarize", "write_summary"} => rows_jsonl' = done
  BY DEF OpenRows, CloseRows, OpenSummary, BInv, ReportInv
<1>3. LocalTypeOK'
  BY <1>1, <1>2 DEF BInv, LocalTypeOK, Phases
<1>4. DaysInv' /\ LoopInv' /\ CallInv' /\ OwnDecision'
  BY <1>1, <1>2 DEF BInv, DaysInv, LoopInv, CallInv, OwnDecision
<1>5. ReportInv'
  BY <1>1, <1>2 DEF BInv, ReportInv, Judged
<1> QED
  BY <1>3, <1>4, <1>5 DEF BInv

\* A partition is added where there was none, so what was judged stays so.
LEMMA IngestStep ==
    ASSUME BInv, Ingest \/ SupplyClose PROVE BInv'
<1>1. PICK d \in TradingDays, c \in Prices \cup {Torn, Raw} :
        closes[d] = Absent /\ closes' = [closes EXCEPT ![d] = c]
  BY DEF Ingest, SupplyClose
<1>2. /\ phase = "idle"
      /\ UNCHANGED <<decisions, stage, loaded, rows_jsonl, summary, phase, gold, ahead,
                     truth, done, kills>>
  BY DEF Ingest, SupplyClose, runtime, reports, memory
<1>3. d \in Dates
  BY BacktestAssumption DEF Runtime!RuntimeAssumption, Runtime!Dates, Dates
<1>4. /\ closes' \in [Dates -> Prices \cup {Absent, Torn, Raw}]
      /\ \A x \in Dates : closes'[x] = IF x = d THEN c ELSE closes[x]
  BY <1>1, <1>3 DEF BInv, LocalTypeOK
<1>5. LocalTypeOK'
  BY <1>2, <1>4 DEF BInv, LocalTypeOK
<1>6. DaysInv'
  BY <1>1, <1>4 DEF BInv, DaysInv
<1>7. LoopInv' /\ CallInv' /\ OwnDecision'
  BY <1>2 DEF BInv, LocalTypeOK, LoopInv, CallInv, OwnDecision
<1>8. ReportInv'
  <2> SUFFICES ASSUME rows_jsonl \notin {Absent, Torn}, NEW b \in rows_jsonl
               PROVE  Judged(b)'
    BY <1>2 DEF BInv, LoopInv, ReportInv
  <2>1. b.decision_date \in Dates /\ b.next_trading_date \in Dates
    BY DEF BInv, LocalTypeOK, BacktestRow
  <2>2. Judged(b)
    BY DEF BInv, ReportInv
  <2>3. b.decision_date # d /\ b.next_trading_date # d
    BY <1>1, <2>2, BacktestAssumption DEF Judged
  <2>4. /\ closes'[b.decision_date] = closes[b.decision_date]
        /\ closes'[b.next_trading_date] = closes[b.next_trading_date]
    BY <1>4, <2>1, <2>3
  <2> QED
    BY <2>2, <2>4 DEF Judged
<1> QED
  BY <1>5, <1>6, <1>7, <1>8 DEF BInv

LEMMA QuietStep ==
    ASSUME BInv, EditAgents \/ UNCHANGED vars PROVE BInv'
<1>1. UNCHANGED <<features, decisions, stage, asked, loaded, todo, closes, rows_jsonl,
                  summary, phase, gold, ahead, truth, done, kills>>
  BY DEF EditAgents, Runtime!EditAgents, Runtime!work, vars, runtime, reports, memory
<1>2. LocalTypeOK' /\ DaysInv' /\ LoopInv' /\ OwnDecision'
  BY <1>1 DEF BInv, LocalTypeOK, DaysInv, LoopInv, OwnDecision
<1>3. CallInv' /\ ReportInv'
  BY <1>1 DEF BInv, CallInv, Called, At, ReportInv, Judged
<1> QED
  BY <1>2, <1>3 DEF BInv

LEMMA BInvariance == Spec => []BInv
<1>1. BInv /\ RuntimeInv /\ GoldInv /\ [Next]_vars => BInv'
  BY EndsStep, StartStep, PassUnknownStep, SliceStep, InvokeStep, InvocationStep, ScoreStep,
     ReportStep, IngestStep, QuietStep DEF Next, Run
<1>2. Init => GoldInv
  BY DEF Init, GoldInv
<1> QED
  BY InitBInv, <1>1, <1>2, GoldStep, RuntimeInvariance, PTL DEF Spec

-----------------------------------------------------------------------------
(* Every backtest ends: its steps are counted down, those of its invocations are  *)
(* the runtime's.                                                                 *)

PerRow == 4 * MaxDate + 6

StepsLeft ==
    CASE phase = "idle" -> 0
      [] phase = "truth" -> Cardinality(ahead) * PerRow + 5
      [] phase = "invoke" -> Cardinality(ahead) * PerRow + 4
      [] phase = "running" -> (Cardinality(ahead) - 1) * PerRow + 6 + Proved!StepsLeft
      [] phase = "report" -> 4
      [] phase = "write_rows" -> 3
      [] phase = "summarize" -> 2
      [] phase = "write_summary" -> 1

Counted == StepsLeft \in 0 .. MaxDate * PerRow + 5 /\ (StepsLeft = 0 <=> phase = "idle")

\* A backtest takes no more steps than this, each of its own steps leaves it fewer, and
\* nothing but another backtest gives it more.
RunsCountDown ==
    /\ []Counted
    /\ [][/\ Run => StepsLeft' < StepsLeft
          /\ ~Start => StepsLeft' <= StepsLeft]_vars

LEMMA SameRun == Runtime!Run => Proved!Run
BY DEF Runtime!Run, Proved!Run,
       Runtime!LoadRows, Proved!LoadRows,
       Runtime!LoadFails, Proved!LoadFails, Runtime!Sign, Proved!Sign,
       Runtime!SignFails, Proved!SignFails, Runtime!Vote, Proved!Vote,
       Runtime!VoteFails, Proved!VoteFails, Runtime!OpenDecision, Proved!OpenDecision,
       Runtime!CloseDecision, Proved!CloseDecision, Runtime!Finish, Proved!Finish,
       Runtime!End, Proved!End,
       Runtime!Selected, Proved!Selected, Runtime!Matching, Proved!Matching,
       Runtime!Runnable, Proved!Runnable, Runtime!Current, Proved!Current,
       Runtime!RowDate, Proved!RowDate, Runtime!DecidedOn, Proved!DecidedOn,
       Runtime!IsNext, Proved!IsNext, Runtime!IsPrevious, Proved!IsPrevious,
       Runtime!LagSafe, Proved!LagSafe, Runtime!Dates, Proved!Dates,
       Runtime!files, Proved!files, Runtime!work, Proved!work,
       Runtime!counters, Proved!counters

\* The steps of an invocation are counted down, here too.
InvocationCounts == [Proved!Run => Proved!StepsLeft' < Proved!StepsLeft]_(Proved!vars)

LEMMA InvocationsCountDown ==
    Spec => /\ []Proved!Counted
            /\ [][Proved!Run => Proved!StepsLeft' < Proved!StepsLeft]_(Proved!vars)
<1>1. Proved!Spec => Proved!RunsCountDown
  BY RuntimeAssumed, Proved!CommandsCountDown DEF Proved!RuntimeAssumption
<1>2. [/\ Proved!Run => Proved!StepsLeft' < Proved!StepsLeft
       /\ ~(\E d \in Proved!Dates \cup {Null} : Proved!Start(d))
              => Proved!StepsLeft' <= Proved!StepsLeft]_(Proved!vars)
      => [Proved!Run => Proved!StepsLeft' < Proved!StepsLeft]_(Proved!vars)
  OBVIOUS
<1> QED
  BY <1>1, <1>2, UsesRuntime, SameSpec, PTL DEF RuntimeSpec, Proved!RunsCountDown

\* There are no more rows than dates.
LEMMA AheadSize ==
    ASSUME BInv
    PROVE  /\ MaxDate \in Nat /\ Cardinality(ahead) \in 0 .. MaxDate
           /\ Cardinality(ahead) = 0 <=> ahead = {}
           /\ \A r \in ahead : Cardinality(ahead \ {r}) = Cardinality(ahead) - 1
<1>1. /\ ahead \subseteq gold /\ gold \subseteq GoldRows /\ MaxDate \in Nat
  BY BacktestAssumption DEF BInv, LocalTypeOK, Runtime!RuntimeAssumption
<1>2. IsFiniteSet(Dates) /\ Cardinality(Dates) = MaxDate
  BY <1>1, FS_Interval DEF Dates
<1> DEFINE f == [r \in ahead |-> r.as_of_date]
<1>3. f \in [ahead -> Dates]
  BY <1>1 DEF GoldRows
<1>4. \A r, q \in ahead : f[r] = f[q] => r = q
  BY <1>1 DEF BInv, LoopInv
<1> HIDE DEF f
<1>5. f \in Injection(ahead, Dates)
  BY <1>3, <1>4 DEF Injection, IsInjective
<1>6. IsFiniteSet(ahead) /\ Cardinality(ahead) <= MaxDate
  BY <1>2, <1>5, FS_Injection
<1>7. Cardinality(ahead) \in Nat /\ (Cardinality(ahead) = 0 <=> ahead = {})
  BY <1>6, FS_CardinalityType, FS_EmptySet
<1>8. \A r \in ahead : Cardinality(ahead \ {r}) = Cardinality(ahead) - 1
  BY <1>6, FS_RemoveElement
<1> QED
  BY <1>1, <1>6, <1>7, <1>8

LEMMA Times ==
    ASSUME NEW a \in Nat, NEW b \in Nat, a <= b, NEW c \in Nat
    PROVE  /\ a * c \in Nat /\ b * c \in Nat /\ a * c <= b * c
           /\ (a - 1) * c = a * c - c
<1>1. b * c = a * c + (b - a) * c /\ (b - a) * c \in Nat /\ a * c \in Nat
  OBVIOUS
<1> QED
  BY <1>1

LEMMA StepsCounted == BInv /\ Proved!Counted => Counted
<1> SUFFICES ASSUME BInv, Proved!Counted PROVE Counted
  OBVIOUS
<1> DEFINE a == Cardinality(ahead)
<1>1. MaxDate \in Nat /\ a \in 0 .. MaxDate /\ (a = 0 <=> ahead = {}) /\ phase \in Phases
  BY AheadSize DEF BInv, LocalTypeOK
<1>2. PerRow = 4 * MaxDate + 6 /\ PerRow \in Nat
  BY <1>1 DEF PerRow
<1>3. /\ a * PerRow \in Nat /\ a * PerRow <= MaxDate * PerRow /\ MaxDate * PerRow \in Nat
      /\ (a - 1) * PerRow = a * PerRow - PerRow
  BY <1>1, <1>2, Times
<1>4. phase = "running" => a \in 1 .. MaxDate
  BY <1>1 DEF BInv, CallInv
<1>5. Proved!StepsLeft \in 0 .. 4 * MaxDate + 2
  BY DEF Proved!Counted
<1>6. CASE phase = "running"
  <2>1. a * PerRow >= PerRow
    BY <1>2, <1>4, <1>6, <1>1, Times
  <2>2. StepsLeft = a * PerRow - PerRow + 6 + Proved!StepsLeft
    BY <1>3, <1>6 DEF StepsLeft
  <2> HIDE DEF a
  <2> QED
    BY <1>1, <1>2, <1>3, <1>5, <1>6, <2>1, <2>2 DEF Counted
<1>7. CASE phase \in {"truth", "invoke"}
  <2>1. StepsLeft \in {a * PerRow + 5, a * PerRow + 4}
    BY <1>7 DEF StepsLeft
  <2> HIDE DEF a
  <2> QED
    BY <1>3, <1>7, <2>1 DEF Counted
<1>8. CASE phase \in Phases \ {"truth", "invoke", "running"}
  <2>1. StepsLeft \in 0 .. 4 /\ (StepsLeft = 0 <=> phase = "idle")
    BY <1>8 DEF StepsLeft, Phases
  <2> HIDE DEF a
  <2> QED
    BY <1>3, <2>1 DEF Counted
<1> QED
  BY <1>1, <1>6, <1>7, <1>8

LEMMA StepsCountedNext == (BInv /\ Proved!Counted)' => Counted'
BY StepsCounted, PTL

\* The loop goes on with a row less.
LEMMA PassCounts ==
    ASSUME BInv, NEW r \in gold, At(r), Pass(r)
    PROVE  StepsLeft' <= (Cardinality(ahead) - 1) * PerRow + 5
<1> DEFINE a == Cardinality(ahead)
<1>1. r \in ahead /\ ahead' = ahead \ {r} /\ phase' \in {"report", "truth"}
  BY DEF At, Pass
<1>2. MaxDate \in Nat /\ a \in Nat /\ a - 1 \in Nat /\ Cardinality(ahead') = a - 1
  BY <1>1, AheadSize
<1>3. PerRow \in Nat /\ (a - 1) * PerRow \in Nat
  BY <1>2, Times DEF PerRow
<1>4. StepsLeft' \in {4, Cardinality(ahead') * PerRow + 5}
  BY <1>1 DEF StepsLeft, PerRow
<1> HIDE DEF a
<1> QED
  BY <1>2, <1>3, <1>4 DEF a

LEMMA RunCounts ==
    ASSUME BInv, Proved!Counted, (BInv /\ Proved!Counted)', InvocationCounts, Run
    PROVE  StepsLeft' < StepsLeft
<1> DEFINE a == Cardinality(ahead)
<1>1. /\ StepsLeft \in Nat /\ StepsLeft' \in Nat
      /\ StepsLeft = 0 <=> phase = "idle"
      /\ StepsLeft' = 0 <=> phase' = "idle"
  <2>1. MaxDate \in Nat /\ MaxDate * PerRow + 5 \in Nat
    BY AheadSize, Times DEF PerRow
  <2> QED
    BY <2>1, StepsCounted, StepsCountedNext DEF Counted
<1>2. /\ MaxDate \in Nat /\ a \in Nat /\ PerRow = 4 * MaxDate + 6 /\ PerRow \in Nat
      /\ a * PerRow \in Nat /\ (a - 1) * PerRow = a * PerRow - PerRow
  BY AheadSize, Times DEF PerRow
<1>3. Proved!StepsLeft \in Nat /\ Proved!StepsLeft' \in 0 .. 4 * MaxDate + 2
  BY <1>2 DEF Proved!Counted
<1>4. CASE phase # "idle" /\ phase' = "idle"
  BY <1>1, <1>4
<1>5. CASE PassUnknown
  <2>1. PICK r \in gold : At(r) /\ Pass(r)
    BY <1>5 DEF PassUnknown
  <2>2. StepsLeft = a * PerRow + 5
    BY <1>5 DEF PassUnknown, StepsLeft
  <2>3. StepsLeft' <= (a - 1) * PerRow + 5
    BY <2>1, PassCounts
  <2> HIDE DEF a
  <2> QED
    BY <1>1, <1>2, <2>2, <2>3
<1>6. CASE WriteSlice
  <2>1. phase = "truth" /\ phase' = "invoke" /\ ahead' = ahead
    BY <1>6 DEF WriteSlice
  <2>2. StepsLeft = a * PerRow + 5 /\ StepsLeft' = a * PerRow + 4
    BY <2>1 DEF StepsLeft, PerRow
  <2> HIDE DEF a
  <2> QED
    BY <1>2, <2>2
<1>7. CASE Invoke
  <2>1. phase = "invoke" /\ phase' = "running" /\ ahead' = ahead
    BY <1>7 DEF Invoke, memory
  <2>2. StepsLeft = a * PerRow + 4 /\ StepsLeft' = (a - 1) * PerRow + 6 + Proved!StepsLeft'
    BY <2>1 DEF StepsLeft, PerRow
  <2>3. PICK s \in 0 .. 4 * MaxDate + 2 : s = Proved!StepsLeft'
    BY <1>3
  <2>4. PICK x \in Int : x = a * PerRow
    BY <1>2
  <2>5. StepsLeft = x + 4 /\ StepsLeft' = x - PerRow + 6 + s
    BY <1>2, <2>2, <2>3, <2>4
  <2>6. x - PerRow + 6 + s < x + 4
    BY <1>2
  <2> QED
    BY <2>5, <2>6
<1>8. CASE Invocation
  <2>1. phase = "running" /\ phase' = "running" /\ ahead' = ahead
    BY <1>8 DEF Invocation, memory
  <2>2. Proved!Run
    BY <1>8, SameRun DEF Invocation, Runtime!Run
  <2>3. stage' # stage
    BY <1>8 DEF Invocation, Runtime!LoadRows, Runtime!Sign, Runtime!Vote, Runtime!OpenDecision,
                Runtime!CloseDecision
  <2>4. Proved!vars' # Proved!vars
    BY <2>3 DEF Proved!vars
  <2>5. Proved!StepsLeft' < Proved!StepsLeft
    BY <2>2, <2>4 DEF InvocationCounts
  <2>6. /\ StepsLeft = (a - 1) * PerRow + 6 + Proved!StepsLeft
        /\ StepsLeft' = (a - 1) * PerRow + 6 + Proved!StepsLeft'
    BY <2>1 DEF StepsLeft, PerRow
  <2> DEFINE b == (a - 1) * PerRow
  <2>7. b \in Int
    BY <1>2
  <2> HIDE DEF a, b
  <2> QED
    BY <1>3, <2>5, <2>6, <2>7 DEF b
<1>9. CASE Score
  <2>1. PICK r \in gold : At(r) /\ Pass(r)
    BY <1>9 DEF Score
  <2>2. StepsLeft = (a - 1) * PerRow + 6 + Proved!StepsLeft
    BY <1>9 DEF Score, StepsLeft
  <2>3. StepsLeft' <= (a - 1) * PerRow + 5
    BY <2>1, PassCounts
  <2> HIDE DEF a
  <2> QED
    BY <1>1, <1>2, <1>3, <2>2, <2>3
<1>10. CASE OpenRows \/ CloseRows \/ OpenSummary
  BY <1>10 DEF OpenRows, CloseRows, OpenSummary, StepsLeft
<1> QED
  BY <1>4, <1>5, <1>6, <1>7, <1>8, <1>9, <1>10
     DEF Run, End, TruthFails, InvokeFails, InvocationFails, NoRows, CloseSummary

-----------------------------------------------------------------------------

\* The types of the backtest and of the runtime in it.
THEOREM TypeCorrect == Spec => []TypeOK
<1>1. BInv /\ RuntimeInv => TypeOK
  BY DEF BInv, LocalTypeOK, RuntimeInv, TypeOK
<1> QED
  BY <1>1, BInvariance, RuntimeInvariance, PTL

\* Each scored row was decided on the features of its own day, and no later invocation
\* into the same directory replaces its decision: for any calendar.
THEOREM ScoresOwnDecisions == Spec => []OwnDecision
<1>1. BInv => OwnDecision
  BY DEF BInv
<1> QED
  BY <1>1, BInvariance, PTL

\* The truth in a report is never outdated by what is ingested afterwards.
THEOREM TruthStays == Spec => []TruthHolds
<1>1. BInv => TruthHolds
  BY DEF BInv, ReportInv, Judged, TruthHolds
<1> QED
  BY <1>1, BInvariance, PTL

\* No day is missing in the middle of a report.
THEOREM LeavesNoHole == Spec => []NoHole
<1>1. ASSUME BInv PROVE NoHole
  <2> SUFFICES ASSUME phase \in {"report", "write_rows", "summarize", "write_summary"},
                      NEW r \in gold, NEW q \in gold, Next_trading_day(r, q.as_of_date)
               PROVE  \E b \in done : b.decision_date = r.as_of_date
    BY DEF NoHole
  <2>1. r \in gold \ ahead /\ q \in gold \ ahead
    BY <1>1 DEF BInv, LoopInv
  <2>2. closes[q.as_of_date] # Absent
    BY <1>1, <2>1 DEF BInv, LoopInv
  <2>3. r.as_of_date \in Dates /\ q.as_of_date \in Dates
    BY <1>1 DEF BInv, LocalTypeOK, GoldRows
  <2>4. \A n \in Dates : Runtime!IsNext(r.as_of_date, n) => n = q.as_of_date
    BY <2>3, NextUnique DEF Next_trading_day
  <2> QED
    BY <1>1, <2>1, <2>2, <2>4 DEF BInv, LoopInv
<1> QED
  BY <1>1, BInvariance, PTL

\* The two reports belong together unless a backtest was killed; a set of rows is told
\* apart from a missing or torn file.
THEOREM ReportsBelongTogether ==
    ASSUME Absent \notin SUBSET BacktestRow, Torn \notin SUBSET BacktestRow
    PROVE  Spec => []ReportsAgree
<1>1. Init => ReportsAgree
  BY DEF Init, ReportsAgree
<1>2. ASSUME BInv, ReportsAgree, [Next]_vars PROVE ReportsAgree'
  <2>1. CASE CloseSummary
    <3>1. rows_jsonl' = done /\ summary' = Summarize(done) /\ phase' = "idle"
      BY <1>2, <2>1 DEF CloseSummary, End, BInv, ReportInv
    <3>2. done \in SUBSET BacktestRow
      BY <1>2 DEF BInv, LocalTypeOK
    <3> QED
      BY <3>1, <3>2 DEF ReportsAgree
  <2>2. CASE Kill
    <3>1. kills' # 0
      BY <1>2, <2>2, BacktestAssumption DEF Kill, BInv, LocalTypeOK
    <3> QED
      BY <3>1 DEF ReportsAgree
  <2>3. CASE OpenRows \/ CloseRows \/ OpenSummary
    BY <2>3 DEF OpenRows, CloseRows, OpenSummary, ReportsAgree
  <2>4. CASE /\ ~(CloseSummary \/ Kill \/ OpenRows \/ CloseRows \/ OpenSummary)
             /\ phase' \notin {"write_rows", "summarize", "write_summary"}
    <3>1. UNCHANGED <<rows_jsonl, summary, kills>>
      BY <1>2, <2>4 DEF Next, Run, Start, TruthFails, PassUnknown, WriteSlice, Invoke,
         InvokeFails, Invocation, InvocationFails, Score, NoRows, EditAgents, Ingest,
         SupplyClose, vars, reports, memory
    <3>2. phase \notin {"write_rows", "summarize", "write_summary"}
      BY <1>2, <2>4 DEF Next, Run, Start, TruthFails, PassUnknown, WriteSlice, Invoke,
         InvokeFails, Invocation, InvocationFails, Score, NoRows, EditAgents, Ingest,
         SupplyClose, vars
    <3>3. Summarize(rows_jsonl)' = Summarize(rows_jsonl)
      BY <3>1
    <3> QED
      BY <1>2, <3>1, <3>2 DEF ReportsAgree
  <2> QED
    BY <2>1, <2>2, <2>3, <2>4 DEF ReportsAgree
<1> QED
  BY <1>1, <1>2, BInvariance, PTL DEF Spec

\* A backtest ends, over whatever days, rows and rules, and through every invocation.
THEOREM BacktestCountsDown == Spec => RunsCountDown
<1>1. BInv /\ Proved!Counted => Counted
  BY StepsCounted
<1>2. ASSUME BInv, Proved!Counted, (BInv /\ Proved!Counted)', InvocationCounts, [Next]_vars
      PROVE  /\ Run => StepsLeft' < StepsLeft
             /\ ~Start => StepsLeft' <= StepsLeft
  <2>1. /\ StepsLeft \in Nat /\ StepsLeft' \in Nat
        /\ phase' = "idle" => StepsLeft' = 0
    <3>1. MaxDate \in Nat /\ MaxDate * PerRow + 5 \in Nat
      BY <1>2, AheadSize, Times DEF PerRow
    <3> QED
      BY <1>2, <3>1, StepsCounted, StepsCountedNext DEF Counted
  <2>2. Run => StepsLeft' < StepsLeft
    BY <1>2, RunCounts
  <2>3. Kill => StepsLeft' <= StepsLeft
    BY <2>1 DEF Kill, End
  <2>4. EditAgents \/ Ingest \/ SupplyClose \/ UNCHANGED vars =>
            UNCHANGED <<phase, ahead, stage, todo>>
    BY DEF EditAgents, Ingest, SupplyClose, vars, memory, runtime, Runtime!EditAgents,
           Runtime!work
  <2>5. UNCHANGED <<phase, ahead, stage, todo>> => StepsLeft' = StepsLeft
    BY DEF StepsLeft, PerRow, Proved!StepsLeft
  <2> QED
    BY <1>2, <2>1, <2>2, <2>3, <2>4, <2>5 DEF Next
<1>3. BInv /\ Proved!Counted /\ (BInv /\ Proved!Counted)' /\ InvocationCounts =>
         [/\ Run => StepsLeft' < StepsLeft
          /\ ~Start => StepsLeft' <= StepsLeft]_vars \/ ~[Next]_vars
  BY <1>2
<1>4. [Proved!Run => Proved!StepsLeft' < Proved!StepsLeft]_(Proved!vars) => InvocationCounts
  BY DEF InvocationCounts
<1> QED
  BY <1>1, <1>3, <1>4, BInvariance, InvocationsCountDown, PTL DEF Spec, RunsCountDown

=============================================================================
