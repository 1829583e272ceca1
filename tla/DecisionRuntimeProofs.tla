----------------------- MODULE DecisionRuntimeProofs -----------------------
(***************************************************************************)
(* For any calendar, features, rules and number of edits and faults: the   *)
(* runtime never looks ahead, keeps what it has decided, decides by one    *)
(* set of rules, and is traceable as long as agents.yaml is not edited     *)
(* under a running command.  An interruption loses one decision at most,   *)
(* and the two commands decide a date on the same row.                     *)
(***************************************************************************)
EXTENDS DecisionRuntime, FiniteSetTheorems, TLAPS

\* The loaded rows each have a date of their own, after the data they hold.
PlanInv ==
    /\ \A r \in loaded : \E e \in Dates : RowDate(r, e)
    /\ \A r \in loaded, e \in Dates : RowDate(r, e) => LagSafe(r, e)
    /\ \A r, q \in loaded, e \in Dates : RowDate(r, e) /\ RowDate(q, e) => r = q

\* What the command holds for the current row.
DraftInv ==
    /\ stage \in {"idle", "load"} => loaded = {}
    /\ stage # "idle" => rules \in Configs
    /\ stage \in {"vote", "persist", "write"} => signature \in Configs
    /\ stage \in {"persist", "write"} =>
          /\ outcome \in Outcomes
          /\ \A r \in todo, e \in Dates : Current(r, e) => outcome = Decide[rules, r.content]

\* Without edits the rules in force, in memory and in the signature are the same.
TraceInv ==
    ~EditsDuringRun =>
        /\ stage # "idle" => rules = agents_yaml
        /\ stage \in {"vote", "persist", "write"} => signature = rules
        /\ Traceable

IInv ==
    TypeOK /\ PlanInv /\ DraftInv /\ TraceInv /\ NoLookAhead /\ DoneRowsKept /\ OneRuleSet

-----------------------------------------------------------------------------

\* A row has one date at most.
LEMMA DateUnique ==
    ASSUME NEW r \in Rows, NEW e \in Dates, NEW x \in Dates, RowDate(r, e), RowDate(r, x)
    PROVE  e = x
<1>1. Dates \subseteq Int
  BY RuntimeAssumption DEF Dates
<1>2. r.as_of_date \in Int
  BY <1>1 DEF Rows
<1>3. CASE asked # Null
  BY <1>3 DEF RowDate
<1>4. CASE asked = Null /\ r.decision_date # Null
  BY <1>4 DEF RowDate, DecidedOn
<1>5. CASE asked = Null /\ r.decision_date = Null
  <2>1. IsNext(r.as_of_date, e) /\ IsNext(r.as_of_date, x)
    BY <1>5 DEF RowDate, DecidedOn
  <2>2. e <= x /\ x <= e
    BY <2>1 DEF IsNext
  <2> QED
    BY <1>1, <2>2
<1> QED
  BY <1>3, <1>4, <1>5

\* Two rows that come next are the same.
LEMMA CurrentUnique ==
    ASSUME TypeOK, PlanInv,
           NEW r, NEW e \in Dates, NEW q, NEW x \in Dates, Current(r, e), Current(q, x)
    PROVE  r = q /\ e = x
<1>1. Dates \subseteq Int
  BY RuntimeAssumption DEF Dates
<1>2. r \in todo /\ q \in todo /\ RowDate(r, e) /\ RowDate(q, x) /\ e <= x /\ x <= e
  BY DEF Current
<1>3. e = x
  BY <1>1, <1>2
<1>4. r \in loaded /\ q \in loaded
  BY <1>2 DEF TypeOK
<1> QED
  BY <1>2, <1>3, <1>4 DEF PlanInv

\* A current row is one of the loaded rows, and not one of those that are done.
LEMMA CurrentFacts ==
    ASSUME TypeOK, PlanInv, NEW r, NEW e \in Dates, Current(r, e)
    PROVE  /\ r \in todo /\ r \in loaded /\ r \in Rows
           /\ RowDate(r, e) /\ LagSafe(r, e)
           /\ \A q \in loaded \ {r} : \A x \in Dates : RowDate(q, x) => x # e
<1>1. r \in todo /\ RowDate(r, e)
  BY DEF Current
<1>2. r \in loaded /\ r \in Rows
  BY <1>1 DEF TypeOK
<1> QED
  BY <1>1, <1>2 DEF PlanInv

\* The rows that are selected fit together.
LEMMA SelectedFacts ==
    ASSUME TypeOK, features # Unreadable, NEW rs \in Selected(features)
    PROVE  /\ rs \subseteq Rows
           /\ \A r \in rs : \E e \in Dates : RowDate(r, e)
           /\ \A r \in rs, e \in Dates : RowDate(r, e) => LagSafe(r, e)
           /\ \A r, q \in rs, e \in Dates : RowDate(r, e) /\ RowDate(q, e) => r = q
<1>1. features \in Features /\ features.rows \subseteq Rows
  BY RuntimeAssumption DEF TypeOK, Features
<1>2. CASE asked = Null
  <2>1. rs = features.rows /\ Runnable(features)
    BY <1>2 DEF Selected
  <2>2. \A r \in rs : \E e \in Dates : RowDate(r, e) /\ LagSafe(r, e)
    BY <1>2, <2>1 DEF Runnable, RowDate
  <2>3. \A r, q \in rs : \A e \in Dates : RowDate(r, e) /\ RowDate(q, e) => r = q
    BY <1>2, <2>1 DEF Runnable, RowDate
  <2>4. ASSUME NEW r \in rs, NEW e \in Dates, RowDate(r, e)
        PROVE  LagSafe(r, e)
    <3>1. PICK x \in Dates : RowDate(r, x) /\ LagSafe(r, x)
      BY <2>2
    <3>2. e = x
      BY <1>1, <2>1, <2>4, <3>1, DateUnique
    <3> QED
      BY <3>1, <3>2
  <2> QED
    BY <1>1, <2>1, <2>2, <2>3, <2>4
<1>3. CASE asked # Null
  <2>1. PICK r : rs = {r} /\ r \in Matching(features, asked) /\ LagSafe(r, asked)
    BY <1>3 DEF Selected
  <2>2. r \in features.rows
    BY <2>1 DEF Matching
  <2>3. asked \in Dates
    BY <1>3 DEF TypeOK
  <2> QED
    BY <1>1, <1>3, <2>1, <2>2, <2>3 DEF RowDate
<1> QED
  BY <1>2, <1>3

-----------------------------------------------------------------------------

LEMMA InitIInv == Init => IInv
<1> SUFFICES ASSUME Init PROVE IInv
  OBVIOUS
<1>1. TypeOK
  BY RuntimeAssumption DEF Init, TypeOK, Stages
<1>2. PlanInv /\ DraftInv /\ DoneRowsKept /\ OneRuleSet
  BY DEF Init, PlanInv, DraftInv, DoneRowsKept, OneRuleSet
<1>3. NoLookAhead /\ TraceInv
  BY DEF Init, NoLookAhead, TraceInv, Traceable
<1> QED
  BY <1>1, <1>2, <1>3 DEF IInv

\* The actions that end the command leave its files.
LEMMA EndStep ==
    ASSUME IInv, LoadFails \/ SignFails \/ VoteFails \/ Finish \/ Interrupt
    PROVE  IInv'
<1>1. /\ End /\ UNCHANGED files /\ edits' \in 0 .. MaxEdits /\ faults' \in 0 .. MaxFaults
  BY RuntimeAssumption
     DEF IInv, TypeOK, LoadFails, SignFails, VoteFails, Finish, Interrupt, counters
<1>2. UNCHANGED <<agents_yaml, features, decisions>>
  BY <1>1 DEF files
<1>3. TypeOK'
  BY <1>1, <1>2 DEF IInv, TypeOK, End, Stages
<1>4. PlanInv' /\ DraftInv' /\ DoneRowsKept' /\ OneRuleSet'
  BY <1>1 DEF End, PlanInv, DraftInv, DoneRowsKept, OneRuleSet
<1>5. NoLookAhead' /\ TraceInv'
  BY <1>1, <1>2 DEF IInv, End, NoLookAhead, TraceInv, Traceable
<1> QED
  BY <1>3, <1>4, <1>5 DEF IInv

\* The world changes; the command does not notice.
LEMMA WorldStep ==
    ASSUME IInv, EditAgents \/ BuildFeatures
    PROVE  IInv'
<1>1. UNCHANGED <<decisions, stage, asked, rules, loaded, todo, signature, outcome, faults>>
  BY DEF EditAgents, BuildFeatures, work, counters
<1>2. /\ agents_yaml' \in Configs \cup {Unreadable}
      /\ features' \in FeatureFiles \cup {Unreadable}
      /\ edits' \in 0 .. MaxEdits
  BY RuntimeAssumption DEF IInv, TypeOK, EditAgents, BuildFeatures, counters
<1>3. ~EditsDuringRun /\ stage # "idle" => agents_yaml' = agents_yaml
  BY DEF EditAgents, BuildFeatures
<1>4. TypeOK'
  BY <1>1, <1>2 DEF IInv, TypeOK
<1>5. PlanInv' /\ DraftInv'
  BY <1>1 DEF IInv, PlanInv, DraftInv, RowDate, Current
<1>6. DoneRowsKept' /\ OneRuleSet' /\ NoLookAhead'
  BY <1>1 DEF IInv, DoneRowsKept, OneRuleSet, NoLookAhead, RowDate
<1>7. TraceInv'
  BY <1>1, <1>3 DEF IInv, TraceInv, Traceable
<1> QED
  BY <1>4, <1>5, <1>6, <1>7 DEF IInv

LEMMA StartStep ==
    ASSUME IInv, NEW d \in Dates \cup {Null}, Start(d)
    PROVE  IInv'
<1>1. /\ stage = "idle" /\ stage' = "load" /\ asked' = d
      /\ rules' = agents_yaml /\ agents_yaml \in Configs
      /\ UNCHANGED <<agents_yaml, features, decisions, loaded, todo,
                     signature, outcome, edits, faults>>
  BY DEF Start, files, counters
<1>2. loaded = {}
  BY <1>1 DEF IInv, DraftInv
<1>3. TypeOK'
  BY <1>1 DEF IInv, TypeOK, Stages
<1>4. PlanInv' /\ DraftInv' /\ DoneRowsKept' /\ OneRuleSet'
  BY <1>1, <1>2 DEF PlanInv, DraftInv, DoneRowsKept, OneRuleSet
<1>5. NoLookAhead' /\ TraceInv'
  BY <1>1 DEF IInv, NoLookAhead, TraceInv, Traceable
<1> QED
  BY <1>3, <1>4, <1>5 DEF IInv

LEMMA LoadStep ==
    ASSUME IInv, LoadRows
    PROVE  IInv'
<1>1. /\ stage = "load" /\ stage' = "sign" /\ features # Unreadable
      /\ UNCHANGED <<agents_yaml, features, decisions, asked, rules,
                     signature, outcome, edits, faults>>
  BY DEF LoadRows, files, counters
<1>2. PICK rs \in Selected(features) : loaded' = rs /\ todo' = rs
  BY DEF LoadRows
<1>3. /\ rs \subseteq Rows
      /\ \A r \in rs : \E e \in Dates : RowDate(r, e)
      /\ \A r \in rs, e \in Dates : RowDate(r, e) => LagSafe(r, e)
      /\ \A r, q \in rs, e \in Dates : RowDate(r, e) /\ RowDate(q, e) => r = q
  BY <1>1, SelectedFacts DEF IInv
<1>4. TypeOK'
  BY <1>1, <1>2, <1>3 DEF IInv, TypeOK, Stages
<1>5. PlanInv'
  BY <1>1, <1>2, <1>3 DEF PlanInv, RowDate
<1>6. DraftInv' /\ DoneRowsKept' /\ OneRuleSet'
  BY <1>1, <1>2 DEF IInv, DraftInv, DoneRowsKept, OneRuleSet
<1>7. NoLookAhead' /\ TraceInv'
  BY <1>1 DEF IInv, NoLookAhead, TraceInv, Traceable
<1> QED
  BY <1>4, <1>5, <1>6, <1>7 DEF IInv

LEMMA SignStep ==
    ASSUME IInv, Sign
    PROVE  IInv'
<1>1. /\ stage = "sign" /\ stage' = "vote"
      /\ agents_yaml # Unreadable /\ signature' = agents_yaml
      /\ UNCHANGED <<agents_yaml, features, decisions, asked, rules, loaded, todo,
                     outcome, edits, faults>>
  BY DEF Sign, files, counters
<1>2. signature' \in Configs
  BY <1>1 DEF IInv, TypeOK
<1>3. TypeOK'
  BY <1>1, <1>2 DEF IInv, TypeOK, Stages
<1>4. PlanInv' /\ DraftInv'
  BY <1>1, <1>2 DEF IInv, PlanInv, DraftInv, RowDate
<1>5. DoneRowsKept' /\ OneRuleSet' /\ NoLookAhead'
  BY <1>1 DEF IInv, DoneRowsKept, OneRuleSet, NoLookAhead, RowDate
<1>6. TraceInv'
  BY <1>1 DEF IInv, TraceInv, Traceable
<1> QED
  BY <1>3, <1>4, <1>5, <1>6 DEF IInv

\* The outcome is that of the only row that comes next.
LEMMA VoteStep ==
    ASSUME IInv, Vote
    PROVE  IInv'
<1>1. /\ stage = "vote" /\ stage' = "persist"
      /\ UNCHANGED <<agents_yaml, features, decisions, asked, rules, loaded, todo,
                     signature, edits, faults>>
  BY DEF Vote, files, counters
<1>2. PICK r \in todo, e \in Dates : Current(r, e) /\ outcome' = Decide[rules, r.content]
  BY DEF Vote
<1>3. rules \in Configs /\ signature \in Configs
  BY <1>1 DEF IInv, DraftInv
<1>4. r.content \in Contents
  BY <1>2, CurrentFacts DEF IInv, Rows
<1>5. outcome' \in Outcomes
  BY <1>2, <1>3, <1>4, RuntimeAssumption
<1>6. \A q \in todo, x \in Dates : Current(q, x) => outcome' = Decide[rules, q.content]
  BY <1>2, CurrentUnique DEF IInv
<1>7. TypeOK'
  BY <1>1, <1>5 DEF IInv, TypeOK, Stages
<1>8. \A q, x : Current(q, x)' <=> Current(q, x)
  BY <1>1 DEF Current, RowDate
<1>9. DraftInv'
  BY <1>1, <1>3, <1>5, <1>6, <1>8 DEF DraftInv
<1>10. PlanInv' /\ DoneRowsKept' /\ OneRuleSet' /\ NoLookAhead'
  BY <1>1 DEF IInv, PlanInv, DoneRowsKept, OneRuleSet, NoLookAhead, RowDate
<1>11. TraceInv'
  BY <1>1 DEF IInv, TraceInv, Traceable
<1> QED
  BY <1>7, <1>9, <1>10, <1>11 DEF IInv

\* Opening a file tears that of the current row, and no other.
LEMMA OpenStep ==
    ASSUME IInv, OpenDecision
    PROVE  IInv'
<1>1. /\ stage = "persist" /\ stage' = "write"
      /\ UNCHANGED <<agents_yaml, features, asked, rules, loaded, todo,
                     signature, outcome, edits, faults>>
  BY DEF OpenDecision, work, counters
<1>2. PICK r \in todo, e \in Dates :
        Current(r, e) /\ decisions' = [decisions EXCEPT ![e] = Torn]
  BY DEF OpenDecision
<1>3. \A q \in loaded \ {r} : \A x \in Dates : RowDate(q, x) => x # e
  BY <1>2, CurrentFacts DEF IInv
<1>4. /\ decisions' \in [Dates -> Decisions \cup {Absent, Torn}]
      /\ \A x \in Dates : decisions'[x] = IF x = e THEN Torn ELSE decisions[x]
  BY <1>2 DEF IInv, TypeOK
<1>5. \A q, x : (RowDate(q, x)' <=> RowDate(q, x)) /\ (Current(q, x)' <=> Current(q, x))
  BY <1>1 DEF Current, RowDate
<1>6. TypeOK'
  BY <1>1, <1>4 DEF IInv, TypeOK, Stages
<1>7. PlanInv' /\ DraftInv'
  BY <1>1, <1>5 DEF IInv, PlanInv, DraftInv
<1>8. DoneRowsKept'
  BY <1>1, <1>2, <1>3, <1>4, <1>5 DEF IInv, DoneRowsKept
<1>9. OneRuleSet'
  BY <1>1, <1>2, <1>3, <1>4, <1>5 DEF IInv, OneRuleSet
<1>10. NoLookAhead'
  BY <1>4 DEF IInv, NoLookAhead
<1>11. TraceInv'
  BY <1>1, <1>4 DEF IInv, TraceInv, Traceable
<1> QED
  BY <1>6, <1>7, <1>8, <1>9, <1>10, <1>11 DEF IInv

\* The decision that is written names its row and was made by the loaded rules.
LEMMA CloseStep ==
    ASSUME IInv, CloseDecision
    PROVE  IInv'
<1>1. /\ stage = "write" /\ stage' \in {"done", "sign"}
      /\ signature' = Null /\ outcome' = Null
      /\ UNCHANGED <<agents_yaml, features, asked, rules, loaded, edits, faults>>
  BY DEF CloseDecision, counters
<1> DEFINE D(r) == [row |-> r, config_signature |-> signature, outcome |-> outcome]
<1>2. PICK r \in todo, e \in Dates :
        Current(r, e) /\ decisions' = [decisions EXCEPT ![e] = D(r)] /\ todo' = todo \ {r}
  BY DEF CloseDecision
<1>3. /\ r \in loaded /\ r \in Rows /\ RowDate(r, e) /\ LagSafe(r, e)
      /\ \A q \in loaded \ {r} : \A x \in Dates : RowDate(q, x) => x # e
  BY <1>2, CurrentFacts DEF IInv
<1>4. /\ signature \in Configs /\ outcome \in Outcomes /\ rules \in Configs
      /\ outcome = Decide[rules, r.content]
  BY <1>1, <1>2 DEF IInv, DraftInv
<1>5. D(r) \in Decisions
  BY <1>3, <1>4 DEF Decisions
<1>6. /\ decisions' \in [Dates -> Decisions \cup {Absent, Torn}]
      /\ \A x \in Dates : decisions'[x] = IF x = e THEN D(r) ELSE decisions[x]
      /\ D(r) \notin {Absent, Torn}
  BY <1>2, <1>5, RuntimeAssumption DEF IInv, TypeOK
<1>7. \A q, x : RowDate(q, x)' <=> RowDate(q, x)
  BY <1>1 DEF RowDate
<1>8. D(r).row = r /\ D(r).config_signature = signature /\ D(r).outcome = outcome
  OBVIOUS
<1> HIDE DEF D
<1>9. TypeOK'
  BY <1>1, <1>2, <1>6 DEF IInv, TypeOK, Stages
<1>10. PlanInv' /\ DraftInv'
  BY <1>1, <1>4, <1>7 DEF IInv, PlanInv, DraftInv
<1>11. DoneRowsKept'
  <2> SUFFICES ASSUME NEW q \in loaded \ todo'
               PROVE  \E x \in Dates : RowDate(q, x) /\ decisions'[x] \notin {Absent, Torn}
                                        /\ decisions'[x].row = q
    BY <1>1, <1>7 DEF DoneRowsKept
  <2>1. CASE q = r
    BY <2>1, <1>3, <1>6, <1>8
  <2>2. CASE q # r
    <3>1. q \in loaded \ todo
      BY <2>2, <1>2
    <3>2. PICK x \in Dates : RowDate(q, x) /\ decisions[x] \notin {Absent, Torn}
                              /\ decisions[x].row = q
      BY <3>1 DEF IInv, DoneRowsKept
    <3>3. x # e
      BY <2>2, <3>1, <3>2, <1>3
    <3> QED
      BY <3>2, <3>3, <1>6
  <2> QED
    BY <2>1, <2>2
<1>12. OneRuleSet'
  <2> SUFFICES ASSUME NEW q \in loaded \ todo', NEW x \in Dates, RowDate(q, x)
               PROVE  decisions'[x].outcome = Decide[rules, q.content]
    BY <1>1, <1>7 DEF OneRuleSet
  <2>1. CASE q = r
    <3>1. x = e
      BY <2>1, <1>3, DateUnique
    <3> QED
      BY <2>1, <3>1, <1>4, <1>6, <1>8
  <2>2. CASE q # r
    <3>1. q \in loaded \ todo /\ x # e
      BY <2>2, <1>2, <1>3
    <3> QED
      BY <3>1, <1>6 DEF IInv, OneRuleSet
  <2> QED
    BY <2>1, <2>2
<1>13. NoLookAhead'
  BY <1>3, <1>6, <1>8 DEF IInv, NoLookAhead, LagSafe
<1>14. TraceInv'
  <2> SUFFICES ASSUME ~EditsDuringRun
               PROVE  rules' = agents_yaml' /\ Traceable'
    BY <1>1 DEF TraceInv
  <2>1. rules = agents_yaml /\ signature = rules /\ Traceable
    BY <1>1 DEF IInv, TraceInv
  <2>2. Traceable'
    BY <2>1, <1>4, <1>6, <1>8 DEF Traceable
  <2> QED
    BY <2>1, <2>2, <1>1
<1> QED
  BY <1>9, <1>10, <1>11, <1>12, <1>13, <1>14 DEF IInv

LEMMA StutterStep ==
    ASSUME IInv, UNCHANGED vars
    PROVE  IInv'
<1>1. UNCHANGED <<agents_yaml, features, decisions, stage, asked, rules, loaded, todo,
                  signature, outcome, edits, faults>>
  BY DEF vars, files, work, counters
<1>2. TypeOK'
  BY <1>1 DEF IInv, TypeOK
<1>3. PlanInv' /\ DraftInv'
  BY <1>1 DEF IInv, PlanInv, DraftInv, RowDate, Current
<1>4. DoneRowsKept' /\ OneRuleSet' /\ NoLookAhead'
  BY <1>1 DEF IInv, DoneRowsKept, OneRuleSet, NoLookAhead, RowDate
<1>5. TraceInv'
  BY <1>1 DEF IInv, TraceInv, Traceable
<1> QED
  BY <1>2, <1>3, <1>4, <1>5 DEF IInv

LEMMA IInvariance == Spec => []IInv
<1>1. IInv /\ [Next]_vars => IInv'
  BY EndStep, WorldStep, StartStep, LoadStep, SignStep, VoteStep, OpenStep, CloseStep,
     StutterStep DEF Next, Run
<1> QED
  BY InitIInv, <1>1, PTL DEF Spec

-----------------------------------------------------------------------------
(* The decision files that are torn and that nobody is writing. *)

Lost ==
    {d \in Dates : decisions[d] = Torn /\ ~(stage = "write" /\ \E r \in todo : Current(r, d))}

LEMMA LostSize ==
    /\ IsFiniteSet(Dates)
    /\ \A S \in SUBSET Dates : IsFiniteSet(S) /\ Cardinality(S) \in Nat
    /\ \A S, T \in SUBSET Dates : S \subseteq T => Cardinality(S) <= Cardinality(T)
    /\ \A T \in SUBSET Dates : \A e \in Dates : Cardinality(T \cup {e}) <= Cardinality(T) + 1
<1>1. IsFiniteSet(Dates)
  BY FS_Interval, RuntimeAssumption DEF Dates
<1>2. \A S \in SUBSET Dates : IsFiniteSet(S) /\ Cardinality(S) \in Nat
  BY <1>1, FS_Subset, FS_CardinalityType
<1>3. \A S, T \in SUBSET Dates : S \subseteq T => Cardinality(S) <= Cardinality(T)
  BY <1>2, FS_Subset
<1>4. ASSUME NEW T \in SUBSET Dates, NEW e \in Dates
      PROVE  Cardinality(T \cup {e}) <= Cardinality(T) + 1
  <2>1. IsFiniteSet(T) /\ Cardinality(T) \in Nat
    BY <1>2
  <2>2. Cardinality(T \cup {e}) = IF e \in T THEN Cardinality(T) ELSE Cardinality(T) + 1
    BY <2>1, FS_AddElement
  <2> QED
    BY <2>1, <2>2
<1> QED
  BY <1>1, <1>2, <1>3, <1>4

\* Only an interrupted write adds a file to the lost ones.
LEMMA LostStep ==
    ASSUME IInv, [Next]_vars
    PROVE  \/ Lost' \subseteq Lost /\ faults' = faults
           \/ faults' = faults + 1 /\ \E e \in Dates : Lost' \subseteq Lost \cup {e}
           \/ faults' = faults + 1 /\ Lost' \subseteq Lost
<1>1. CASE UNCHANGED <<decisions, stage, todo, asked, faults>>
  BY <1>1 DEF Lost, Current, RowDate
<1>2. CASE decisions' = decisions /\ faults' = faults /\ stage # "write"
  BY <1>2 DEF Lost
<1>3. CASE Interrupt
  <2>1. decisions' = decisions /\ stage' = "idle" /\ faults' = faults + 1
    BY <1>3 DEF Interrupt, End, files
  <2>2. CASE \E r \in todo, e \in Dates : Current(r, e)
    <3>1. PICK r \in todo, e \in Dates : Current(r, e)
      BY <2>2
    <3>2. \A q \in todo, x \in Dates : Current(q, x) => x = e
      BY <3>1, CurrentUnique DEF IInv
    <3>3. Lost' \subseteq Lost \cup {e}
      BY <2>1, <3>2 DEF Lost
    <3> QED
      BY <2>1, <3>3
  <2>3. CASE ~\E r \in todo, e \in Dates : Current(r, e)
    BY <2>1, <2>3 DEF Lost
  <2> QED
    BY <2>2, <2>3
<1>4. CASE OpenDecision
  <2>1. PICK r \in todo, e \in Dates :
          Current(r, e) /\ decisions' = [decisions EXCEPT ![e] = Torn]
    BY <1>4 DEF OpenDecision
  <2>2. /\ stage = "persist" /\ stage' = "write" /\ todo' = todo /\ faults' = faults
        /\ \A q, x : Current(q, x)' <=> Current(q, x)
    BY <1>4 DEF OpenDecision, Current, RowDate, work, counters
  <2>3. \A x \in Dates \ {e} : decisions'[x] = decisions[x]
    BY <2>1 DEF IInv, TypeOK
  <2> QED
    BY <2>1, <2>2, <2>3 DEF Lost
<1>5. CASE CloseDecision
  <2>1. PICK r \in todo, e \in Dates :
          /\ Current(r, e)
          /\ decisions' = [decisions EXCEPT ![e] =
                 [row |-> r, config_signature |-> signature, outcome |-> outcome]]
    BY <1>5 DEF CloseDecision
  <2>2. stage = "write" /\ stage' # "write" /\ faults' = faults
    BY <1>5 DEF CloseDecision, counters
  <2>3. /\ signature \in Configs /\ outcome \in Outcomes /\ r \in Rows
    BY <2>1, <2>2, CurrentFacts DEF IInv, DraftInv
  <2>4. decisions'[e] # Torn /\ \A x \in Dates \ {e} : decisions'[x] = decisions[x]
    BY <2>1, <2>3, RuntimeAssumption DEF IInv, TypeOK, Decisions
  <2>5. \A q \in todo, x \in Dates : Current(q, x) => x = e
    BY <2>1, CurrentUnique DEF IInv
  <2> QED
    BY <2>2, <2>4, <2>5 DEF Lost
<1>6. CASE LoadRows \/ LoadFails \/ Sign \/ SignFails \/ Vote \/ VoteFails \/ Finish
  <2>1. decisions' = decisions /\ faults' = faults /\ stage # "write" /\ stage' # "write"
    BY <1>6 DEF LoadRows, LoadFails, Sign, SignFails, Vote, VoteFails, Finish, End, files, counters
  <2> QED
    BY <2>1 DEF Lost
<1>7. ASSUME NEW d \in Dates \cup {Null}, Start(d)
      PROVE  decisions' = decisions /\ faults' = faults /\ stage # "write" /\ stage' # "write"
  BY <1>7 DEF Start, files, counters
<1>8. CASE EditAgents \/ BuildFeatures \/ UNCHANGED vars
  BY <1>1, <1>8 DEF EditAgents, BuildFeatures, vars, files, work, counters
<1> QED
  BY <1>2, <1>3, <1>4, <1>5, <1>6, <1>7, <1>8 DEF Next, Run, Lost

LEMMA LostInvariance == Spec => []InterruptLosesOne
<1>1. Init => InterruptLosesOne
  <2> SUFFICES ASSUME Init PROVE InterruptLosesOne
    OBVIOUS
  <2>1. Lost = {}
    BY RuntimeAssumption DEF Init, Lost
  <2> QED
    BY <2>1, FS_EmptySet DEF Init, InterruptLosesOne, Lost
<1>2. IInv /\ InterruptLosesOne /\ [Next]_vars => InterruptLosesOne'
  <2> SUFFICES ASSUME IInv, InterruptLosesOne, [Next]_vars PROVE InterruptLosesOne'
    OBVIOUS
  <2>1. Cardinality(Lost) <= faults
    BY DEF InterruptLosesOne, Lost
  <2>2. Lost \in SUBSET Dates /\ Lost' \in SUBSET Dates /\ faults \in Nat
    BY RuntimeAssumption DEF Lost, IInv, TypeOK, Dates
  <2>3. Cardinality(Lost') <= faults'
    <3>1. Cardinality(Lost') \in Nat /\ Cardinality(Lost) \in Nat
      BY <2>2, LostSize
    <3>2. CASE Lost' \subseteq Lost /\ faults' \in {faults, faults + 1}
      BY <2>1, <2>2, <3>1, <3>2, LostSize
    <3>3. CASE faults' = faults + 1 /\ \E e \in Dates : Lost' \subseteq Lost \cup {e}
      <4>1. PICK e \in Dates : Lost' \subseteq Lost \cup {e}
        BY <3>3
      <4>2. Lost \cup {e} \in SUBSET Dates
        BY <2>2
      <4>3. Cardinality(Lost') <= Cardinality(Lost \cup {e}) /\ Cardinality(Lost \cup {e}) \in Nat
        BY <2>2, <4>1, <4>2, LostSize
      <4>4. Cardinality(Lost \cup {e}) <= Cardinality(Lost) + 1
        BY <2>2, LostSize
      <4> QED
        BY <2>1, <2>2, <3>1, <3>3, <4>3, <4>4
    <3> QED
      BY <3>2, <3>3, LostStep
  <2> QED
    BY <2>3 DEF InterruptLosesOne, Lost
<1> QED
  BY <1>1, <1>2, IInvariance, PTL DEF Spec

-----------------------------------------------------------------------------
(* The two commands. *)

\* Between trading days, the next one of the previous one is where it began.
LEMMA NextPrevious ==
    ASSUME NEW d \in TradingDays, NEW e \in TradingDays
    PROVE  IsNext(d, e) <=> IsPrevious(e, d)
<1>1. TradingDays \subseteq Int
  BY RuntimeAssumption DEF Dates
<1> QED
  BY <1>1 DEF IsNext, IsPrevious

LEMMA SameRow ==
    ASSUME TypeOK
    PROVE  CommandsAgree
<1> SUFFICES ASSUME features # Unreadable, Runnable(features),
                    \A r \in features.rows :
                        IF features.has_decision_date THEN r.decision_date # Null
                        ELSE r.as_of_date \in TradingDays,
                    NEW r \in features.rows, NEW e \in Dates, DecidedOn(r, e)
             PROVE  Matching(features, e) = {r}
  BY DEF CommandsAgree
<1>1. features \in FeatureFiles
  BY DEF TypeOK
<1>2. \A q \in features.rows : DecidedOn(q, e) => q = r
  BY DEF Runnable
<1>3. CASE features.has_decision_date
  <2>1. \A q \in features.rows : DecidedOn(q, e) <=> q.decision_date = e
    BY <1>3 DEF DecidedOn
  <2>2. Matching(features, e) = {q \in features.rows : q.decision_date = e}
    BY <1>3 DEF Matching
  <2> QED
    BY <1>2, <2>1, <2>2
<1>4. CASE ~features.has_decision_date
  <2>1. \A q \in features.rows : q.decision_date = Null
    BY <1>1, <1>4, RuntimeAssumption
  <2>2. \A q \in features.rows : DecidedOn(q, e) <=> IsNext(q.as_of_date, e)
    BY <2>1 DEF DecidedOn
  <2>3. e \in TradingDays
    BY <2>2 DEF IsNext
  <2>4. \A q \in features.rows : DecidedOn(q, e) <=> IsPrevious(e, q.as_of_date)
    BY <1>4, <2>2, <2>3, NextPrevious
  <2>5. Matching(features, e) = {q \in features.rows : IsPrevious(e, q.as_of_date)}
    BY <1>4 DEF Matching
  <2> QED
    BY <1>2, <2>4, <2>5
<1> QED
  BY <1>3, <1>4

-----------------------------------------------------------------------------
(* Every command ends: its steps are counted down. *)

\* A row takes four steps; a command loads no more rows than there are dates.
StepsLeft ==
    CASE stage = "idle" -> 0
      [] stage = "load" -> 4 * MaxDate + 2
      [] stage = "sign" -> 4 * Cardinality(todo) + 1
      [] stage = "vote" -> 4 * Cardinality(todo)
      [] stage = "persist" -> 4 * Cardinality(todo) - 1
      [] stage = "write" -> 4 * Cardinality(todo) - 2
      [] stage = "done" -> 1

Counted == StepsLeft \in 0 .. 4 * MaxDate + 2 /\ (StepsLeft = 0 <=> stage = "idle")

\* While the command works on a row there is one.
Busy == stage \in {"sign", "vote", "persist", "write"} => todo # {}

\* A command takes no more steps than this, each of its own steps leaves it fewer, and
\* nothing but another command gives it more.
RunsCountDown ==
    /\ []Counted
    /\ [][/\ Run => StepsLeft' < StepsLeft
          /\ ~(\E d \in Dates \cup {Null} : Start(d)) => StepsLeft' <= StepsLeft]_vars

LEMMA BusyStep ==
    ASSUME IInv, Busy, [Next]_vars
    PROVE  Busy'
<1>1. CASE stage' \notin {"sign", "vote", "persist", "write"}
  BY <1>1 DEF Busy
<1>2. CASE LoadRows
  <2>1. PICK rs \in Selected(features) : todo' = rs
    BY <1>2 DEF LoadRows
  <2>2. rs # {}
    BY <2>1 DEF Selected, Runnable
  <2> QED
    BY <2>1, <2>2 DEF Busy
<1>3. CASE CloseDecision
  BY <1>3 DEF CloseDecision, Busy
<1>4. CASE Sign \/ Vote \/ OpenDecision \/ EditAgents \/ BuildFeatures \/ UNCHANGED vars
  BY <1>4 DEF Sign, Vote, OpenDecision, EditAgents, BuildFeatures, Busy, work, vars
<1> QED
  BY <1>1, <1>2, <1>3, <1>4
     DEF Next, Run, Start, End, LoadFails, SignFails, VoteFails, Finish, Interrupt

\* Rows with a date each, and no two with the same, are no more than the dates.
LEMMA TodoSize ==
    ASSUME TypeOK, PlanInv
    PROVE  /\ IsFiniteSet(todo) /\ Cardinality(todo) \in 0 .. MaxDate
           /\ Cardinality(todo) = 0 <=> todo = {}
           /\ \A r \in todo : Cardinality(todo \ {r}) = Cardinality(todo) - 1
<1>1. todo \subseteq loaded /\ MaxDate \in Nat
  BY RuntimeAssumption DEF TypeOK
<1>2. IsFiniteSet(Dates) /\ Cardinality(Dates) = MaxDate
  BY <1>1, FS_Interval DEF Dates
<1> DEFINE f == [r \in todo |-> CHOOSE e \in Dates : RowDate(r, e)]
<1>3. \A r \in todo : f[r] \in Dates /\ RowDate(r, f[r])
  BY <1>1 DEF PlanInv
<1>4. \A r, q \in todo : f[r] = f[q] => r = q
  BY <1>1, <1>3 DEF PlanInv
<1>5. f \in [todo -> Dates]
  BY <1>3
<1> HIDE DEF f
<1>6. f \in Injection(todo, Dates)
  BY <1>4, <1>5 DEF Injection, IsInjective
<1>7. IsFiniteSet(todo) /\ Cardinality(todo) <= MaxDate
  BY <1>2, <1>6, FS_Injection
<1>8. Cardinality(todo) \in Nat /\ (Cardinality(todo) = 0 <=> todo = {})
  BY <1>7, FS_CardinalityType, FS_EmptySet
<1>9. \A r \in todo : Cardinality(todo \ {r}) = Cardinality(todo) - 1
  BY <1>7, FS_RemoveElement
<1> QED
  BY <1>1, <1>7, <1>8, <1>9

TodoBound == Cardinality(todo) \in 0 .. MaxDate

LEMMA TodoNext == IInv' => TodoBound'
<1>1. IInv => TodoBound
  BY TodoSize DEF IInv, TodoBound
<1> QED
  BY <1>1, PTL

LEMMA StepsCounted == IInv /\ Busy => Counted
<1> SUFFICES ASSUME IInv, Busy PROVE Counted
  OBVIOUS
<1>1. stage \in Stages /\ MaxDate \in Nat
  BY RuntimeAssumption DEF IInv, TypeOK
<1>2. Cardinality(todo) \in 0 .. MaxDate /\ (todo # {} => Cardinality(todo) # 0)
  BY TodoSize DEF IInv
<1>3. CASE stage \in {"sign", "vote", "persist", "write"}
  <2>1. Cardinality(todo) \in 1 .. MaxDate
    BY <1>2, <1>3 DEF Busy
  <2> QED
    BY <1>1, <1>3, <2>1 DEF Counted, StepsLeft
<1>4. CASE stage \in {"idle", "load", "done"}
  BY <1>1, <1>4 DEF Counted, StepsLeft
<1> QED
  BY <1>1, <1>3, <1>4 DEF Stages

LEMMA StepsCountedNext == (IInv /\ Busy)' => Counted'
BY StepsCounted, PTL

LEMMA RunCounts ==
    ASSUME IInv, Busy, IInv', Busy', Run
    PROVE  StepsLeft' < StepsLeft
<1>1. /\ StepsLeft \in Nat /\ StepsLeft' \in Nat
      /\ StepsLeft = 0 <=> stage = "idle"
      /\ StepsLeft' = 0 <=> stage' = "idle"
  BY StepsCounted, StepsCountedNext, RuntimeAssumption DEF Counted
<1>2. /\ Cardinality(todo) \in Nat /\ MaxDate \in Nat
      /\ \A r \in todo : Cardinality(todo \ {r}) = Cardinality(todo) - 1
  BY TodoSize, RuntimeAssumption DEF IInv
<1>3. CASE stage # "idle" /\ stage' = "idle"
  BY <1>1, <1>3
<1>4. CASE LoadRows
  <2>1. stage = "load" /\ stage' = "sign" /\ MaxDate' = MaxDate
    BY <1>4 DEF LoadRows
  <2>2. Cardinality(todo') \in 0 .. MaxDate
    BY TodoNext DEF TodoBound
  <2>3. StepsLeft = 4 * MaxDate + 2 /\ StepsLeft' = 4 * Cardinality(todo') + 1
    BY <2>1 DEF StepsLeft
  <2> QED
    BY <1>2, <2>2, <2>3
<1>5. CASE Sign \/ Vote \/ OpenDecision
  <2>1. /\ todo' = todo
        /\ \/ stage = "sign" /\ stage' = "vote"
           \/ stage = "vote" /\ stage' = "persist"
           \/ stage = "persist" /\ stage' = "write"
    BY <1>5 DEF Sign, Vote, OpenDecision, work
  <2> QED
    BY <1>2, <2>1 DEF StepsLeft
<1>6. CASE CloseDecision
  <2>1. PICK r \in todo : todo' = todo \ {r}
    BY <1>6 DEF CloseDecision
  <2>2. stage = "write" /\ stage' = IF todo' = {} THEN "done" ELSE "sign"
    BY <1>6 DEF CloseDecision
  <2>3. StepsLeft = 4 * Cardinality(todo) - 2
    BY <2>2 DEF StepsLeft
  <2>4. Cardinality(todo') = Cardinality(todo) - 1 /\ Cardinality(todo) # 0
    BY <1>2, <2>1, <2>2, TodoSize DEF IInv
  <2>5. StepsLeft' \in {1, 4 * Cardinality(todo') + 1}
    BY <2>2 DEF StepsLeft
  <2> QED
    BY <1>2, <2>3, <2>4, <2>5
<1> QED
  BY <1>3, <1>4, <1>5, <1>6
     DEF Run, End, LoadFails, SignFails, VoteFails, Finish

LEMMA CountInvariance == Spec => [](IInv /\ Busy)
<1>1. Init => Busy
  BY DEF Init, Busy
<1>2. IInv /\ Busy /\ [Next]_vars => Busy'
  BY BusyStep
<1> QED
  BY <1>1, <1>2, IInvariance, PTL DEF Spec

-----------------------------------------------------------------------------

\* The types of the runtime's state.
THEOREM TypeCorrect == Spec => []TypeOK
<1>1. IInv => TypeOK
  BY DEF IInv
<1> QED
  BY <1>1, IInvariance, PTL

\* No decision is ever made from data of its own day or later.
THEOREM NeverLooksAhead == Spec => []NoLookAhead
<1>1. IInv => NoLookAhead
  BY DEF IInv
<1> QED
  BY <1>1, IInvariance, PTL

\* A command keeps the decision of each row it is done with until it ends.
THEOREM KeepsDoneRows == Spec => []DoneRowsKept
<1>1. IInv => DoneRowsKept
  BY DEF IInv
<1> QED
  BY <1>1, IInvariance, PTL

\* Edits of agents.yaml never mix two sets of rules in one command.
THEOREM DecidesByOneRuleSet == Spec => []OneRuleSet
<1>1. IInv => OneRuleSet
  BY DEF IInv
<1> QED
  BY <1>1, IInvariance, PTL

\* Decisions are traceable when agents.yaml is only edited between commands: the
\* edit under a running command is the only thing that breaks it.
THEOREM TraceableWithoutEdits == ASSUME ~EditsDuringRun PROVE Spec => []Traceable
<1>1. IInv => Traceable
  BY DEF IInv, TraceInv
<1> QED
  BY <1>1, IInvariance, PTL

\* A kill or a failed write costs one decision at most: no other file is ever torn but
\* the one being written.
THEOREM LosesOneDecision == Spec => []InterruptLosesOne
BY LostInvariance

\* For features of trading days, run-scenario decides a date of the run on the very row
\* the run decides it on.
THEOREM CommandsDecideAlike == Spec => []CommandsAgree
<1>1. IInv => CommandsAgree
  BY SameRow DEF IInv
<1> QED
  BY <1>1, IInvariance, PTL

\* A command ends, after four steps for each date and two more at most.
THEOREM CommandsCountDown == Spec => RunsCountDown
<1>1. IInv /\ Busy => Counted
  BY StepsCounted
<1>2. ASSUME IInv, Busy, IInv', Busy', [Next]_vars
      PROVE  /\ Run => StepsLeft' < StepsLeft
             /\ ~(\E d \in Dates \cup {Null} : Start(d)) => StepsLeft' <= StepsLeft
  <2>1. /\ StepsLeft \in Nat /\ StepsLeft' \in Nat
        /\ stage' = "idle" => StepsLeft' = 0
    BY <1>2, StepsCounted, StepsCountedNext, RuntimeAssumption DEF Counted
  <2>2. Run => StepsLeft' < StepsLeft
    BY <1>2, RunCounts
  <2>3. Interrupt => StepsLeft' <= StepsLeft
    BY <2>1 DEF Interrupt, End
  <2>4. EditAgents \/ BuildFeatures \/ UNCHANGED vars => StepsLeft' = StepsLeft
    BY DEF EditAgents, BuildFeatures, vars, work, StepsLeft
  <2> QED
    BY <1>2, <2>1, <2>2, <2>3, <2>4 DEF Next
<1>3. IInv /\ Busy /\ (IInv /\ Busy)' =>
         [/\ Run => StepsLeft' < StepsLeft
          /\ ~(\E d \in Dates \cup {Null} : Start(d)) => StepsLeft' <= StepsLeft]_vars
         \/ ~[Next]_vars
  BY <1>2
<1> QED
  BY <1>1, <1>3, CountInvariance, PTL DEF Spec, RunsCountDown

=============================================================================
