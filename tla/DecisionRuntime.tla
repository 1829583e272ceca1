-------------------------- MODULE DecisionRuntime --------------------------
(***************************************************************************)
(* The decision runtime: the commands run and run-scenario                 *)
(* (core/.../runtime/service.py, scenario.py, adapters.py).                *)
(*                                                                         *)
(* A command loads the agents' rules, loads the feature rows, and then for *)
(* each row in the order of its decision date reads the signature of the   *)
(* rules, lets the five agents vote, aggregates, and writes the decision   *)
(* file of that date.  Meanwhile somebody may edit agents.yaml or rebuild  *)
(* the features, the process may be killed, and a decision file, which is  *)
(* truncated and then written, may be left empty.                          *)
(***************************************************************************)
EXTENDS Integers, FiniteSets

CONSTANTS
    MaxDate,         \* dates are 1 .. MaxDate
    TradingDays,     \* the dates on which the exchange is open
    Contents,        \* the feature values a row may hold
    Voteless,        \* those for which some agent's adapter raises
    Configs,         \* what agents.yaml may say
    Outcomes,        \* the votes, score and label of a decision
    Decide,          \* the outcome the rules of a config give to feature values
    FeatureFiles,    \* what the features parquet may hold
    Unreadable,      \* a file that does not load
    Null,            \* no value
    Absent,          \* no decision file
    Torn,            \* a decision file whose write did not end
    EditsDuringRun,  \* whether agents.yaml is edited while a command runs
    MaxEdits,        \* bound: edits of agents.yaml
    MaxFaults        \* bound: kills and failed writes

Dates == 1 .. MaxDate

Rows == [as_of_date : Dates, decision_date : Dates \cup {Null}, content : Contents]

\* All rows of a parquet file have the same columns.
Features == [has_decision_date : BOOLEAN, forbidden_columns : BOOLEAN, rows : SUBSET Rows]

\* A decision names the row it is about (snapshot_id is a hash of the row) and the
\* rules it was made by (config_signature is a hash of agents.yaml).
Decisions == [row : Rows, config_signature : Configs, outcome : Outcomes]

ASSUME RuntimeAssumption ==
    /\ MaxDate \in Nat
    /\ TradingDays \subseteq Dates
    /\ Voteless \subseteq Contents
    /\ Decide \in [Configs \X Contents -> Outcomes]
    /\ FeatureFiles \subseteq Features
    /\ \A f \in FeatureFiles : \A r \in f.rows :
            ~f.has_decision_date => r.decision_date = Null
    /\ Unreadable \notin Configs /\ Unreadable \notin FeatureFiles
    /\ Null \notin Dates
    /\ Absent \notin Decisions /\ Torn \notin Decisions /\ Absent # Torn
    /\ EditsDuringRun \in BOOLEAN
    /\ MaxEdits \in Nat /\ MaxFaults \in Nat

VARIABLES
    agents_yaml, features, decisions,  \* the files
    stage,     \* where the command is
    asked,     \* the date run-scenario was asked for, Null for run
    rules,     \* the rules that were loaded
    loaded,    \* the rows that were loaded
    todo,      \* those whose decision file is not written yet
    signature, \* the signature given to the current row's decision
    outcome,   \* the current row's outcome
    edits, faults

files == <<agents_yaml, features, decisions>>
work == <<asked, rules, loaded, todo, signature, outcome>>
counters == <<edits, faults>>
vars == <<files, stage, work, counters>>

Stages == {"idle", "load", "sign", "vote", "persist", "write", "done"}

-----------------------------------------------------------------------------
(* The calendar and the choice of rows. *)

IsNext(d, e) == e \in TradingDays /\ d < e /\ \A x \in TradingDays : d < x => e <= x

\* Mutant of IsPrevious: the day before, open or not.
IsDayBefore(d, e) == e = d - 1

IsPrevious(d, e) == e \in TradingDays /\ e < d /\ \A x \in TradingDays : x < d => x <= e

\* e is the decision date of row r: the one it carries, or the next trading day.
DecidedOn(r, e) ==
    IF r.decision_date # Null THEN e = r.decision_date ELSE IsNext(r.as_of_date, e)

\* Mutant of LagSafe: only the join check, which lets the day itself pass.
NotFromFuture(r, e) == r.as_of_date <= e

LagSafe(r, e) == r.as_of_date < e

\* Mutant of Runnable: two rows may have one date.
RunnableTwice(f) ==
    /\ f.rows # {} /\ ~f.forbidden_columns
    /\ \A r \in f.rows : \E e \in Dates : DecidedOn(r, e) /\ LagSafe(r, e)

\* run: every row has a date, is lag safe, and no two rows have the same date.
Runnable(f) ==
    /\ f.rows # {} /\ ~f.forbidden_columns
    /\ \A r \in f.rows : \E e \in Dates : DecidedOn(r, e) /\ LagSafe(r, e)
    /\ \A r, q \in f.rows : \A e \in Dates : DecidedOn(r, e) /\ DecidedOn(q, e) => r = q

\* run-scenario: the rows that match the date, by their own date or by the previous
\* trading day.
Matching(f, e) ==
    IF f.rows # {} /\ f.has_decision_date
      THEN {r \in f.rows : r.decision_date = e}
      ELSE {r \in f.rows : IsPrevious(e, r.as_of_date)}

\* What run_kospi_snapshot loads (asked = Null), or run_kospi_scenario for a date;
\* no set at all where the code raises.
Selected(f) ==
    IF asked = Null
      THEN {rs \in {f.rows} : Runnable(f)}
      ELSE {{r} : r \in {r \in Matching(f, asked) :
                            /\ Matching(f, asked) = {r}
                            /\ LagSafe(r, asked) /\ ~f.forbidden_columns}}

\* The date the decision of row r is made for in this command.
RowDate(r, e) == IF asked = Null THEN DecidedOn(r, e) ELSE e = asked

\* The row that comes next, and its date.
Current(r, e) ==
    /\ r \in todo /\ RowDate(r, e)
    /\ \A q \in todo : \A x \in Dates : RowDate(q, x) => e <= x

-----------------------------------------------------------------------------

TypeOK ==
    /\ agents_yaml \in Configs \cup {Unreadable}
    /\ features \in FeatureFiles \cup {Unreadable}
    /\ decisions \in [Dates -> Decisions \cup {Absent, Torn}]
    /\ stage \in Stages
    /\ asked \in Dates \cup {Null}
    /\ rules \in Configs \cup {Null}
    /\ loaded \in SUBSET Rows /\ todo \in SUBSET loaded
    /\ signature \in Configs \cup {Null}
    /\ outcome \in Outcomes \cup {Null}
    /\ edits \in 0 .. MaxEdits /\ faults \in 0 .. MaxFaults

Init ==
    /\ agents_yaml \in Configs
    /\ features \in FeatureFiles \cup {Unreadable}
    /\ decisions = [d \in Dates |-> Absent]
    /\ stage = "idle" /\ asked = Null
    /\ rules = Null /\ loaded = {} /\ todo = {}
    /\ signature = Null /\ outcome = Null
    /\ edits = 0 /\ faults = 0

\* The command is over and forgets everything; the files stay.
End ==
    /\ stage' = "idle" /\ asked' = Null
    /\ rules' = Null /\ loaded' = {} /\ todo' = {}
    /\ signature' = Null /\ outcome' = Null

\* run (d = Null) or run-scenario --decision-date d, up to the load of the rules.
Start(d) ==
    /\ stage = "idle" /\ agents_yaml \in Configs
    /\ stage' = "load"
    /\ asked' = d
    /\ rules' = agents_yaml
    /\ UNCHANGED <<files, loaded, todo, signature, outcome, counters>>

LoadRows ==
    /\ stage = "load" /\ features # Unreadable
    /\ \E rs \in Selected(features) : loaded' = rs /\ todo' = rs
    /\ stage' = "sign"
    /\ UNCHANGED <<files, asked, rules, signature, outcome, counters>>

LoadFails ==
    /\ stage = "load"
    /\ features # Unreadable => Selected(features) = {}
    /\ End
    /\ UNCHANGED <<files, counters>>

\* Mutant of Sign: the agents are built without a signature.
SignNothing ==
    /\ stage = "sign" /\ agents_yaml # Unreadable
    /\ stage' = "vote"
    /\ UNCHANGED <<files, work, counters>>

\* _build_agents reads agents.yaml again, for its signature only.
Sign ==
    /\ stage = "sign" /\ agents_yaml # Unreadable
    /\ signature' = agents_yaml
    /\ stage' = "vote"
    /\ UNCHANGED <<files, asked, rules, loaded, todo, outcome, counters>>

SignFails ==
    /\ stage = "sign" /\ agents_yaml = Unreadable
    /\ End
    /\ UNCHANGED <<files, counters>>

\* Mutant of Vote: the rules are loaded again for each row.
VoteByFile ==
    /\ stage = "vote" /\ agents_yaml # Unreadable
    /\ \E r \in todo, e \in Dates :
        /\ Current(r, e) /\ r.content \notin Voteless
        /\ outcome' = Decide[agents_yaml, r.content]
    /\ stage' = "persist"
    /\ UNCHANGED <<files, asked, rules, loaded, todo, signature, counters>>

\* The scenario's two steps: the votes by the rules that were loaded, the decision.
Vote ==
    /\ stage = "vote"
    /\ \E r \in todo, e \in Dates :
        Current(r, e) /\ r.content \notin Voteless /\ outcome' = Decide[rules, r.content]
    /\ stage' = "persist"
    /\ UNCHANGED <<files, asked, rules, loaded, todo, signature, counters>>

\* Mutant of VoteFails: the decision file is opened before the vote.
VoteFailsOpen ==
    /\ stage = "vote"
    /\ \E r \in todo, e \in Dates :
        /\ Current(r, e) /\ r.content \in Voteless
        /\ decisions' = [decisions EXCEPT ![e] = Torn]
    /\ End
    /\ UNCHANGED <<agents_yaml, features, counters>>

VoteFails ==
    /\ stage = "vote"
    /\ \E r \in todo, e \in Dates : Current(r, e) /\ r.content \in Voteless
    /\ End
    /\ UNCHANGED <<files, counters>>

\* write_text truncates the file that was there before it writes.
OpenDecision ==
    /\ stage = "persist"
    /\ \E r \in todo, e \in Dates :
        Current(r, e) /\ decisions' = [decisions EXCEPT ![e] = Torn]
    /\ stage' = "write"
    /\ UNCHANGED <<agents_yaml, features, work, counters>>

CloseDecision ==
    /\ stage = "write"
    /\ \E r \in todo, e \in Dates :
        /\ Current(r, e)
        /\ decisions' = [decisions EXCEPT ![e] =
                [row |-> r, config_signature |-> signature, outcome |-> outcome]]
        /\ todo' = todo \ {r}
    /\ stage' = IF todo' = {} THEN "done" ELSE "sign"
    /\ signature' = Null /\ outcome' = Null
    /\ UNCHANGED <<agents_yaml, features, asked, rules, loaded, counters>>

\* The command returns its results.
Finish ==
    /\ stage = "done"
    /\ End
    /\ UNCHANGED <<files, counters>>

\* The process is killed or the file cannot be written.
Interrupt ==
    /\ stage # "idle" /\ faults < MaxFaults
    /\ faults' = faults + 1
    /\ End
    /\ UNCHANGED <<files, edits>>

EditAgents ==
    /\ edits < MaxEdits
    /\ EditsDuringRun \/ stage = "idle"
    /\ agents_yaml' \in (Configs \cup {Unreadable}) \ {agents_yaml}
    /\ edits' = edits + 1
    /\ UNCHANGED <<features, decisions, stage, work, faults>>

\* build-features writes the file anew, and may leave it torn.
BuildFeatures ==
    /\ features' \in (FeatureFiles \cup {Unreadable}) \ {features}
    /\ UNCHANGED <<agents_yaml, decisions, stage, work, counters>>

Run ==
    \/ LoadRows \/ LoadFails \/ Sign \/ SignFails \/ Vote \/ VoteFails
    \/ OpenDecision \/ CloseDecision \/ Finish

Next ==
    \/ \E d \in Dates \cup {Null} : Start(d)
    \/ Run \/ Interrupt \/ EditAgents \/ BuildFeatures

Spec == Init /\ [][Next]_vars

-----------------------------------------------------------------------------
(* What the runtime guarantees. *)

\* No decision uses data of its own day or later, whatever the features hold and
\* whichever command made it (_assert_lag_safe_row, service.py:277-283).
NoLookAhead ==
    \A d \in Dates : decisions[d] \notin {Absent, Torn} => decisions[d].row.as_of_date < d

\* What a command has written it keeps to its end: each row it is done with has its
\* decision, under a date of its own (service.py:257-267 refuses two rows of one
\* date), so a command that returns has left no row out.
DoneRowsKept ==
    \A r \in loaded \ todo : \E e \in Dates :
        RowDate(r, e) /\ decisions[e] \notin {Absent, Torn} /\ decisions[e].row = r

\* All decisions of one command are made by one set of rules, even if agents.yaml
\* is edited in between (service.py:95 loads it once).
OneRuleSet ==
    \A r \in loaded \ todo : \A e \in Dates : RowDate(r, e) =>
        decisions[e].outcome = Decide[rules, r.content]

\* An interruption costs one decision at most: the torn files that nobody is
\* writing are no more than the faults.
InterruptLosesOne ==
    Cardinality({d \in Dates : decisions[d] = Torn
                    /\ ~(stage = "write" /\ \E r \in todo : Current(r, d))}) <= faults

\* run and run-scenario agree: for features of trading days, run-scenario decides a
\* date of the run on the very row the run decides it on.
CommandsAgree ==
    features # Unreadable /\ Runnable(features)
    /\ (\A r \in features.rows :
            IF features.has_decision_date THEN r.decision_date # Null
            ELSE r.as_of_date \in TradingDays)
        => \A r \in features.rows, e \in Dates :
                DecidedOn(r, e) => Matching(features, e) = {r}

\* A decision is traceable (spec.md:793): the rules its signature names, applied to
\* the row it names, give the outcome it has.
Traceable ==
    \A d \in Dates : decisions[d] \notin {Absent, Torn} =>
        decisions[d].outcome =
            Decide[decisions[d].config_signature, decisions[d].row.content]

=============================================================================
