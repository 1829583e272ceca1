------------------------- MODULE MCDecisionRuntime -------------------------
EXTENDS DecisionRuntime

CONSTANTS c1, c2, x1, x2, bad

\* Two configs that disagree on x1 and agree on x2.
MCDecide ==
    [p \in Configs \X Contents |-> IF p = <<c2, x1>> THEN "down" ELSE "up"]

Gold(as_of, x) == [as_of_date |-> as_of, decision_date |-> Null, content |-> x]

Dated(as_of, d, x) == [as_of_date |-> as_of, decision_date |-> d, content |-> x]

File(rs) == [has_decision_date |-> FALSE, forbidden_columns |-> FALSE, rows |-> rs]

DatedFile(rs) == [has_decision_date |-> TRUE, forbidden_columns |-> FALSE, rows |-> rs]

\* Day 3 is a holiday, so the row of day 2 is decided on day 4.
MCFeatureFiles == {
    File({Gold(1, x1), Gold(2, x1)}),                \* what Gold builds
    File({Gold(1, x1), Gold(2, bad)}),               \* a feature is missing
    File({Gold(2, x1), Gold(3, x2)}),                \* two rows of one decision date
    DatedFile({Dated(1, 2, x2), Dated(4, 4, x1)}),   \* a row of the day itself
    DatedFile({Dated(1, 4, x2)})}                   \* what a backtest writes

=============================================================================
