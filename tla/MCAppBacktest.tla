---------------------------- MODULE MCAppBacktest ----------------------------
EXTENDS AppBacktest

CONSTANTS c1, c2, x1, x2, bad

\* Two configs that disagree on x1 and agree on x2.
MCDecide ==
    [p \in Configs \X Contents |->
        IF p[2] = x2 THEN "skip" ELSE IF p[1] = c1 THEN "up" ELSE "down"]

Gold(d, x) == [as_of_date |-> d, decision_date |-> Null, content |-> x]

\* Day 3 is a holiday, so day 4 follows day 2.
MCGoldFiles == {
    {Gold(1, x1), Gold(2, x2), Gold(4, x1)},   \* what Gold builds
    {Gold(2, x1), Gold(4, bad)},               \* a feature is missing
    {Gold(1, x1)}}                             \* one day

MCMove ==
    [p \in Positive \X Positive |->
        IF p[1] < p[2] THEN "up" ELSE IF p[1] > p[2] THEN "down" ELSE "flat"]

Closes(a, b, c, d) == <<a, b, Absent, c, d>>

MCCloseFiles == {
    Closes(1, 2, 1, 0),            \* one is not positive
    Closes(1, Absent, 2, 2)}       \* one is missing in between

=============================================================================
