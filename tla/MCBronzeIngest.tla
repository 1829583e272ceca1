--------------------------- MODULE MCBronzeIngest ---------------------------
EXTENDS BronzeIngest

CONSTANTS c1, c2

\* Each day's rows carry that day.
MCDaily == [d \in Days |-> d]

\* Monthly rows carry the first day of the month of the queried day.
MCMonthly == [d \in Days |-> 1]

\* Every fixture day has its own content.
MCFixtureRows == [d \in Days |-> IF d = 1 THEN c1 ELSE c2]

=============================================================================
