-------------------------- MODULE MCFeatureLayers --------------------------
(* Five dates with a holiday in the middle, two datasets, a warm-up of two. *)
EXTENDS FeatureLayers

CONSTANTS a, b, flat, junk, double

MCTradingDays == {1, 2, 4, 5}

\* double is a day with two rows: Silver accepts it, Gold does not.
MCNormalize == [x \in {a, b, flat, junk, double} |-> IF x = junk THEN Rejected ELSE x]

\* No change of the index over the window.
MCUndefined(w) == \A d \in DOMAIN w : w[d][1] = flat

\* Whole history, the last day alone, from the holiday, before any history, empty.
MCRanges == {<<4, 5>>, <<5, 5>>, <<3, 4>>, <<1, 5>>, <<5, 4>>}

Tree(f, g) == <<f, g>>
All(x) == [d \in Dates |-> IF d = 3 THEN Absent ELSE x]

\* Two whole roots; one without day 2; one with a torn, a refused or a doubled
\* day; one with a partition on the holiday; one that never moves.
MCBronzeTrees ==
    {Tree(All(a), All(a)), Tree(All(b), All(a)),
     Tree([All(a) EXCEPT ![2] = Absent], [All(a) EXCEPT ![1] = Absent]),
     Tree(All(b), [All(b) EXCEPT ![4] = Torn]),
     Tree([All(a) EXCEPT ![5] = junk], [All(a) EXCEPT ![2] = double]),
     Tree([d \in Dates |-> a], All(b)),
     Tree(All(flat), All(a))}

=============================================================================
