--------------------------- MODULE MCCoreBacktest ---------------------------
(* Nine dates, of which 4 and 5 are a weekend and 3 is a holiday. *)
EXTENDS CoreBacktest

CONSTANTS c1, c2, f1, f2, f3

MCWeekdays == {1, 2, 3, 6, 7, 8, 9, 10}

\* Both configs decide f1, c2 abstains on f2, and f3 is beyond c2.
MCDecide ==
    [c \in {c1, c2} |->
        [f \in {f1, f2, f3} |->
            IF c = c1 THEN (IF f = f3 THEN "down" ELSE "up")
            ELSE IF f = f1 THEN "down" ELSE IF f = f2 THEN "skip" ELSE Raises]]

Row(d, c, f) == [trade_date |-> d, close |-> c, feature |-> f]

\* Five days over the weekend; one with a day whose close is no price, so that the row
\* before it is left out behind a row whose label is about it; one whose last row stands
\* before the holiday, the next close being null; two rows of one day; a single row,
\* which has no label.
MCGoldFiles ==
    {{Row(1, 1, f1), Row(2, 2, f2), Row(6, 1, f1), Row(7, 1, f2), Row(8, 2, f1)},
     {Row(1, 1, f1), Row(2, 2, f1), Row(6, 1, f2), Row(7, 0, f2), Row(8, 2, f1),
      Row(9, 1, f3)},
     {Row(1, 1, f1), Row(2, 1, f3), Row(6, 2, f2), Row(7, NoClose, f1)},
     {Row(1, 1, f1), Row(1, 2, f1), Row(2, 1, f2)},
     {Row(1, 1, f1)}}

Made(d, t, f) == [trade_date |-> d, feature |-> f, target |-> t, about |-> Unknown]

\* Datasets a test might write: whole, with a day twice, with a label of no truth.
MCHandMade ==
    {{Made(1, "up", f1), Made(2, "flat", f2), Made(3, "down", f3), Made(6, "up", f2)},
     {Made(1, "up", f1), Made(2, "flat", f2), Made(2, "down", f2)},
     {Made(1, "up", f1), Made(2, NoTarget, f2), Made(3, "up", f1)}}

=============================================================================
