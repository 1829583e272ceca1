---------------------------- MODULE WalkForward ----------------------------
(***************************************************************************)
(* WalkForwardSplitter (core/.../backtest/walk_forward.py): the generator  *)
(* of expanding-window folds a backtest iterates over.                     *)
(*                                                                         *)
(* split receives the trade dates of the rows in any order, with or        *)
(* without ties, sorts the row numbers by date, and then yields a fold at  *)
(* each resumption until it returns or raises.  A position is a rank in    *)
(* the sorted order; a fold names rows, not positions.                     *)
(***************************************************************************)
EXTENDS Integers, Sequences, FiniteSets

CONSTANTS
    RowCounts,      \* lengths of the trade_dates
    Dates,          \* the trade dates
    MinTrainRows,   \* the values of each parameter a splitter is made with
    TestFoldSizes,
    GapDays

\* The constructor refuses any other parameter.
ASSUME SplitterAssumption ==
    /\ RowCounts \subseteq Nat
    /\ Dates \subseteq Nat
    /\ MinTrainRows \subseteq Nat \ {0}
    /\ TestFoldSizes \subseteq Nat \ {0}
    /\ GapDays \subseteq Nat

VARIABLES
    n, trade_dates,                            \* the argument of split
    min_train_rows, test_fold_size, gap_days,  \* the splitter
    sorted_positions,  \* the row at each position
    train,             \* the positions of the training window
    last,              \* its last position
    folds,             \* the folds yielded so far
    pc                 \* "begin", "loop", "returned" or "raised"

inputs == <<n, trade_dates, min_train_rows, test_fold_size, gap_days>>
vars == <<inputs, sorted_positions, train, last, folds, pc>>

Positions == 0 .. n - 1

InputsOK ==
    /\ n \in RowCounts
    /\ trade_dates \in [Positions -> Dates]
    /\ min_train_rows \in MinTrainRows
    /\ test_fold_size \in TestFoldSizes
    /\ gap_days \in GapDays

Init ==
    /\ InputsOK
    /\ sorted_positions = [p \in Positions |-> p]
    /\ train = {} /\ last = 0
    /\ folds = <<>>
    /\ pc = "begin"

-----------------------------------------------------------------------------

\* The orders in which m rows can be put.
Orders ==
    [m \in RowCounts |->
        {s \in [0 .. m - 1 -> 0 .. m - 1] : \A p, q \in 0 .. m - 1 : p # q => s[p] # s[q]}]

\* sorted() is stable: rows of one date stay in the order they came in.
StablySorts(s) ==
    \A p, q \in Positions : p < q =>
        \/ trade_dates[s[p]] < trade_dates[s[q]]
        \/ trade_dates[s[p]] = trade_dates[s[q]] /\ s[p] < s[q]

TooFewRows == n <= min_train_rows + gap_days

\* Mutant of Begin: the rows are taken in the order they came in.
BeginUnsorted ==
    /\ pc = "begin"
    /\ pc' = IF TooFewRows THEN "returned" ELSE "loop"
    /\ train' = 0 .. min_train_rows - 1
    /\ last' = min_train_rows - 1
    /\ UNCHANGED <<inputs, sorted_positions, folds>>

Begin ==
    /\ pc = "begin"
    /\ \E s \in Orders[n] : StablySorts(s) /\ sorted_positions' = s
    /\ pc' = IF TooFewRows THEN "returned" ELSE "loop"
    /\ train' = 0 .. min_train_rows - 1
    /\ last' = min_train_rows - 1
    /\ UNCHANGED <<inputs, folds>>

DateAt(p) == trade_dates[sorted_positions[p]]

\* Mutant of train_cutoff: the row number is taken for its date.
CutoffRow == sorted_positions[last]

train_cutoff == DateAt(last)

\* Mutant of test_start: the gap is forgotten.
StartAfterTrain == last + 1

test_start == last + 1 + gap_days

test_stop == IF test_start + test_fold_size <= n THEN test_start + test_fold_size ELSE n

test == test_start .. test_stop - 1

\* Mutant of Exhausted: a last fold that is not full is dropped.
NoFullFold == test_start + test_fold_size > n

Exhausted == test_start >= n

\* Mutant of Tied: a test row of the cutoff's own date passes.
DatedBefore == \E p \in test : DateAt(p) < train_cutoff

Tied == \E p \in test : DateAt(p) <= train_cutoff

Return ==
    /\ pc = "loop" /\ Exhausted
    /\ pc' = "returned"
    /\ UNCHANGED <<inputs, sorted_positions, train, last, folds>>

\* Mutant of Raise: the tie is noticed and nothing is done.
RaiseSwallowed ==
    /\ pc = "loop" /\ ~Exhausted /\ Tied
    /\ UNCHANGED vars

\* The folds yielded before are with the caller already.
Raise ==
    /\ pc = "loop" /\ ~Exhausted /\ Tied
    /\ pc' = "raised"
    /\ UNCHANGED <<inputs, sorted_positions, train, last, folds>>

RowsAt(ps) == {sorted_positions[p] : p \in ps}

\* Mutant of Yield: the next fold starts one row on, not a whole fold on.
YieldOneRowOn ==
    /\ pc = "loop" /\ ~Exhausted /\ ~Tied
    /\ folds' = Append(folds, [cutoff |-> train_cutoff,
                               train |-> RowsAt(train), test |-> RowsAt(test)])
    /\ train' = train \cup {test_start}
    /\ last' = test_start
    /\ UNCHANGED <<inputs, sorted_positions, pc>>

\* Mutant of Yield: the training window slides.
YieldSliding ==
    /\ pc = "loop" /\ ~Exhausted /\ ~Tied
    /\ folds' = Append(folds, [cutoff |-> train_cutoff,
                               train |-> RowsAt(train), test |-> RowsAt(test)])
    /\ train' = test
    /\ last' = test_stop - 1
    /\ UNCHANGED <<inputs, sorted_positions, pc>>

Yield ==
    /\ pc = "loop" /\ ~Exhausted /\ ~Tied
    /\ folds' = Append(folds, [cutoff |-> train_cutoff,
                               train |-> RowsAt(train), test |-> RowsAt(test)])
    /\ train' = train \cup test
    /\ last' = test_stop - 1
    /\ UNCHANGED <<inputs, sorted_positions, pc>>

Resume == Begin \/ Return \/ Raise \/ Yield

\* The generator may be dropped at any point, or be exhausted.
Next == Resume

Spec == Init /\ [][Next]_vars

\* The caller iterates to the end.
FairSpec == Spec /\ WF_vars(Resume)

-----------------------------------------------------------------------------
(* What the backtest relies on. *)

Fold == [cutoff : Dates, train : SUBSET Positions, test : SUBSET Positions]

TypeOK ==
    /\ InputsOK
    /\ sorted_positions \in [Positions -> Positions]
    /\ train \in SUBSET Nat /\ last \in Nat
    /\ folds \in Seq(Fold)
    /\ pc \in {"begin", "loop", "returned", "raised"}

\* No look-ahead: every row a fold trains on is dated strictly before every row it
\* tests, in whatever order and with whatever ties the dates came (sort at line
\* 39, check at 51-53).
NoLookAhead ==
    \A k \in 1 .. Len(folds) : \A i \in folds[k].train, j \in folds[k].test :
        trade_dates[i] <= folds[k].cutoff /\ folds[k].cutoff < trade_dates[j]

\* A row is tested at most once, so no decision is counted twice in the metrics,
\* and never after it was trained on (lines 45-50 and 60).
TestedOnce ==
    \A k \in 1 .. Len(folds) :
        /\ folds[k].test # {} /\ folds[k].train \cap folds[k].test = {}
        /\ \A m \in 1 .. k - 1 : folds[m].test \cap folds[k].test = {}

\* The embargo: gap_days rows or more lie, in the order of the dates, between a
\* row a fold trains on and a row it tests (lines 46 and 60: the window grows over
\* tested rows only).
Embargo ==
    \A k \in 1 .. Len(folds) : \A p, q \in Positions :
        sorted_positions[p] \in folds[k].train /\ sorted_positions[q] \in folds[k].test
            => q - p > gap_days

\* The training window expands: each fold trains on all that the one before it
\* trained on and tested, and on nothing else.
Expanding ==
    \A k \in 2 .. Len(folds) :
        folds[k].train = folds[k - 1].train \cup folds[k - 1].test

Tested == UNION {folds[k].test : k \in 1 .. Len(folds)}

\* When the generator returns, the rows that were neither in the first window nor
\* tested are the embargoed ones: at most gap_days for each fold and for the end
\* (the last fold is cut short by line 49, never dropped).
AllRowsTested ==
    pc = "returned" =>
        n - min_train_rows - Cardinality(Tested) <= gap_days * (Len(folds) + 1)

\* With dates that are all different, as the runner makes sure (runner.py:126), the
\* generator never raises half-way through a backtest.
RaisesOnlyOnTies ==
    pc = "raised" => \E i, j \in Positions : i # j /\ trade_dates[i] = trade_dates[j]

\* The loop has no bound of its own: every split comes to an end.
Terminates == <>(pc \in {"returned", "raised"})

=============================================================================
