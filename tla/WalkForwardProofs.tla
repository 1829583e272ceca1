------------------------- MODULE WalkForwardProofs -------------------------
(***************************************************************************)
(* For any number of rows, any dates and any splitter: what WalkForward's  *)
(* model-checked invariants say holds in every reachable state.            *)
(***************************************************************************)
EXTENDS WalkForward, Counting

Ordered == pc # "begin" => sorted_positions \in Orders[n] /\ StablySorts(sorted_positions)

\* While the loop runs, the window ends at last, which is a position.
Window == pc = "loop" => last \in Positions /\ train \subseteq 0 .. last

\* Nothing was yielded before the sort.
NoneYet == pc = "begin" => folds = <<>>

\* The window has taken up every row that was tested.
TakenUp == \A k \in 1 .. Len(folds) : folds[k].test \subseteq RowsAt(train)

\* What the next fold trains on is what the last one trained on and tested.
Carried ==
    Len(folds) > 0 =>
        RowsAt(train) = folds[Len(folds)].train \cup folds[Len(folds)].test

\* What a fold satisfies on its own.
Sound(f) ==
    /\ \A i \in f.train, j \in f.test :
          trade_dates[i] <= f.cutoff /\ f.cutoff < trade_dates[j]
    /\ f.test # {} /\ f.train \cap f.test = {}
    /\ \A p, q \in Positions :
          sorted_positions[p] \in f.train /\ sorted_positions[q] \in f.test
              => q - p > gap_days

EachSound == \A k \in 1 .. Len(folds) : Sound(folds[k])

Apart == \A k \in 1 .. Len(folds) : \A m \in 1 .. k - 1 : folds[m].test \cap folds[k].test = {}

IInv ==
    /\ TypeOK /\ Ordered /\ Window /\ NoneYet /\ TakenUp /\ Carried
    /\ EachSound /\ Apart /\ Expanding /\ RaisesOnlyOnTies

-----------------------------------------------------------------------------

\* The order of the rows is one to one and never decreases in date.
LEMMA OrderFacts ==
    ASSUME TypeOK, sorted_positions \in Orders[n], StablySorts(sorted_positions)
    PROVE  /\ sorted_positions \in [Positions -> Positions]
           /\ \A p, q \in Positions : p # q => sorted_positions[p] # sorted_positions[q]
           /\ \A p \in Positions : DateAt(p) \in Nat
           /\ \A p, q \in Positions : p <= q => DateAt(p) <= DateAt(q)
<1>1. n \in RowCounts /\ n \in Nat
  BY SplitterAssumption DEF TypeOK, InputsOK
<1>2. Orders[n] =
        {s \in [0 .. n - 1 -> 0 .. n - 1] : \A p, q \in 0 .. n - 1 : p # q => s[p] # s[q]}
  BY <1>1 DEF Orders
<1>3. /\ sorted_positions \in [Positions -> Positions]
      /\ \A p, q \in Positions : p # q => sorted_positions[p] # sorted_positions[q]
  BY <1>2 DEF Positions
<1>4. \A i \in Positions : trade_dates[i] \in Nat
  BY SplitterAssumption DEF TypeOK, InputsOK
<1>5. \A p \in Positions : DateAt(p) \in Nat
  BY <1>3, <1>4 DEF DateAt
<1>6. ASSUME NEW p \in Positions, NEW q \in Positions, p <= q
      PROVE  DateAt(p) <= DateAt(q)
  <2>1. CASE p = q
    BY <2>1, <1>5
  <2>2. CASE p < q
    BY <2>2, <1>5 DEF StablySorts, DateAt
  <2> QED
    BY <1>1, <1>6, <2>1, <2>2 DEF Positions
<1> QED
  BY <1>3, <1>5, <1>6

\* An appended fold comes after the others, which stay as they are.
LEMMA AppendFacts ==
    ASSUME NEW S, NEW s \in Seq(S), NEW f \in S, NEW t, t = Append(s, f)
    PROVE  /\ t \in Seq(S) /\ Len(s) \in Nat /\ Len(t) = Len(s) + 1
           /\ \A k \in 1 .. Len(s) : t[k] = s[k]
           /\ t[Len(t)] = f
  OBVIOUS

\* Where the test block of the next fold lies.
LEMMA TestFacts ==
    ASSUME TypeOK, Window, pc = "loop", ~Exhausted
    PROVE  /\ n \in Nat /\ gap_days \in Nat
           /\ last \in Nat /\ test_start = last + 1 + gap_days
           /\ test \subseteq Positions
           /\ test_start \in test
           /\ \A p \in test : p > last + gap_days
           /\ test_stop - 1 \in Positions /\ test_stop - 1 >= last
           /\ train \subseteq Positions /\ last \in Positions
           /\ train \cup test \subseteq 0 .. test_stop - 1
<1>1. n \in Nat /\ gap_days \in Nat /\ test_fold_size \in Nat \ {0}
  BY SplitterAssumption DEF TypeOK, InputsOK
<1>2. last \in 0 .. n - 1 /\ train \subseteq 0 .. last
  BY DEF Window, Positions
<1>3. test_start \in Nat /\ test_start = last + 1 + gap_days /\ test_start < n
  BY <1>1, <1>2 DEF test_start, Exhausted
<1>4. test_stop \in Nat /\ test_start < test_stop /\ test_stop <= n
  BY <1>1, <1>3 DEF test_stop
<1> QED
  BY <1>1, <1>2, <1>3, <1>4 DEF test, Positions

\* The fold that Yield appends.
NextFold == [cutoff |-> train_cutoff, train |-> RowsAt(train), test |-> RowsAt(test)]

\* A fold whose dates passed the check is a sound one, made of new test rows.
LEMMA NextFoldSound ==
    ASSUME TypeOK, Ordered, Window, pc = "loop", ~Exhausted, ~Tied
    PROVE  NextFold \in Fold /\ Sound(NextFold)
<1>1. sorted_positions \in Orders[n] /\ StablySorts(sorted_positions)
  BY DEF Ordered
<1>2. /\ sorted_positions \in [Positions -> Positions]
      /\ \A p, q \in Positions : p # q => sorted_positions[p] # sorted_positions[q]
      /\ \A p \in Positions : DateAt(p) \in Nat
      /\ \A p, q \in Positions : p <= q => DateAt(p) <= DateAt(q)
  BY <1>1, OrderFacts
<1>3. /\ n \in Nat /\ gap_days \in Nat /\ last \in Positions
      /\ test \subseteq Positions /\ test_start \in test
      /\ \A p \in test : p > last + gap_days
      /\ train \subseteq Positions
  BY TestFacts
<1>4. \A p \in train : p <= last
  BY <1>3 DEF Window, Positions
<1>5. /\ NextFold.cutoff = DateAt(last)
      /\ NextFold.train = RowsAt(train) /\ NextFold.test = RowsAt(test)
  BY DEF NextFold, train_cutoff
<1>6. NextFold \in Fold
  <2>1. DateAt(last) \in Dates
    BY <1>2, <1>3 DEF DateAt, TypeOK, InputsOK
  <2>2. RowsAt(train) \subseteq Positions /\ RowsAt(test) \subseteq Positions
    BY <1>2, <1>3 DEF RowsAt
  <2> QED
    BY <2>1, <2>2 DEF NextFold, Fold, train_cutoff
<1>7. ASSUME NEW i \in RowsAt(train), NEW j \in RowsAt(test)
      PROVE  trade_dates[i] <= DateAt(last) /\ DateAt(last) < trade_dates[j]
  <2>1. PICK p \in train : i = sorted_positions[p]
    BY <1>7 DEF RowsAt
  <2>2. PICK q \in test : j = sorted_positions[q]
    BY <1>7 DEF RowsAt
  <2>3. DateAt(p) <= DateAt(last)
    BY <2>1, <1>2, <1>3, <1>4
  <2>4. ~(DateAt(q) <= DateAt(last))
    BY <2>2 DEF Tied, train_cutoff
  <2>5. DateAt(q) \in Nat /\ DateAt(last) \in Nat
    BY <2>2, <1>2, <1>3
  <2>6. trade_dates[i] = DateAt(p) /\ trade_dates[j] = DateAt(q)
    BY <2>1, <2>2 DEF DateAt
  <2> QED
    BY <2>3, <2>4, <2>5, <2>6
<1>8. RowsAt(test) # {}
  BY <1>3 DEF RowsAt
<1>9. \A p \in Positions : \A S \in SUBSET Positions :
        sorted_positions[p] \in RowsAt(S) => p \in S
  BY <1>2 DEF RowsAt
<1>10. ASSUME NEW p \in Positions, NEW q \in Positions,
              sorted_positions[p] \in RowsAt(train), sorted_positions[q] \in RowsAt(test)
       PROVE  q - p > gap_days
  <2>1. p \in train /\ q \in test
    BY <1>3, <1>9, <1>10
  <2>2. p <= last /\ q > last + gap_days
    BY <2>1, <1>3, <1>4
  <2>3. p \in Int /\ q \in Int /\ last \in Int
    BY <1>3 DEF Positions
  <2> QED
    BY <2>2, <2>3, <1>3
<1>11. RowsAt(train) \cap RowsAt(test) = {}
  <2> SUFFICES ASSUME NEW i \in RowsAt(train), i \in RowsAt(test) PROVE FALSE
    OBVIOUS
  <2>1. PICK p \in train : i = sorted_positions[p]
    BY DEF RowsAt
  <2>2. PICK q \in test : i = sorted_positions[q]
    BY DEF RowsAt
  <2>3. p = q
    BY <2>1, <2>2, <1>2, <1>3
  <2> QED
    BY <2>1, <2>2, <2>3, <1>3, <1>4 DEF Positions
<1> QED
  BY <1>5, <1>6, <1>7, <1>8, <1>10, <1>11 DEF Sound

-----------------------------------------------------------------------------

LEMMA InitIInv == Init => IInv
<1> SUFFICES ASSUME Init PROVE IInv
  OBVIOUS
<1>1. n \in Nat /\ min_train_rows \in Nat
  BY SplitterAssumption DEF Init, InputsOK
<1>2. Len(folds) = 0 /\ folds \in Seq(Fold)
  BY DEF Init
<1>3. TypeOK
  BY <1>2 DEF Init, TypeOK
<1>4. Ordered /\ Window /\ NoneYet /\ RaisesOnlyOnTies
  BY DEF Init, Ordered, Window, NoneYet, RaisesOnlyOnTies
<1>5. TakenUp /\ Carried /\ EachSound /\ Apart /\ Expanding
  BY <1>2 DEF TakenUp, Carried, EachSound, Apart, Expanding
<1> QED
  BY <1>3, <1>4, <1>5 DEF IInv

\* Before the sort there is no fold for the new order to disturb.
LEMMA BeginStep ==
    ASSUME IInv, Begin
    PROVE  IInv'
<1>1. /\ pc = "begin" /\ pc' \in {"returned", "loop"}
      /\ sorted_positions' \in Orders[n] /\ StablySorts(sorted_positions')
      /\ train' = 0 .. min_train_rows - 1 /\ last' = min_train_rows - 1
      /\ UNCHANGED <<inputs, folds>>
  BY DEF Begin
<1>2. /\ n \in Nat /\ n \in RowCounts /\ gap_days \in Nat
      /\ min_train_rows \in Nat \ {0}
  BY SplitterAssumption DEF IInv, TypeOK, InputsOK
<1>3. folds' = <<>> /\ Len(folds') = 0
  BY <1>1 DEF IInv, NoneYet
<1>4. Positions' = Positions
  BY <1>1 DEF inputs, Positions
<1>5. TypeOK'
  <2>1. Orders[n] \subseteq [Positions -> Positions]
    BY <1>2 DEF Orders, Positions
  <2>2. train' \subseteq Nat /\ last' \in Nat
    BY <1>1, <1>2
  <2>3. InputsOK'
    BY <1>1, <1>4 DEF IInv, TypeOK, InputsOK, inputs
  <2>4. folds' \in Seq(Fold')
    BY <1>3
  <2> QED
    BY <1>1, <1>4, <2>1, <2>2, <2>3, <2>4 DEF TypeOK
<1>6. Ordered'
  BY <1>1 DEF Ordered, StablySorts, Positions, inputs
<1>7. Window'
  <2>1. pc' = "loop" => ~(n <= min_train_rows + gap_days)
    BY DEF Begin, TooFewRows
  <2>2. n' = n
    BY <1>1 DEF inputs
  <2> QED
    BY <1>1, <1>2, <2>1, <2>2 DEF Window, Positions
<1>8. NoneYet' /\ RaisesOnlyOnTies'
  BY <1>1, <1>3 DEF NoneYet, RaisesOnlyOnTies
<1>9. TakenUp' /\ Carried' /\ EachSound' /\ Apart' /\ Expanding'
  BY <1>3 DEF TakenUp, Carried, EachSound, Apart, Expanding
<1> QED
  BY <1>5, <1>6, <1>7, <1>8, <1>9 DEF IInv

\* Returning and raising change nothing but pc.
LEMMA StopStep ==
    ASSUME IInv, Return \/ Raise
    PROVE  IInv'
<1>1. /\ pc = "loop" /\ pc' \in {"returned", "raised"}
      /\ UNCHANGED <<inputs, sorted_positions, train, last, folds>>
  BY DEF Return, Raise
<1>2. Positions' = Positions /\ Fold' = Fold
  BY <1>1 DEF inputs, Positions, Fold
<1>3. TypeOK'
  <2>1. InputsOK'
    BY <1>1, <1>2 DEF IInv, TypeOK, InputsOK, inputs
  <2> QED
    BY <1>1, <1>2, <2>1 DEF IInv, TypeOK
<1>4. Ordered' /\ Window' /\ NoneYet'
  BY <1>1 DEF IInv, Ordered, Window, NoneYet, StablySorts, Positions, inputs
<1>5. TakenUp' /\ Carried' /\ Apart' /\ Expanding'
  BY <1>1 DEF IInv, TakenUp, Carried, Apart, Expanding, RowsAt
<1>6. EachSound'
  BY <1>1, <1>2 DEF IInv, EachSound, Sound, inputs
<1>7. RaisesOnlyOnTies'
  <2>1. CASE Return
    BY <2>1 DEF Return, RaisesOnlyOnTies
  <2>2. CASE Raise
    <3>1. PICK p \in test : DateAt(p) <= DateAt(last)
      BY <2>2 DEF Raise, Tied, train_cutoff
    <3>2. /\ test \subseteq Positions /\ last \in Positions /\ n \in Nat
          /\ p > last + gap_days /\ gap_days \in Nat /\ last \in Nat
      BY <2>2, TestFacts DEF Raise, IInv
    <3>3. /\ sorted_positions \in [Positions -> Positions]
          /\ \A x, y \in Positions : x # y => sorted_positions[x] # sorted_positions[y]
          /\ \A x \in Positions : DateAt(x) \in Nat
          /\ \A x, y \in Positions : x <= y => DateAt(x) <= DateAt(y)
      BY <1>1, OrderFacts DEF IInv, Ordered
    <3>4. p \in Positions /\ last <= p /\ last # p
      BY <3>1, <3>2 DEF Positions
    <3>5. DateAt(p) = DateAt(last)
      BY <3>1, <3>2, <3>3, <3>4
    <3>6. /\ sorted_positions[p] # sorted_positions[last]
          /\ trade_dates[sorted_positions[p]] = trade_dates[sorted_positions[last]]
      BY <3>2, <3>3, <3>4, <3>5 DEF DateAt
    <3>7. \E i, j \in Positions : i # j /\ trade_dates[i] = trade_dates[j]
      BY <3>2, <3>3, <3>4, <3>6
    <3> QED
      BY <1>1, <1>2, <3>7 DEF RaisesOnlyOnTies, inputs
  <2> QED
    BY <2>1, <2>2
<1> QED
  BY <1>3, <1>4, <1>5, <1>6, <1>7 DEF IInv

\* A fold is sound, its test rows are new, and the window takes them up.
LEMMA YieldStep ==
    ASSUME IInv, Yield
    PROVE  IInv'
<1>1. /\ pc = "loop" /\ ~Exhausted /\ ~Tied
      /\ folds' = Append(folds, NextFold)
      /\ train' = train \cup test /\ last' = test_stop - 1
      /\ UNCHANGED <<inputs, sorted_positions, pc>>
  BY DEF Yield, NextFold
<1>2. TypeOK /\ Ordered /\ Window
  BY DEF IInv
<1>3. NextFold \in Fold /\ Sound(NextFold)
  BY <1>1, <1>2, NextFoldSound
<1>4. NextFold.train = RowsAt(train) /\ NextFold.test = RowsAt(test)
  BY DEF NextFold
<1>5. /\ test_stop - 1 \in Positions
      /\ train \subseteq Positions /\ test \subseteq Positions
      /\ train \cup test \subseteq 0 .. test_stop - 1 /\ n \in Nat
  BY <1>1, <1>2, TestFacts
<1>6. Positions' = Positions /\ Fold' = Fold
  BY <1>1 DEF inputs, Positions, Fold
<1>7. /\ folds' \in Seq(Fold) /\ Len(folds) \in Nat /\ Len(folds') = Len(folds) + 1
      /\ \A k \in 1 .. Len(folds) : folds'[k] = folds[k]
      /\ folds'[Len(folds')] = NextFold
  <2>1. folds \in Seq(Fold)
    BY <1>2 DEF TypeOK
  <2> QED
    BY <1>1, <1>3, <2>1, AppendFacts
<1>8. TypeOK'
  <2>1. InputsOK'
    BY <1>1, <1>2, <1>6 DEF TypeOK, InputsOK, inputs
  <2>2. train' \subseteq Nat /\ last' \in Nat
    BY <1>1, <1>5 DEF Positions
  <2> QED
    BY <1>1, <1>2, <1>6, <1>7, <2>1, <2>2 DEF TypeOK
<1>9. Ordered' /\ NoneYet' /\ RaisesOnlyOnTies'
  BY <1>1, <1>2 DEF Ordered, NoneYet, RaisesOnlyOnTies, StablySorts, Positions, inputs
<1>10. Window'
  BY <1>1, <1>5, <1>6 DEF Window
<1>11. RowsAt(train)' = RowsAt(train) \cup RowsAt(test)
  BY <1>1 DEF RowsAt
<1>12. TakenUp'
  <2> SUFFICES ASSUME NEW k \in 1 .. Len(folds') PROVE folds'[k].test \subseteq RowsAt(train)'
    BY DEF TakenUp
  <2>1. CASE k \in 1 .. Len(folds)
    BY <2>1, <1>7, <1>11 DEF IInv, TakenUp
  <2>2. CASE k = Len(folds')
    BY <2>2, <1>4, <1>7, <1>11
  <2> QED
    BY <2>1, <2>2, <1>7
<1>13. Carried'
  BY <1>4, <1>7, <1>11 DEF Carried
<1>14. EachSound'
  <2>1. \A f : Sound(f)' <=> Sound(f)
    BY <1>1, <1>6 DEF Sound, inputs
  <2> SUFFICES ASSUME NEW k \in 1 .. Len(folds') PROVE Sound(folds'[k])
    BY <2>1 DEF EachSound
  <2>2. CASE k \in 1 .. Len(folds)
    BY <2>2, <1>7 DEF IInv, EachSound
  <2>3. CASE k = Len(folds')
    BY <2>3, <1>3, <1>7
  <2> QED
    BY <2>2, <2>3, <1>7
<1>15. Apart'
  <2> SUFFICES ASSUME NEW k \in 1 .. Len(folds'), NEW m \in 1 .. k - 1
               PROVE  folds'[m].test \cap folds'[k].test = {}
    BY DEF Apart
  <2>1. m \in 1 .. Len(folds) /\ folds'[m] = folds[m]
    BY <1>7
  <2>2. CASE k \in 1 .. Len(folds)
    BY <2>1, <2>2, <1>7 DEF IInv, Apart
  <2>3. CASE k = Len(folds')
    <3>1. folds[m].test \subseteq RowsAt(train)
      BY <2>1 DEF IInv, TakenUp
    <3>2. RowsAt(train) \cap RowsAt(test) = {}
      BY <1>3, <1>4 DEF Sound
    <3> QED
      BY <2>1, <2>3, <1>4, <1>7, <3>1, <3>2
  <2> QED
    BY <2>2, <2>3, <1>7
<1>16. Expanding'
  <2> SUFFICES ASSUME NEW k \in 2 .. Len(folds')
               PROVE  folds'[k].train = folds'[k - 1].train \cup folds'[k - 1].test
    BY DEF Expanding
  <2>1. k - 1 \in 1 .. Len(folds) /\ folds'[k - 1] = folds[k - 1]
    BY <1>7
  <2>2. CASE k \in 2 .. Len(folds)
    BY <2>1, <2>2, <1>7 DEF IInv, Expanding
  <2>3. CASE k = Len(folds')
    BY <2>1, <2>3, <1>4, <1>7 DEF IInv, Carried
  <2> QED
    BY <2>2, <2>3, <1>7
<1> QED
  BY <1>8, <1>9, <1>10, <1>12, <1>13, <1>14, <1>15, <1>16 DEF IInv

LEMMA StutterStep ==
    ASSUME IInv, UNCHANGED vars
    PROVE  IInv'
<1>1. UNCHANGED <<n, trade_dates, min_train_rows, test_fold_size, gap_days>>
  BY DEF vars, inputs
<1>2. UNCHANGED <<sorted_positions, train, last, folds, pc>>
  BY DEF vars
<1>3. Positions' = Positions /\ Fold' = Fold
  BY <1>1 DEF Positions, Fold
<1>4. TypeOK'
  BY <1>1, <1>2, <1>3 DEF IInv, TypeOK, InputsOK
<1>5. Ordered' /\ Window' /\ NoneYet' /\ RaisesOnlyOnTies'
  BY <1>1, <1>2, <1>3
     DEF IInv, Ordered, Window, NoneYet, RaisesOnlyOnTies, StablySorts
<1>6. TakenUp' /\ Carried' /\ Apart' /\ Expanding'
  BY <1>2 DEF IInv, TakenUp, Carried, Apart, Expanding, RowsAt
<1>7. EachSound'
  BY <1>1, <1>2, <1>3 DEF IInv, EachSound, Sound
<1> QED
  BY <1>4, <1>5, <1>6, <1>7 DEF IInv

LEMMA IInvariance == Spec => []IInv
<1>1. IInv /\ [Next]_vars => IInv'
  BY BeginStep, StopStep, YieldStep, StutterStep DEF Next, Resume
<1> QED
  BY InitIInv, <1>1, PTL DEF Spec

-----------------------------------------------------------------------------
(* How many rows are tested, and in how many folds. *)

FewFolds == Len(folds) <= n /\ (pc = "loop" => Len(folds) <= last)

\* Behind the window lie the first training rows, the tested ones, and at most
\* gap_days rows for each fold.
LeftBehind ==
    /\ IsFiniteSet(Tested)
    /\ pc = "loop" =>
          last + 1 - min_train_rows - Cardinality(Tested) <= gap_days * Len(folds)

CountInv == FewFolds /\ LeftBehind /\ AllRowsTested

LEMMA InitCount == Init => CountInv
<1> SUFFICES ASSUME Init PROVE CountInv
  OBVIOUS
<1>1. n \in Nat /\ Len(folds) = 0 /\ pc = "begin"
  BY SplitterAssumption DEF Init, InputsOK
<1>2. Tested = {}
  BY <1>1 DEF Tested
<1> QED
  BY <1>1, <1>2, FS_EmptySet DEF CountInv, FewFolds, LeftBehind, AllRowsTested

LEMMA BeginCount ==
    ASSUME IInv, CountInv, Begin
    PROVE  CountInv'
<1>1. /\ pc = "begin" /\ last' = min_train_rows - 1
      /\ pc' = IF TooFewRows THEN "returned" ELSE "loop"
      /\ UNCHANGED <<n, min_train_rows, gap_days, folds>>
  BY DEF Begin, inputs
<1>2. n \in Nat /\ gap_days \in Nat /\ min_train_rows \in Nat \ {0}
  BY SplitterAssumption DEF IInv, TypeOK, InputsOK
<1>3. Len(folds') = 0 /\ Tested' = {}
  BY <1>1 DEF IInv, NoneYet, Tested
<1>4. FewFolds'
  BY <1>1, <1>2, <1>3 DEF FewFolds
<1>5. IsFiniteSet(Tested') /\ Cardinality(Tested') = 0
  BY <1>3, FS_EmptySet
<1>6. LeftBehind'
  BY <1>1, <1>2, <1>3, <1>5 DEF LeftBehind
<1>7. AllRowsTested'
  BY <1>1, <1>2, <1>3, <1>5 DEF AllRowsTested, TooFewRows
<1> QED
  BY <1>4, <1>6, <1>7 DEF CountInv

\* When there is no room for a further test row, what is left is one gap more.
LEMMA StopCount ==
    ASSUME IInv, CountInv, Return \/ Raise
    PROVE  CountInv'
<1>1. /\ pc = "loop" /\ pc' \in {"returned", "raised"}
      /\ UNCHANGED <<n, min_train_rows, gap_days, last, folds>>
  BY DEF Return, Raise, inputs
<1>2. /\ n \in Nat /\ gap_days \in Nat /\ min_train_rows \in Nat /\ last \in Nat
      /\ Len(folds) \in Nat
  BY SplitterAssumption DEF IInv, TypeOK, InputsOK
<1>3. Tested' = Tested
  BY <1>1 DEF Tested
<1>4. Cardinality(Tested) \in Nat
  BY FS_CardinalityType DEF CountInv, LeftBehind
<1>5. AllRowsTested'
  <2>1. CASE Return
    <3>1. last + 1 + gap_days >= n
      BY <2>1 DEF Return, Exhausted, test_start
    <3>2. last + 1 - min_train_rows - Cardinality(Tested) <= gap_days * Len(folds)
      BY <1>1 DEF CountInv, LeftBehind
    <3>3. gap_days * (Len(folds) + 1) = gap_days * Len(folds) + gap_days
          /\ gap_days * Len(folds) \in Nat
      BY <1>2
    <3>4. n - min_train_rows - Cardinality(Tested) <= gap_days * (Len(folds) + 1)
      BY <1>2, <1>4, <3>1, <3>2, <3>3
    <3> QED
      BY <1>1, <1>3, <3>4 DEF AllRowsTested
  <2>2. CASE Raise
    BY <2>2 DEF Raise, AllRowsTested
  <2> QED
    BY <2>1, <2>2
<1> QED
  BY <1>1, <1>3, <1>5 DEF CountInv, FewFolds, LeftBehind

\* A fold tests as many rows as the window grows by, but for the gap.
LEMMA YieldCount ==
    ASSUME IInv, CountInv, Yield
    PROVE  CountInv'
<1>1. /\ pc = "loop" /\ ~Exhausted /\ ~Tied
      /\ folds' = Append(folds, NextFold) /\ last' = test_stop - 1
      /\ UNCHANGED <<n, min_train_rows, gap_days, pc>>
  BY DEF Yield, NextFold, inputs
<1>2. TypeOK /\ Ordered /\ Window
  BY DEF IInv
<1>3. NextFold \in Fold /\ Sound(NextFold) /\ NextFold.test = RowsAt(test)
      /\ NextFold.train = RowsAt(train)
  BY <1>1, <1>2, NextFoldSound DEF NextFold
<1>4. /\ n \in Nat /\ gap_days \in Nat /\ min_train_rows \in Nat /\ last \in Nat
      /\ test_stop \in Nat /\ test_stop <= n /\ test_start = last + 1 + gap_days
      /\ test_start < test_stop /\ test \subseteq Positions
  <2>1. test_fold_size \in Nat \ {0} /\ n \in Nat /\ min_train_rows \in Nat
    BY <1>2, SplitterAssumption DEF TypeOK, InputsOK
  <2>2. last \in Nat /\ gap_days \in Nat /\ test_start = last + 1 + gap_days
        /\ test \subseteq Positions
    BY <1>1, <1>2, TestFacts
  <2>3. test_start \in Nat /\ test_start < n
    BY <1>1, <2>1, <2>2 DEF Exhausted
  <2> QED
    BY <2>1, <2>2, <2>3 DEF test_stop
<1>5. /\ Len(folds) \in Nat /\ Len(folds') = Len(folds) + 1
      /\ \A k \in 1 .. Len(folds) : folds'[k] = folds[k]
      /\ folds'[Len(folds')] = NextFold
  BY <1>1, <1>2, <1>3, AppendFacts DEF TypeOK
<1>6. FewFolds'
  BY <1>1, <1>4, <1>5 DEF CountInv, FewFolds
<1>7. Tested' = Tested \cup RowsAt(test)
  <2>1. \A k \in 1 .. Len(folds') : k \in 1 .. Len(folds) \/ k = Len(folds')
    BY <1>5
  <2>2. 1 .. Len(folds) \subseteq 1 .. Len(folds') /\ Len(folds') \in 1 .. Len(folds')
    BY <1>5
  <2> QED
    BY <1>3, <1>5, <2>1, <2>2 DEF Tested
<1>8. Tested \cap RowsAt(test) = {}
  BY <1>3 DEF IInv, TakenUp, Tested, Sound
<1>9. IsFiniteSet(RowsAt(test)) /\ Cardinality(RowsAt(test)) = test_stop - test_start
  <2>1. IsFiniteSet(test) /\ Cardinality(test) = test_stop - test_start
    BY <1>4, FS_Interval DEF test
  <2>2. \A p, q \in test : sorted_positions[p] = sorted_positions[q] => p = q
    BY <1>1, <1>2, <1>4, OrderFacts DEF Ordered
  <2> QED
    BY <2>1, <2>2, ImageSize DEF RowsAt
<1>10. /\ IsFiniteSet(Tested') /\ Cardinality(Tested) \in Nat
       /\ Cardinality(Tested') = Cardinality(Tested) + (test_stop - test_start)
  BY <1>7, <1>8, <1>9, DisjointSize DEF CountInv, LeftBehind
<1>11. LeftBehind'
  <2>1. last + 1 - min_train_rows - Cardinality(Tested) <= gap_days * Len(folds)
    BY <1>1 DEF CountInv, LeftBehind
  <2>2. gap_days * (Len(folds) + 1) = gap_days * Len(folds) + gap_days
        /\ gap_days * Len(folds) \in Nat
    BY <1>4, <1>5
  <2>3. last' + 1 - min_train_rows - Cardinality(Tested') <= gap_days * (Len(folds) + 1)
    BY <1>1, <1>4, <1>10, <2>1, <2>2
  <2> QED
    BY <1>1, <1>5, <1>10, <2>3 DEF LeftBehind
<1>12. AllRowsTested'
  BY <1>1 DEF AllRowsTested
<1> QED
  BY <1>6, <1>11, <1>12 DEF CountInv

LEMMA StutterCount ==
    ASSUME CountInv, UNCHANGED vars
    PROVE  CountInv'
BY DEF CountInv, FewFolds, LeftBehind, AllRowsTested, Tested, vars, inputs

LEMMA CountInvariance == Spec => [](IInv /\ CountInv)
<1>1. IInv /\ CountInv /\ [Next]_vars => (IInv /\ CountInv)'
  BY BeginStep, StopStep, YieldStep, StutterStep,
     BeginCount, StopCount, YieldCount, StutterCount DEF Next, Resume
<1> QED
  BY InitIInv, InitCount, <1>1, PTL DEF Spec

\* The types of the splitter's state, whatever the rows, dates and parameters.
THEOREM TypeCorrect == Spec => []TypeOK
<1>1. IInv => TypeOK
  BY DEF IInv
<1> QED
  BY <1>1, IInvariance, PTL

\* No fold of any backtest trains on a row dated on or after one it tests.
THEOREM NeverLooksAhead == Spec => []NoLookAhead
<1>1. IInv => NoLookAhead
  BY DEF IInv, EachSound, Sound, NoLookAhead
<1> QED
  BY <1>1, IInvariance, PTL

\* No row is tested twice, nor tested after it was trained on.
THEOREM TestsRowsOnce == Spec => []TestedOnce
<1>1. IInv => TestedOnce
  BY DEF IInv, EachSound, Sound, Apart, TestedOnce
<1> QED
  BY <1>1, IInvariance, PTL

\* Training and test rows are gap_days rows apart in every fold.
THEOREM KeepsEmbargo == Spec => []Embargo
<1>1. IInv => Embargo
  BY DEF IInv, EachSound, Sound, Embargo
<1> QED
  BY <1>1, IInvariance, PTL

\* Each fold trains on all that the fold before it trained on and tested.
THEOREM WindowExpands == Spec => []Expanding
<1>1. IInv => Expanding
  BY DEF IInv
<1> QED
  BY <1>1, IInvariance, PTL

\* The splitter raises only for dates that are not all different.
THEOREM RaisesForTies == Spec => []RaisesOnlyOnTies
<1>1. IInv => RaisesOnlyOnTies
  BY DEF IInv
<1> QED
  BY <1>1, IInvariance, PTL

\* Every row but the first training rows and the embargoed ones is tested: at most
\* gap_days for each fold and for the end (walk_forward.py:45-50, 60).
THEOREM TestsAllRows == Spec => []AllRowsTested
<1>1. CountInv => AllRowsTested
  BY DEF CountInv
<1> QED
  BY <1>1, CountInvariance, PTL

-----------------------------------------------------------------------------
(* The generator ends: its resumptions are counted down. *)

ResumptionsLeft ==
    CASE pc = "begin" -> n + 1
      [] pc = "loop" -> n - last
      [] pc \in {"returned", "raised"} -> 0

Counted == ResumptionsLeft \in 0 .. n + 1 /\ (ResumptionsLeft = 0 <=> pc \in {"returned", "raised"})

\* There are at most as many resumptions as rows, and one; each leaves fewer.
ResumptionsCountDown ==
    []Counted /\ [][ResumptionsLeft' < ResumptionsLeft]_vars

LEMMA ResumptionsType == IInv => Counted
<1> SUFFICES ASSUME IInv PROVE Counted
  OBVIOUS
<1>1. n \in Nat /\ pc \in {"begin", "loop", "returned", "raised"}
  BY SplitterAssumption DEF IInv, TypeOK, InputsOK
<1>2. pc = "loop" => last \in 0 .. n - 1
  BY DEF IInv, Window, Positions
<1> QED
  BY <1>1, <1>2 DEF Counted, ResumptionsLeft

\* A fold has a test row, so that the window grows.
LEMMA ResumptionCounts ==
    ASSUME IInv, Resume
    PROVE  ResumptionsLeft' < ResumptionsLeft
<1>1. n \in Nat /\ last \in Nat /\ n' = n
  BY SplitterAssumption DEF IInv, TypeOK, InputsOK, Resume, Begin, Return, Raise, Yield, inputs
<1>2. /\ min_train_rows \in Nat \ {0} /\ test_fold_size \in Nat \ {0} /\ gap_days \in Nat
  BY SplitterAssumption DEF IInv, TypeOK, InputsOK
<1>3. pc = "loop" => last < n
  BY <1>1 DEF IInv, Window, Positions
<1>4. CASE Begin
  <2>1. pc = "begin" /\ last' = min_train_rows - 1 /\ pc' \in {"returned", "loop"}
    BY <1>4 DEF Begin
  <2> QED
    BY <1>1, <1>2, <2>1 DEF ResumptionsLeft
<1>5. CASE Return \/ Raise
  <2>1. pc = "loop" /\ pc' \in {"returned", "raised"}
    BY <1>5 DEF Return, Raise
  <2> QED
    BY <1>1, <1>3, <2>1 DEF ResumptionsLeft
<1>6. CASE Yield
  <2>1. pc = "loop" /\ pc' = "loop" /\ test_start < n /\ last' = test_stop - 1
    BY <1>1, <1>2, <1>6 DEF Yield, Exhausted, test_start
  <2>2. last < test_stop - 1
    BY <1>1, <1>2, <2>1 DEF test_start, test_stop
  <2>3. test_stop \in Nat
    BY <1>1, <1>2 DEF test_start, test_stop
  <2> QED
    BY <1>1, <1>3, <2>1, <2>2, <2>3 DEF ResumptionsLeft
<1> QED
  BY <1>4, <1>5, <1>6 DEF Resume

\* The splitter is resumed once more than it has rows at most, whatever the dates are
\* (walk_forward.py:46-69: each fold has a test row).
THEOREM SplitCountsDown == Spec => ResumptionsCountDown
<1>1. IInv => Counted
  BY ResumptionsType
<1>2. IInv /\ [Next]_vars => [ResumptionsLeft' < ResumptionsLeft]_vars
  BY ResumptionCounts DEF Next
<1> QED
  BY <1>1, <1>2, IInvariance, PTL DEF Spec, ResumptionsCountDown

=============================================================================
