SPECIFICATION FairSpec
CONSTANTS
    RowCounts = {0, 2, 5}
    Dates = {1, 2, 3, 4}
    MinTrainRows = {1, 2}
    TestFoldSizes = {1, 2}
    GapDays = {0, 1}
INVARIANTS
    TypeOK
    NoLookAhead
    TestedOnce
    Embargo
    Expanding
    AllRowsTested
    RaisesOnlyOnTies
PROPERTIES
    Terminates
CHECK_DEADLOCK FALSE
