SPECIFICATION FairSpec
CONSTANTS
    MaxDate = 9
    Weekdays <- MCWeekdays
    MaxRows = 4
    Prices = {0, 1, 2}
    NoClose = NoClose
    Features = {f1, f2, f3}
    Configs = {c1, c2}
    Decide <- MCDecide
    Raises = Raises
    GoldFiles <- MCGoldFiles
    HandMade <- MCHandMade
    NoTarget = NoTarget
    Unknown = Unknown
    MinTrainRows = {1, 2}
    TestFoldSizes = {1, 2}
    GapDays = {0, 1}
    Absent = Absent
    Torn = Torn
    c1 = c1
    c2 = c2
    f1 = f1
    f2 = f2
    f3 = f3
    MaxEdits = 1
    MaxCommands = 2
    MaxKills = 1
INVARIANTS
    TypeOK
    OwnTruth
    ReportsAgree
PROPERTIES
    BacktestEnds
CHECK_DEADLOCK FALSE
