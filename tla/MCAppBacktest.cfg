SPECIFICATION Spec
CONSTANTS
    MaxDate = 5
    TradingDays = {1, 2, 4, 5}
    x1 = x1
    x2 = x2
    bad = bad
    c1 = c1
    c2 = c2
    Contents = {x1, x2, bad}
    Voteless = {bad}
    Configs = {c1, c2}
    Outcomes = {"up", "down", "skip"}
    Decide <- MCDecide
    Unreadable = unreadable
    Null = null
    Absent = absent
    Torn = torn
    EditsDuringRun = TRUE
    MaxEdits = 1
    MaxFaults = 1
    GoldFiles <- MCGoldFiles
    Prices = {0, 1, 2}
    Raw = raw
    Positive = {1, 2}
    Truths = {"up", "down", "flat"}
    Move <- MCMove
    CloseFiles <- MCCloseFiles
    MaxKills = 1
INVARIANTS
    TypeOK
    OwnDecision
    TruthHolds
    NoHole
    ReportsAgree
