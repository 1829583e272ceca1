SPECIFICATION Spec
CONSTANTS
    MaxDate = 4
    TradingDays = {1, 2, 4}
    x1 = x1
    x2 = x2
    bad = bad
    c1 = c1
    c2 = c2
    Contents = {x1, x2, bad}
    Voteless = {bad}
    Configs = {c1, c2}
    Outcomes = {"up", "down"}
    Decide <- MCDecide
    FeatureFiles <- MCFeatureFiles
    Unreadable = unreadable
    Null = null
    Absent = absent
    Torn = torn
    EditsDuringRun = TRUE
    MaxEdits = 1
    MaxFaults = 1
INVARIANTS
    TypeOK
    NoLookAhead
    DoneRowsKept
    OneRuleSet
    InterruptLosesOne
    CommandsAgree
