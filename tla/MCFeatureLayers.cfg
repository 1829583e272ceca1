CONSTANTS
    MaxDate = 5
    DatasetCount = 2
    Warmup = 2
    TradingDays <- MCTradingDays
    BronzeRows = {a, b, flat, junk, double}
    SilverRows = {a, b, flat, double}
    Usable = {a, b, flat}
    Normalize <- MCNormalize
    Undefined <- MCUndefined
    Ranges <- MCRanges
    BronzeTrees <- MCBronzeTrees
    Rejected = Rejected
    Absent = Absent
    Torn = Torn
    a = a
    b = b
    flat = flat
    junk = junk
    double = double
    MaxIngests = 1
    MaxCommands = 2
    MaxKills = 1
SPECIFICATION FairSpec
INVARIANTS
    TypeOK
    RowHistory
    KillLosesOne
PROPERTIES
    FreshGold
    GoldComplete
    BuildEnds
CHECK_DEADLOCK FALSE
