SPECIFICATION FairSpec

CONSTANTS
    Inputs <- MCInputs
    Values <- MCValues
    FullWeight = 100
    NaN = NaN
    Text = Text
    Null = Null

INVARIANTS
    TypeOK
    Monotone
    HeavierSideDecides
PROPERTIES
    AcceptedIsDecided

CHECK_DEADLOCK FALSE
