SPECIFICATION Spec
CONSTANTS
    MaxDay = 2
    Snapshots = {s1}
    Fixture = fixture
    c1 = c1
    c2 = c2
    Contents = {c1, c2}
    Absent = absent
    Torn = torn
    RowDate <- MCDaily
    FixtureRows <- MCFixtureRows
    MaxCrashes = 1
INVARIANTS
    ResumeIsSafe
