SPECIFICATION FairSpec
CONSTANTS
    Pids = {p1, p2, p3}
    Inos = {i1, i2, i3, i4}
    None = None
    MaxDeaths = 2
    MaxAges = 1
INVARIANTS HolderInPlace
PROPERTIES ReclaimsOnlyDead EveryoneServed
CHECK_DEADLOCK FALSE
