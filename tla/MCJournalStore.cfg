CONSTANTS
    Procs = {p1, p2, p3, p4}
    Recorders = {p2, p3, p4}
    Temps = {t1, t2, t3}
    None = None
    MaxDeaths = 2
SPECIFICATION FairSpec
INVARIANTS LiveAppendsHarmless
PROPERTY LeftoverGoes
