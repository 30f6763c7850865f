CONSTANTS
    Controllers = {c1, c2}
    MaxAttempts = 2
    MaxCrashes = 2
    MaxFaults = 1
    MaxMoves = 1
SPECIFICATION QuietSpec
SYMMETRY Symmetry
INVARIANTS OneAgent CompletedIsWork 
PROPERTY NoWorkRepeated
