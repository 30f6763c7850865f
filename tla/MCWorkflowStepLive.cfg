CONSTANTS
    Controllers = {c1, c2}
    MaxAttempts = 2
    MaxCrashes = 1
    MaxFaults = 0
    MaxMoves = 1
SPECIFICATION FairSpec
PROPERTY StepSettles
