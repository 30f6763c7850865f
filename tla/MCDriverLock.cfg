SPECIFICATION PromptSpec
CONSTANTS
    Pids = {p1, p2, p3, p4}
    NoPid = NoPid
    MaxRounds = 2
SYMMETRY Symmetry
  
PROPERTY StrandedTokenStays
