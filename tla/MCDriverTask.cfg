SPECIFICATION FairSpec
CONSTANTS
    MaxAttempts = 3
    NoTip = NoTip
    MaxTip = 2
    MaxStrays = 1
INVARIANTS VerifiedIsRetained DoneIsVerified ResumeAccepted
PROPERTIES KnownBeforeLaunch DispatchEnds
