SPECIFICATION FairSpec
CONSTANTS
    Calls = {c1, c2}
    MaxAnswers = 3
    MaxCrashes = 1
    MaxRetries = 1
INVARIANTS BooksAgree
PROPERTIES SettledIsFinal SentUnderRules DeliveryEnds
CHECK_DEADLOCK FALSE
