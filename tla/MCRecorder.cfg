SPECIFICATION FairSpec
CONSTANTS
    MaxMeetings = 2
    MaxStarts = 1
    MaxFaults = 1
INVARIANTS RowsFollow
PROPERTIES StoppedIsTrue MeetingsSettle
CHECK_DEADLOCK FALSE
