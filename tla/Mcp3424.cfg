SPECIFICATION FairSpec
CONSTANTS
    WriteTries = 3
    PollTries = 4
    ErrorLimit = 2
    MaxOpens = 4
INVARIANTS DescriptorsAccounted OldOnlyAfterFailedRead
PROPERTY ReadingEnds
CHECK_DEADLOCK FALSE
