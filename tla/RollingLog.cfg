SPECIFICATION Spec
CONSTANTS
    MaxFileSize = 2
    MaxFiles = 3
    MaxRecords = 8
    MaxStarts = 3
INVARIANTS FilesInv RecentKept GrowthBounded
PROPERTY OldestGoFirst
CHECK_DEADLOCK FALSE
