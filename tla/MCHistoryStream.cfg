SPECIFICATION FairSpec
CONSTANTS
    MaxLedger = 3
    MaxRecords = 2
    Now <- MCNow
    Starts <- MCStarts
    Limit = 2
    RetentionCount = 2
    MaxFaults = 1
INVARIANTS
    InOrderWithoutGaps
    RetainedIsKept
PROPERTIES
    EveryRecordArrives
