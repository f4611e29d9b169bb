SPECIFICATION FairSpec
CONSTANTS
    Accounts = {1}
    Lines = {2, 3}
    Keys = {1, 2, 3}
    None = None
    Values <- MCValues
    Past <- MCPast
    BatchSizes = {0, 1}
    Capacity = 1
    MaxFaults = 1
    VerifyBatchSize = 2
    MaxChanges <- MCMaxChanges
INVARIANTS
    StateIsLedger
    VerdictExact
PROPERTIES
    TasksEnd
CHECK_DEADLOCK FALSE
