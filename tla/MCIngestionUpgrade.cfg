CONSTANTS
    n1 = n1  n2 = n2  n3 = n3
    NoProc = NoProc
    Procs <- ProcsTwo
    Version <- RollingUpgrade
    Commands <- WithCommands
    InitHistory = {0, 3, 5}
    InitIngested = {0, 4}
    MaxFaults = 1
    Captive = FALSE
    CheckpointFreq = 4
    ReadAhead = 2
    MaxLedger = 7
CHECK_DEADLOCK FALSE
SPECIFICATION Spec
INVARIANTS TypeOK StateMatchesLedger NoHistoryGap
PROPERTY DurableSpec
