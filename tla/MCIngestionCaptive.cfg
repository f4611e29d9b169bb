CONSTANTS
    n1 = n1  n2 = n2  n3 = n3
    NoProc = NoProc
    Procs <- ProcsOne
    Version <- SameVersion
    Commands <- AllRun
    InitHistory = {0}
    InitIngested = {0}
    MaxFaults = 2
    Captive = TRUE
    CheckpointFreq = 8
    ReadAhead = 2
    MaxLedger = 15
CHECK_DEADLOCK FALSE
SPECIFICATION FairSpec
PROPERTIES CatchesUp
