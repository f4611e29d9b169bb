CONSTANTS
    n1 = n1  n2 = n2  n3 = n3
    NoProc = NoProc
    Procs <- ProcsTwo
    Version <- SameVersion
    Commands <- AllRun
    InitHistory = {0, 3, 5}
    InitIngested = {0, 4}
    MaxFaults = 1
    Captive = FALSE
    CheckpointFreq = 4
    ReadAhead = 2
    MaxLedger = 7
SPECIFICATION FairSpec
INVARIANTS OnlyWrongStateIsInvalid
PROPERTIES CatchesUp
