CONSTANTS
    w1 = w1  w2 = w2
    Workers = {w1, w2}
    Ranges <- MCRanges
    MaxLedger = 5
    MaxFaults = 2
SPECIFICATION FairSpec
INVARIANTS TypeOK ShutdownIsFinal
PROPERTY PollEnds
CHECK_DEADLOCK FALSE
