CONSTANTS
    w1 = w1  w2 = w2  w3 = w3
    Workers = {w1, w2, w3}
    Interval = 2
    Requests <- Ranges4
SPECIFICATION FairSpec
INVARIANTS RestartPointSound DisjointJobs
PROPERTY Terminates
CHECK_DEADLOCK FALSE
