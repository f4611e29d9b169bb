CONSTANTS
    CheckpointFreq = 4
    ReadAhead = 2
    MaxLedger = 6
    Archive = 3
    Ranges <- MCRanges
    PipeSize = 1
    MaxFaults = 1
SPECIFICATION LiveSpec
INVARIANTS TypeOK StreamInOrder NothingLeftBehind
PROPERTIES AnswersAsLedgerBackend PrepareAndCloseReturn
CHECK_DEADLOCK FALSE
