\* Three turns; the last turn may be taken back after it was compacted.
SPECIFICATION AloneSpec
CONSTANTS
    Primary = TRUE
    Tools <- MCTools
    Plan = "plan"
    Ask = "ask"
    Approved <- ReadMode
    Batches <- Rounds
    CallLimit = 3
    FailureLimit = 2
    MaxTurns = 3
    MaxCompacts = 1
    MaxSteers = 0
    MaxRollbacks = 1
    MaxCalls = 1
INVARIANT HistoryReachesModel
\* After the last turn the user has nothing left to do.
CHECK_DEADLOCK FALSE
