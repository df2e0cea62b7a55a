SPECIFICATION PartsSpec
CONSTANTS
    Primary = TRUE
    Tools <- MCTools
    Plan = "plan"
    Ask = "ask"
    Approved <- ReadMode
    Batches <- Rounds
    CallLimit = 3
    FailureLimit = 2
    MaxTurns = 2
    MaxCompacts = 1
    MaxSteers = 1
    MaxRollbacks = 0
    MaxCalls = 2
INVARIANTS TypeOK OneDriver ContextWellFormed ApprovalHonouredInPart HistoryKept
PROPERTIES SteeringAnswered CompactionAdvances RecordsTurns ComesToRest
\* After the last turn the user has nothing left to do.
CHECK_DEADLOCK FALSE
