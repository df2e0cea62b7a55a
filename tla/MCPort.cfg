SPECIFICATION PartsSpec
CONSTANTS
  Scripts <- TwoScripts
  Kinds <- AllKinds
  Capacity = 3
  Chunks <- OneOrTwo
  Delimited <- EveryThird
  Until = Until
  Reads <- AllReads
  Waits <- Finite
  MaxBytes = 4
  MaxCalls = 3
  MaxEdits = 1
INVARIANTS NoGap SwitchShowsPort
PROPERTIES WaitsEnd
\* When every byte has arrived and nobody calls, nothing may be left to do.
CHECK_DEADLOCK FALSE
