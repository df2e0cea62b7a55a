SPECIFICATION PartsSpec
CONSTANTS
  Clients <- Two
  Key <- TwoUnits
  LastReg = 1
  Values = {0, 1}
  Off = 0
  MaxCalls = 2
  MaxLate = 2
  MaxLost = 1
  MaxDrift = 0
  MaxOpens = 1
INVARIANTS TimelyResultsTrue SingleWriteDone
\* When the scripts have made their calls nothing may be left to do.
CHECK_DEADLOCK FALSE
