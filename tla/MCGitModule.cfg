SPECIFICATION PartsSpec
CONSTANTS
  Menu <- TransferMenu
  Free <- TransferFree
  Heads <- NoMerge
  MaxQueue = 1
  MaxRows = 1
  Faults = FALSE
  Size = 4
INVARIANTS TransferPending TaskMatchesStatus LogDrawn
PROPERTIES TransferEndsInPart
\* The log is drawn to its end, and a repository may not be found.
CHECK_DEADLOCK FALSE
