SPECIFICATION PartsSpec
CONSTANTS
  Urls <- Two
  Tools <- AllTools
  MaxTools = 2
  MaxReused = 1
  MaxTyped = 1
  MaxSaves = 1
  MaxWrites = 1
  MaxEarly = 1
INVARIANTS UndoRestoresApart CleanMeansSavedApart
PROPERTY TypingSpared
\* When the turn is over and nothing is open, nothing may be left to do.
CHECK_DEADLOCK FALSE
