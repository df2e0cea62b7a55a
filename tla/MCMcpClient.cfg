SPECIFICATION PartsSpec
CONSTANTS
  Urls <- MCUrls
  Host <- Itself
  Title <- Titles
  Stateful <- Olds
  Pages <- TwoPages
  MaxChanges = 4
  MaxFailures = 1
INVARIANTS ToolsOfEnabled OfferedKnown
PROPERTY AllExposedIfAnswered
\* When the user is done and every answer has come nothing is left to do.
CHECK_DEADLOCK FALSE
