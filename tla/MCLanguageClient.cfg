SPECIFICATION PartsSpec
CONSTANTS
  OnChange <- Tokens
  OnChar <- Completion
  Skipping <- NullSkips
  Nulls <- AnyNull
  Crashes = TRUE
  MaxEdits = 1
  MaxFormats = 1
INVARIANTS AnswersMatch InSync
PROPERTIES GoodServerServes
\* A server that has died stays dead, and a program that has ended is over.
CHECK_DEADLOCK FALSE
