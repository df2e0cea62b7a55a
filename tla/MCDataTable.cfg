\* Shared: the user goes on editing during the agent's turn, scripts write.
\* Waiting: the user waits.  Cleared: scripts empty the table, nothing moves.
SPECIFICATION PartsSpec
CONSTANTS
    a = a
    b = b
    c = c
    v = v
    g1 = g1
    g2 = g2
    e1 = e1
    e2 = e2
    Keys <- MCKeys
    Start <- MCStart
    Values <- MCValues
    Groups <- MCGroups
    Edits <- MCEdits
    Limit = 3
    MaxSteps = 2
    Apart = FALSE
    MayMove = TRUE
    MayClear = FALSE
    MaxRows = 1
SYMMETRY Alike
INVARIANTS HistoryTellsTruth ColumnsTrue WalksBack
PROPERTIES GroupsAreAtomic BrokenStaysPut RefusedInPart
\* When every edit is made and every turn over, nothing may be left to do.
CHECK_DEADLOCK FALSE
