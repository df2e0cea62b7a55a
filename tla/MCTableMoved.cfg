\* Scripts empty the table, and columns are moved.
SPECIFICATION AloneSpec
CONSTANTS
    a = a
    b = b
    c = c
    v = v
    g1 = g1
    g2 = g2
    e1 = e1
    e2 = e2
    Keys <- MCKeys
    Start <- MCStart
    Values <- MCValues
    Groups <- MCGroups
    Edits <- MCEdits
    Limit = 3
    MaxSteps = 0
    Apart = FALSE
    MayMove = TRUE
    MayClear = TRUE
    MaxRows = 1
SYMMETRY Alike
INVARIANT ColumnsTrue
\* When every edit is made and every turn over, nothing may be left to do.
CHECK_DEADLOCK FALSE
