\* Threads of all modes; scripts without a debugger; scripts under it.
SPECIFICATION PartsSpec
CONSTANTS
    t1 = t1
    t2 = t2
    t3 = t3
    Threads <- MCThreads
    Modes <- AllModes
    CallsMain = TRUE
    MaxRequests = 2
INVARIANTS CountersAgree QuitWaits
PROPERTIES StopsLeft RequestsHandled
\* With every thread ended and the window closed nothing is left to do.
CHECK_DEADLOCK FALSE
