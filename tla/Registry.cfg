CONSTANTS
    g1 = g1
    g2 = g2
    g3 = g3
    s1 = s1
    Main = Main
    Nobody = Nobody
    Callers = {g1, g2}
    Ids = {s1}
    Shutdown = TRUE
SPECIFICATION FairSpec
CHECK_DEADLOCK FALSE
INVARIANTS
    TypeOK
    LockIsReleased
    FileNeverAhead
PROPERTIES
    OnlyExitedLeave
    CallsEnd
