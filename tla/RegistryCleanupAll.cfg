CONSTANTS
    g1 = g1
    g2 = g2
    s1 = s1
    s2 = s2
    Main = Main
    Nobody = Nobody
    Callers = {g1}
    Ids = {s1, s2}
    Shutdown = TRUE
SPECIFICATION Spec
CHECK_DEADLOCK FALSE
INVARIANTS
    NothingSurvivesCleanup
