CONSTANTS
    g1 = g1
    g2 = g2
    s1 = s1
    s2 = s2
    Main = Main
    Nobody = Nobody
    Callers = {g1, g2}
    Ids = {s1, s2}
    Shutdown = FALSE
SPECIFICATION Spec
SYMMETRY CallerSymmetry
INVARIANTS
    FileIsSessionList
