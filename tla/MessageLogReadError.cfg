CONSTANTS
    c1 = c1
    c2 = c2
    c3 = c3
    s1 = s1
    s2 = s2
    Nobody = Nobody
    Callers = {c1, c2}
    Sessions = {s1}
    MaxMessages = 2
    MaxCrashes = 0
    WriteFaults = FALSE
    ReadFaults = TRUE
SPECIFICATION Spec
CHECK_DEADLOCK FALSE
INVARIANTS
    AckedIsListed
