CONSTANTS
    c1 = c1
    c2 = c2
    s1 = s1
    s2 = s2
    Nobody = Nobody
    Callers = {c1, c2}
    Sessions = {s1, s2}
    MaxMessages = 3
    MaxCrashes = 1
    WriteFaults = TRUE
    ReadFaults = TRUE
SPECIFICATION Spec
CHECK_DEADLOCK FALSE
INVARIANT AppendInv
