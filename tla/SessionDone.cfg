CONSTANTS
    k1 = k1
    k2 = k2
    ExitG = ExitG
    Modes = {"pipe"}
    Killers = {k1}
    MaxChunks = 1
    MaxInputs = 0
SPECIFICATION FairSpec
CHECK_DEADLOCK FALSE
PROPERTIES
    DoneFollowsExit
