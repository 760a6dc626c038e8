CONSTANTS
    k1 = k1
    k2 = k2
    ExitG = ExitG
    Modes = {"pty"}
    Killers = {k1, k2}
    MaxChunks = 1
    MaxInputs = 0
SPECIFICATION FairSpec
CHECK_DEADLOCK FALSE
PROPERTIES
    TerminateReturns
    EndIsRecorded
    PipesEnd
