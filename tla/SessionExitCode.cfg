CONSTANTS
    k1 = k1
    k2 = k2
    ExitG = ExitG
    Modes = {"pty", "pipe"}
    Killers = {k1}
    MaxChunks = 1
    MaxInputs = 0
SPECIFICATION Spec
CHECK_DEADLOCK FALSE
INVARIANTS
    ExitCodeIsReal
