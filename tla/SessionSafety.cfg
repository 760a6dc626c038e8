CONSTANTS
    k1 = k1
    k2 = k2
    ExitG = ExitG
    Modes = {"pty", "pipe"}
    Killers = {k1, k2}
    MaxChunks = 1
    MaxInputs = 1
SPECIFICATION Spec
CHECK_DEADLOCK FALSE
SYMMETRY KillerSymmetry
INVARIANTS
    TypeOK
    NothingInvented
    RecordedOnce
PROPERTIES
    ImplementsLife
