CONSTANTS
    a1 = a1
    a2 = a2
    Agents = {a1, a2}
    Starter = a1
    Size = 2
    MaxChunk = 1
    MaxReaders = 2
    MaxOutput = 2
    MaxCalls = 2
    Cuts = {0, 1}
    Rows = {24, 70000}
    Shared = Shared
    Pty = TRUE
SPECIFICATION Spec
CHECK_DEADLOCK FALSE
INVARIANTS
    TypeOK
    OwnReaderSeesAll
    HandedIsRecorded
    HasMoreIsTrue
    SizeReachesHost
