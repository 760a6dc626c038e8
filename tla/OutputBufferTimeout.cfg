CONSTANTS
    c1 = c1
    c2 = c2
    Callers = {c1, c2}
    NoCaller = NoCaller
    Size = 1
    MaxChunk = 1
    MaxReaders = 1
    MaxBytes = 1
SPECIFICATION FairSpec
PROPERTIES
    ReadHonoursTimeout
