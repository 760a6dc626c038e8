CONSTANTS
    c1 = c1
    c2 = c2
    Callers = {c1, c2}
    NoCaller = NoCaller
    Size = 2
    MaxChunk = 2
    MaxReaders = 2
    MaxBytes = 4
SPECIFICATION Spec
SYMMETRY CallerSymmetry
INVARIANTS
    TypeOK
    LoopHoldsLock
    NoLostWakeup
    EOFIsFinal
    RingsHoldNewest
    DeliveredInOrder
PROPERTIES
    ImplementsLog
