CONSTANTS
    c1 = c1
    c2 = c2
    Callers = {c1, c2}
    NoCaller = NoCaller
    Size = 2
    MaxChunk = 2
    MaxReaders = 1
    MaxBytes = 5
SPECIFICATION FairSpec
INVARIANTS
    TypeOK
    LoopHoldsLock
    NoLostWakeup
    EOFIsFinal
    RingsHoldNewest
    DeliveredInOrder
PROPERTIES
    ImplementsLog
    ReadsEnd
    DataIsServed
    ParkedReadTimesOut
