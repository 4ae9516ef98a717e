CONSTANTS
    Threads = {t1, t2}
    PageIds = {p1, p2, p3}
    Capacity = 2
    Values = {0, 1}
    Initial = 0
    Torn = Torn
    Depth = 2
    WriterPriority = FALSE
    MaxCalls = 5
    MaxFaults = 1
    None = None
    t1 = t1
    t2 = t2
    t3 = t3
    p1 = p1
    p2 = p2
    p3 = p3
SPECIFICATION Safety
SYMMETRY PoolSymmetry
INVARIANTS TypeOK StateHolderNeverWaits HandlesValid PinsAreCounted NoFrameLeaks FlushAllWritesEverything
PROPERTIES ExhaustedOnlyWhenAllPinned IsPageMemory
