CONSTANTS
    r1 = r1
    r2 = r2
    w1 = w1
    p1 = p1
    p2 = p2
    PageIds = {p1, p2}
    Initial = 0
    Torn = Torn
    Depth = 2
    WriterPriority = TRUE
    None = None
    NarrowCalls = 4
    WideCalls = 4
SPECIFICATION Spec
INVARIANTS PublishIsNeverExhausted CheckpointIsComplete
PROPERTIES SnapshotHolds TransactionsEnd
