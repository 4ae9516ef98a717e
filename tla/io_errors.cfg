CONSTANTS
    Writers = {w1, w2}
    Checkpointers = {}
    Readers = {r1}
    MaxPage = 2
    InitialPages = 2
    Frames = 1
    AutoCheckpoint = 3
    WriterPriority = FALSE
    Faults = {"walio", "dataio"}
    MaxTxns = 2
    MaxCrashes = 0
    MaxFaults = 2
    Torn = Torn
    Hole = Hole
    Malformed = Malformed
    None = None
    w1 = w1
    w2 = w2
    c1 = c1
    r1 = r1
    r2 = r2
SPECIFICATION Spec
SYMMETRY ThreadSymmetry
INVARIANT KillSafe
PROPERTY PoisonKeepsLog
