CONSTANTS
    Writers = {w1}
    Checkpointers = {}
    Readers = {r1}
    MaxPage = 3
    InitialPages = 3
    Frames = 1
    AutoCheckpoint = 0
    WriterPriority = FALSE
    Faults = {"dataio"}
    MaxTxns = 2
    MaxCrashes = 0
    MaxFaults = 1
    Torn = Torn
    Hole = Hole
    Malformed = Malformed
    None = None
    w1 = w1
    w2 = w2
    c1 = c1
    r1 = r1
    r2 = r2
SPECIFICATION Spec
INVARIANT ReadersSeeWholeCommits
