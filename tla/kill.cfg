CONSTANTS
    Writers = {w1}
    Checkpointers = {c1}
    Readers = {r1, r2}
    MaxPage = 2
    InitialPages = 2
    Frames = 1
    AutoCheckpoint = 3
    WriterPriority = FALSE
    Faults = {"kill", "walio"}
    MaxTxns = 2
    MaxCrashes = 2
    MaxFaults = 1
    Torn = Torn
    Hole = Hole
    Malformed = Malformed
    None = None
    w1 = w1
    w2 = w2
    c1 = c1
    r1 = r1
    r2 = r2
SPECIFICATION Spec
SYMMETRY ThreadSymmetry
INVARIANTS KillSafe ReadersSeeWholeCommits
PROPERTIES KillRefinement SnapshotStable
