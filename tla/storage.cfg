CONSTANTS
    Lengths = {1, 9, 16}
    Seeds = {100}
    Bursts = {{0}, {0, 5, 12, 21, 31}}
    MaxPieces = 3
    MaxBytes = 18
    Capacities = {1, 63, 64, 127, 128, 129, 200, 256, 300, 512, 1000, 2048, 4096, 5000}
    MaxPageId = 9000
    MaxPages = 2
    Payloads = {1, 2}
    Unsealed = Unsealed
    Rotten = Rotten
    Cut = Cut
    MaxWrites = 3
    StoreFaults = 2
    Hole = Hole
    Torn = Torn
    MaxRecords = 4
    MaxBatch = 2
    WalCrashes = 2
    WalFaults = 1
    Absent = Absent
    Partial = Partial
    Environments = {{"power"}, {"power", "removal"}, {"kill", "io"}}
    MaxOpens = 5
    MaxCommits = 2
    MaxCrashes = 3
SPECIFICATION AllSpec
INVARIANTS IsTheChecksum BurstsAreDetected ShardsAreUsable NearlyFullWhenRefused ReadIsAVersion UndamagedIsReadBack DamageIsCorruption FlushedIsReadable NothingStaleIsRead LogIsSetOfRecords StorageTypeOK CommitsSurvive NoOrphanWal CommittedNeverRefused
