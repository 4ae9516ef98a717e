---------------------------- MODULE RecoveryProofs ---------------------------
(***************************************************************************)
(* Checkpoints, opening and crashes keep the data part of the inductive    *)
(* invariant.                                                              *)
(***************************************************************************)
EXTENDS CommitProofs

USE DEF Threads, LockHolders, Opener, Verify, DecodeHeader

\* What any step of Wal::reset makes of the log file is well formed.
LEMMA ResetOK ==
  ASSUME DataInv,
         \/ log' = log \/ log' = LogTruncated(log, {})
         \/ log' = LogHeaderWritten(log, nextSeq)
         \/ log' = LogSynced(log) \/ log' = LogSyncFailed(log)
  PROVE  log' \in LogFile(Records) /\ FiniteLog(log')
<1>1. log \in LogFile(Records) /\ FiniteLog(log) /\ nextSeq \in Nat
  BY DEF DataInv, LogInv
<1>2. CASE log' = LogTruncated(log, {})
  BY <1>1, <1>2, LogTruncatedType
<1>3. CASE log' = LogHeaderWritten(log, nextSeq)
  BY <1>1, <1>3, LogHeaderWrittenType
<1>4. CASE log' = LogSynced(log) \/ log' = LogSyncFailed(log)
  BY <1>1, <1>4, LogSyncType
<1> QED
  BY <1>1, <1>2, <1>3, <1>4

\* A checkpoint has no transaction, and runs while the handle is open.
LEMMA CheckpointRuns ==
  ASSUME ControlInv, DataInv, NEW t \in LockHolders, CheckpointStep(t)
  PROVE  /\ Up /\ Up' /\ pageCount' = pageCount
         /\ TxnInv'
<1>1. pc[t] \in CheckpointLabels /\ t # Opener
  BY Zenon, ThreadsAssumption
     DEF CheckpointStep, SyncPages, WriteHeader, SyncHeader,
     CheckpointFails, ResetLen, ResetHeader, ResetSync, ResetFails,
     ResetFailure, FlushAll, CheckpointLabels
<1>2. \E l \in CheckpointLabels \cup {"idle"} : pc' = [pc EXCEPT ![t] = l]
  <2>1. CASE pc' = pc
    BY <1>1, <2>1 DEF ControlInv, PcOK
  <2>2. CASE pc' # pc
    BY <1>1, <2>2 DEF CheckpointStep, SyncPages, WriteHeader, SyncHeader,
       CheckpointFails, ResetLen, ResetHeader, ResetSync, ResetFails, FlushAll,
       Release, Goto, CheckpointLabels
  <2> QED
    BY <2>1, <2>2
<1>3. /\ pageCount' = pageCount
      /\ \/ txn' = txn /\ txnPages' = txnPages
         \/ txn' = Empty /\ txnPages' = 0
      /\ todo' \subseteq todo
  BY <1>1 DEF CheckpointStep, SyncPages, WriteHeader, SyncHeader, CheckpointFails,
     ResetLen, ResetHeader, ResetSync, ResetFails, FlushAll, Release, dbVars,
     txnVars
<1>4. Up /\ Up'
  BY <1>1, <1>2, ThreadsAssumption
     DEF ControlInv, PcOK, LockInv, Up, CheckpointLabels
<1>5. \A w \in Writers : pc'[w] \notin CommitLabels \cup {"txn"}
  <2>1. \A w \in Writers \ {t} : pc'[w] = pc[w] /\ pc[w] \notin HoldLabels
    BY <1>1, <1>2 DEF ControlInv, PcOK, LockInv, HoldLabels
  <2>2. t \in Writers => pc'[t] \in CheckpointLabels \cup {"idle"}
    BY <1>2 DEF ControlInv, PcOK
  <2> QED
    BY <2>1, <2>2 DEF HoldLabels, CommitLabels, CheckpointLabels
<1>6. TxnInv'
  <2>1. pageCount' > 0
    BY <1>3, <1>4 DEF DataInv, TxnInv, Up, AssembledLabels
  <2>2. /\ DOMAIN txn' \subseteq DataPages /\ todo' \subseteq Pages
        /\ txn' \in [DOMAIN txn' -> Nat \cup {Malformed}]
        /\ txnPages' \in Nat /\ pageCount' \in Nat
    <3>1. CASE txn' = txn /\ txnPages' = txnPages
      BY <1>3, <3>1 DEF DataInv, TxnInv
    <3>2. CASE txn' = Empty /\ txnPages' = 0
      BY <1>3, <3>2 DEF DataInv, TxnInv, Empty
    <3> QED
      BY <1>3, <3>1, <3>2
  <2> QED
    BY <1>5, <2>1, <2>2 DEF TxnInv, CommitLabels
<1> QED
  BY <1>3, <1>4, <1>6

\* checkpoint_locked: flushing, syncing, and resetting the log.
LEMMA DataStepCheckpoint ==
  ASSUME ControlInv, DataInv, NEW t \in LockHolders, CheckpointStep(t)
  PROVE  DataInv' /\ SnapshotKept
<1>1. /\ Up /\ Up' /\ pageCount' = pageCount /\ TxnInv'
  BY CheckpointRuns
<1>2. FlagInv'
  <2>1. serial' \in Nat /\ crashes' \in Nat /\ faults' \in Nat
    <3>1. /\ serial' = serial /\ crashes' = crashes
          /\ faults' = faults \/ faults' = faults + 1
      BY Zenon DEF CheckpointStep, SyncPages, WriteHeader, SyncHeader,
         CheckpointFails, ResetLen, ResetHeader, ResetSync, ResetFails,
         ResetFailure, FlushAll, FlushPage, FlushPageFails, Fails, NoFault,
         countVars
    <3> QED
      BY <3>1 DEF DataInv, FlagInv
  <2>2. /\ poisoned' = poisoned \/ poisoned' = TRUE
        /\ walPoisoned' = walPoisoned \/ walPoisoned' = TRUE
    BY DEF CheckpointStep, SyncPages, WriteHeader, SyncHeader, CheckpointFails,
       ResetLen, ResetHeader, ResetSync, ResetFails, FlushAll, dbVars, walVars
  <2> QED
    BY Zenon, <2>1, <2>2 DEF DataInv, FlagInv
<1>3. LogInv'
  <2>1. /\ \/ log' = log \/ log' = LogTruncated(log, {})
           \/ log' = LogHeaderWritten(log, nextSeq)
           \/ log' = LogSynced(log) \/ log' = LogSyncFailed(log)
        /\ pending' = pending /\ nextSeq' = nextSeq /\ nextTxn' = nextTxn
    BY DEF CheckpointStep, SyncPages, WriteHeader, SyncHeader, CheckpointFails,
       ResetLen, ResetHeader, ResetSync, ResetFails, ResetFailure, FlushAll,
       dbVars, walVars
  <2>2. log' \in LogFile(Records) /\ FiniteLog(log')
    BY <2>1, ResetOK
  <2> QED
    BY <2>1, <2>2 DEF DataInv, LogInv
<1>4. IsPool(cache', dirty', data') /\ SamePages(cache', data')
  <2>1. IsPool(cache, dirty, data) /\ data \in PageFile(Pages, Contents)
    BY DEF DataInv, PoolInv, IsPool
  <2>2. CASE data' = data /\ UNCHANGED poolVars
    BY <2>1, <2>2, PoolKept DEF poolVars
  <2>3. CASE /\ data' = PagesSynced(data) \/ data' = PagesSyncFailed(data)
             /\ UNCHANGED poolVars
    <3>1. data' \in PageFile(Pages, Contents) /\ data'.now = data.now
      BY <2>1, <2>3, PagesSyncType
    <3> QED
      BY <2>1, <2>3, <3>1, PoolKept DEF poolVars
  <2>4. CASE /\ data' = PageWritten(data, HEADER, pageCount)
             /\ UNCHANGED poolVars
    <3>1. pageCount \in Contents /\ HEADER \in Pages /\ Torn \in Contents
      BY Constants DEF DataInv, TxnInv
    <3>2. /\ data' \in PageFile(Pages, Contents)
          /\ \A p \in Pages \ {HEADER} : data'.now[p] = data.now[p]
      BY <2>1, <2>4, <3>1 DEF PageWritten, PageFile
    <3> QED
      BY Zenon, <2>1, <2>4, <3>2, Constants, PoolKept DEF poolVars
  <2>5. CASE /\ data' \in PageWriteFailures(data, HEADER, pageCount)
             /\ UNCHANGED poolVars
    <3>1. pageCount \in Contents /\ HEADER \in Pages /\ Torn \in Contents
      BY Constants DEF DataInv, TxnInv
    <3>2. /\ data' \in PageFile(Pages, Contents)
          /\ \A p \in Pages \ {HEADER} : data'.now[p] = data.now[p]
      BY <2>1, <2>5, <3>1, PageWriteFailuresType
    <3> QED
      BY <2>1, <2>5, <3>2, Constants, PoolKept DEF poolVars
  <2>6. ASSUME NEW p \in todo, FlushPageFails(p)
        PROVE  IsPool(cache', dirty', data') /\ SamePages(cache', data')
    BY <2>1, <2>6, WriteFailureOK DEF FlushPageFails
  <2>7. ASSUME NEW p \in DataPages, FlushPage(p)
        PROVE  IsPool(cache', dirty', data') /\ SamePages(cache', data')
    BY <2>1, <2>7, FlushPageOK
  <2>8. CASE SyncPages(t) \/ WriteHeader(t) \/ SyncHeader(t)
    BY <2>3, <2>4, <2>8 DEF SyncPages, WriteHeader, SyncHeader
  <2>9. CASE CheckpointFails(t)
    BY <2>3, <2>5, <2>6, <2>9 DEF CheckpointFails
  <2>10. CASE ResetLen(t) \/ ResetHeader(t) \/ ResetSync(t) \/ ResetFails(t)
    BY <2>2, <2>10 DEF ResetLen, ResetHeader, ResetSync, ResetFails
  <2> QED
    BY <2>7, <2>8, <2>9, <2>10 DEF CheckpointStep, FlushAll
<1> QED
  BY <1>1, <1>2, <1>3, <1>4 DEF DataInv, PoolInv, SnapshotKept

\* Taking the log's lock for a checkpoint.
LEMMA DataStepEnter ==
  ASSUME ControlInv, DataInv, NEW c \in Checkpointers,
         BeginCheckpoint(c) \/ EnterCheckpoint(c)
  PROVE  DataInv' /\ SnapshotKept
<1>1. Up /\ Up' /\ \A w \in Writers : pc'[w] = pc[w]
  BY ThreadsAssumption DEF BeginCheckpoint, EnterCheckpoint, StartCheckpoint,
     Goto, ControlInv, PcOK, LockInv, Up
<1>2. /\ UNCHANGED <<data, log, poolVars, dbVars, walVars, countVars>>
      /\ \/ UNCHANGED txnVars
         \/ txn' = Empty /\ txnPages' = 0 /\ todo' = DOMAIN cache
  BY DEF BeginCheckpoint, EnterCheckpoint, StartCheckpoint
<1>3. PoolInv' /\ LogInv' /\ SamePages(cache', data')
  BY Zenon, <1>1, <1>2, Untouched DEF dbVars
<1>4. FlagInv'
  BY <1>2 DEF DataInv, FlagInv, dbVars, walVars, countVars
<1>5. TxnInv'
  <2>1. CASE BeginCheckpoint(c)
    BY <1>1, <2>1 DEF BeginCheckpoint, DataInv, TxnInv, Up, dbVars, txnVars
  <2>2. CASE EnterCheckpoint(c)
    <3>1. \A w \in Writers : pc[w] \notin CommitLabels \cup {"txn"}
      BY <2>2, ThreadsAssumption
         DEF EnterCheckpoint, ControlInv, LockInv, HoldLabels, CommitLabels
    <3>2. DOMAIN cache \subseteq Pages
      BY Constants DEF DataInv, PoolInv, IsPool
    <3>3. txn' = Empty /\ txnPages' = 0 /\ todo' = DOMAIN cache
      BY <2>2 DEF EnterCheckpoint, StartCheckpoint
    <3>4. pageCount' \in Nat /\ pageCount' > 0
      BY <1>1, <1>2 DEF DataInv, TxnInv, Up, AssembledLabels, dbVars
    <3> QED
      BY <1>1, <3>1, <3>2, <3>3, <3>4 DEF TxnInv, Empty, CommitLabels
  <2> QED
    BY <2>1, <2>2
<1> QED
  BY <1>2, <1>3, <1>4, <1>5 DEF DataInv, SnapshotKept, dbVars

\* The committed images a replay reads are well formed.
LEMMA RecoveredOK ==
  ASSUME DataInv
  PROVE  /\ Recovered \subseteq log.now.recs
         /\ \A r \in Recovered : r.page \in Pages /\ r.val \in Contents
         /\ Latest(Recovered) \subseteq Recovered
         /\ Readable(log.now) \subseteq log.now.recs
         /\ Cardinality(Readable(log.now)) \in Nat
<1>1. Readable(log.now) \subseteq log.now.recs
  BY DEF Readable
<1>2. Recovered \subseteq log.now.recs /\ \A r \in Recovered : r.type = "image"
  BY <1>1 DEF Recovered, CommittedImages
<1>3. log.now.recs \subseteq Records /\ IsFiniteSet(log.now.recs)
  BY DEF DataInv, LogInv, LogFile, LogImage, FiniteLog
<1>4. ASSUME NEW r \in Records, r.type = "image"
      PROVE  r.page \in Pages /\ r.val \in Contents
  BY <1>4 DEF Records, WalRecord
<1>5. Cardinality(Readable(log.now)) \in Nat
  BY <1>1, <1>3, FS_Subset, FS_CardinalityType
<1>6. Latest(Recovered) \subseteq Recovered
  BY DEF Latest
<1> QED
  BY <1>1, <1>2, <1>3, <1>4, <1>5, <1>6

\* A step of open() that goes on: only the files, the page count and the
\* opener's own state may change.
LEMMA OpenGoesOn ==
  ASSUME ControlInv, DataInv, ~Up,
         UNCHANGED <<poolVars, poisoned, nextTxn, pending, walPoisoned, txn,
                     txnPages, countVars>>,
         data' \in PageFile(Pages, Contents),
         log' \in LogFile(Records), FiniteLog(log'),
         nextSeq' \in Nat, todo' \subseteq Pages, pageCount' \in Nat,
         pc'[Opener] \in AssembledLabels => pageCount' > 0,
         \A t \in Threads : pc'[t] = pc[t]
  PROVE  DataInv' /\ SnapshotKept
<1>1. \A t \in Threads : pc[t] = "idle" /\ pc'[t] = "idle"
  BY DEF ControlInv, LockInv
<1>2. PoolInv'
  BY EmptyPool DEF DataInv, PoolInv, poolVars
<1>3. LogInv'
  BY DEF DataInv, LogInv
<1>4. TxnInv'
  BY <1>1 DEF DataInv, TxnInv, CommitLabels
<1>5. FlagInv'
  BY DEF DataInv, FlagInv, countVars
<1> QED
  BY <1>1, <1>2, <1>3, <1>4, <1>5 DEF DataInv, SnapshotKept

\* Database::open_existing, with every way it can fail.
LEMMA DataStepOpen ==
  ASSUME ControlInv, DataInv, OpenStep
  PROVE  DataInv' /\ SnapshotKept
<1>1. ~Up
  BY Zenon DEF OpenStep, OpenWal, DiscardTail, ReplaySync, OpenDisk, OpenFails,
     ReplayPage, ResetLen, ResetHeader, ResetSync, ResetFailure, Up
<1>2. /\ data \in PageFile(Pages, Contents) /\ Torn \in Contents
      /\ log \in LogFile(Records) /\ FiniteLog(log)
      /\ nextSeq \in Nat /\ pageCount \in Nat /\ todo \subseteq Pages
      /\ pc[Opener] \in AssembledLabels => pageCount > 0
  BY Constants DEF DataInv, PoolInv, IsPool, LogInv, TxnInv
<1>3. ASSUME NEW l, Goto(Opener, l)
      PROVE  pc'[Opener] = l /\ \A t \in Threads : pc'[t] = pc[t]
  BY <1>3, ThreadsAssumption DEF Goto, ControlInv, PcOK
<1>4. CASE OpenWal
  <2>1. /\ UNCHANGED <<poolVars, poisoned, nextTxn, pending, walPoisoned, txn,
                       txnPages, countVars>>
        /\ data' = data /\ pageCount' = pageCount
        /\ Goto(Opener, "replay") \/ Goto(Opener, "discard")
    BY <1>4 DEF OpenWal, dbVars
  <2>2. log' \in LogFile(Records) /\ FiniteLog(log')
    <3>1. log' = log \/ log' = LogTruncated(log, Readable(log.now))
      BY Zenon, <1>4 DEF OpenWal
    <3> QED
      BY <1>2, <3>1, LogTruncatedType
  <2>3. todo' \subseteq Pages
    BY <1>4, RecoveredOK DEF OpenWal, ImagePages
  <2>4. nextSeq' \in Nat
    <3>1. log.now.first \in Nat
      BY <1>2 DEF LogFile, LogImage
    <3> QED
      BY <1>4, <3>1, RecoveredOK DEF OpenWal
  <2>5. /\ pc'[Opener] \notin AssembledLabels
        /\ \A t \in Threads : pc'[t] = pc[t]
    BY <1>3, <2>1 DEF AssembledLabels
  <2> QED
    BY <1>1, <1>2, <2>1, <2>2, <2>3, <2>4, <2>5, OpenGoesOn
<1>5. CASE DiscardTail
  <2>1. log' \in LogFile(Records) /\ FiniteLog(log')
    BY <1>2, <1>5, LogSyncType DEF DiscardTail
  <2>2. /\ pc'[Opener] \notin AssembledLabels
        /\ \A t \in Threads : pc'[t] = pc[t]
    BY <1>3, <1>5 DEF DiscardTail, AssembledLabels
  <2> QED
    BY <1>1, <1>2, <1>5, <2>1, <2>2, OpenGoesOn
       DEF DiscardTail, dbVars, walVars, txnVars
<1>6. ASSUME NEW p \in Pages, ReplayPage(p) PROVE DataInv' /\ SnapshotKept
  <2>1. data' \in PageFile(Pages, Contents)
    <3>1. PICK v \in Contents : data' = PageWritten(data, p, v)
      BY Zenon, <1>6, RecoveredOK DEF ReplayPage
    <3> QED
      BY <1>2, <3>1 DEF PageWritten, PageFile
  <2>2. /\ pc'[Opener] \notin AssembledLabels
        /\ \A t \in Threads : pc'[t] = pc[t]
    BY <1>6 DEF ReplayPage, AssembledLabels
  <2>3. todo' \subseteq Pages
    BY <1>2, <1>6 DEF ReplayPage
  <2> QED
    BY <1>1, <1>2, <1>6, <2>1, <2>2, <2>3, OpenGoesOn
       DEF ReplayPage, dbVars, walVars
<1>7. CASE ReplaySync
  <2>1. data' \in PageFile(Pages, Contents)
    BY <1>2, <1>7, PagesSyncType DEF ReplaySync
  <2>2. /\ pc'[Opener] \notin AssembledLabels
        /\ \A t \in Threads : pc'[t] = pc[t]
    BY <1>3, <1>7 DEF ReplaySync, AssembledLabels
  <2> QED
    BY <1>1, <1>2, <1>7, <2>1, <2>2, OpenGoesOn
       DEF ReplaySync, dbVars, walVars, txnVars
<1>8. CASE OpenDisk
  <2>1. CASE HeaderFits
    <3>1. pageCount' \in Nat /\ pageCount' > 0
      BY <1>8, <2>1 DEF OpenDisk, HeaderFits
    <3>2. \A t \in Threads : pc'[t] = pc[t]
      BY <1>3, <1>8, <2>1 DEF OpenDisk
    <3> QED
      BY <1>1, <1>2, <1>8, <2>1, <3>1, <3>2, OpenGoesOn
         DEF OpenDisk, walVars, txnVars
  <2>2. CASE ~HeaderFits
    <3>1. HandleGone /\ data' = data /\ log' = log /\ UNCHANGED countVars
      BY <1>8, <2>2 DEF OpenDisk
    <3>2. FlagInv'
      BY Zenon, <3>1 DEF HandleGone, DataInv, FlagInv, countVars
    <3> QED
      BY <1>2, <3>1, <3>2, GoneOK
  <2> QED
    BY <2>1, <2>2
<1>9. CASE OpenFails
  <2>1. HandleGone /\ FlagInv'
    <3>1. HandleGone /\ faults' = faults + 1 /\ UNCHANGED <<serial, crashes>>
      BY <1>9 DEF OpenFails, Fails, ResetFailure
    <3>2. poisoned' = FALSE /\ walPoisoned' = FALSE
      BY <3>1 DEF HandleGone
    <3>3. serial' \in Nat /\ crashes' \in Nat /\ faults' \in Nat
      BY <3>1 DEF DataInv, FlagInv
    <3> QED
      BY Zenon, <3>1, <3>2, <3>3 DEF FlagInv
  <2>2. data' \in PageFile(Pages, Contents)
    <3>1. \/ data' = data \/ data' = PagesSyncFailed(data)
          \/ \E r \in Latest(Recovered) :
                data' \in PageWriteFailures(data, r.page, r.val)
      BY <1>9 DEF OpenFails
    <3>2. CASE data' = PagesSyncFailed(data)
      BY <1>2, <3>2, PagesSyncType
    <3>3. ASSUME NEW r \in Latest(Recovered),
                 data' \in PageWriteFailures(data, r.page, r.val)
          PROVE  data' \in PageFile(Pages, Contents)
      <4>1. r.page \in Pages /\ r.val \in Contents
        BY RecoveredOK
      <4> QED
        BY <1>2, <3>3, <4>1, PageWriteFailuresType
    <3> QED
      BY <1>2, <3>1, <3>2, <3>3
  <2>3. log' \in LogFile(Records) /\ FiniteLog(log')
    <3>1. log' = log \/ log' = LogSyncFailed(log)
      BY <1>9 DEF OpenFails, ResetFailure
    <3> QED
      BY <1>2, <3>1, LogSyncType
  <2> QED
    BY <2>1, <2>2, <2>3, GoneOK
<1>10. CASE ResetLen(Opener) \/ ResetHeader(Opener) \/ ResetSync(Opener)
  <2>1. log' \in LogFile(Records) /\ FiniteLog(log')
    BY <1>10, ResetOK DEF ResetLen, ResetHeader, ResetSync
  <2>2. /\ UNCHANGED <<data, poolVars, dbVars, walVars, txnVars, countVars>>
        /\ pc[Opener] \in AssembledLabels
        /\ \E l : Goto(Opener, l)
    BY <1>10 DEF ResetLen, ResetHeader, ResetSync, AssembledLabels
  <2>3. \A t \in Threads : pc'[t] = pc[t]
    BY <1>3, <2>2
  <2> QED
    BY <1>1, <1>2, <2>1, <2>2, <2>3, OpenGoesOn DEF dbVars, walVars, txnVars
<1> QED
  BY <1>4, <1>5, <1>6, <1>7, <1>8, <1>9, <1>10 DEF OpenStep

\* Dropping the handle, the death of the process and a power loss.
LEMMA DataStepEnd ==
  ASSUME ControlInv, DataInv, DropHandle \/ Kill \/ PowerLoss
  PROVE  DataInv' /\ SnapshotKept
<1>1. /\ data \in PageFile(Pages, Contents) /\ Torn \in Contents
      /\ log \in LogFile(Records) /\ FiniteLog(log)
      /\ pending \subseteq Records /\ IsFiniteSet(pending)
  BY Constants DEF DataInv, PoolInv, IsPool, LogInv
<1>2. HandleGone /\ FlagInv'
  <2>1. /\ HandleGone /\ serial' = serial /\ faults' = faults
        /\ crashes' = crashes \/ crashes' = crashes + 1
    BY DEF DropHandle, Kill, PowerLoss, Crash, countVars
  <2>2. poisoned' = FALSE /\ walPoisoned' = FALSE
    BY <2>1 DEF HandleGone
  <2>3. serial' \in Nat /\ crashes' \in Nat /\ faults' \in Nat
    BY <2>1 DEF DataInv, FlagInv
  <2> QED
    BY Zenon, <2>1, <2>2, <2>3 DEF FlagInv
<1>3. CASE DropHandle
  BY <1>1, <1>2, <1>3, GoneOK DEF DropHandle
<1>4. CASE Kill
  <2>1. PICK written \in SUBSET pending : log' = LogAppended(log, written)
    <3>1. {} \in SUBSET pending /\ Prefixes(pending) \subseteq SUBSET pending
      BY DEF Prefixes
    <3> QED
      BY <1>4, <3>1 DEF Kill
  <2>2. written \subseteq Records /\ IsFiniteSet(written)
    BY <1>1, FS_Subset
  <2>3. log' \in LogFile(Records) /\ FiniteLog(log')
    BY <1>1, <2>1, <2>2, LogAppendedType
  <2> QED
    BY <1>1, <1>2, <1>4, <2>3, GoneOK DEF Kill
<1>5. CASE PowerLoss
  <2>1. data' \in PageFile(Pages, Contents)
    BY <1>1, <1>5, PageSurvivorsType, StoredType DEF PowerLoss
  <2>2. log' \in LogFile(Records) /\ FiniteLog(log')
    <3>1. PICK m \in log.may : log' = SavedLog(m)
      BY <1>5 DEF PowerLoss
    <3>2. IsImage(m, Records)
      BY <1>1, LogFileImages
    <3> QED
      BY <3>1, <3>2, SavedLogType
  <2> QED
    BY <1>2, <2>1, <2>2, GoneOK
<1> QED
  BY <1>3, <1>4, <1>5
=============================================================================
