--------------------------- MODULE DatabaseProofs ---------------------------
(***************************************************************************)
(* What is proved of Database for every value of its constants: type       *)
(* correctness, the snapshots of read transactions, and that a poisoned    *)
(* handle keeps the log as long as nobody calls Database::checkpoint.      *)
(***************************************************************************)
EXTENDS RecoveryProofs

USE DEF Threads, LockHolders, Opener

\* The inductive invariant.
IInv == ControlInv /\ DataInv

\* Every step keeps the data part, and what open read transactions see.
LEMMA DataStep ==
  ASSUME ControlInv, DataInv, [Next]_vars
  PROVE  DataInv' /\ SnapshotKept
<1>1. CASE UNCHANGED vars
  <2>1. /\ UNCHANGED <<data, log, poolVars, walVars, nextTxn, pageCount>>
        /\ UNCHANGED <<txnVars, pc, poisoned, countVars>>
    BY <1>1 DEF vars, dbVars
  <2>2. Up' = Up
    BY <2>1 DEF Up
  <2>3. PoolInv' /\ LogInv' /\ SamePages(cache', data')
    BY <2>1, <2>2, Untouched
  <2>4. TxnInv'
    BY <2>1 DEF DataInv, TxnInv, txnVars
  <2>5. FlagInv'
    BY <2>1 DEF DataInv, FlagInv, countVars, walVars
  <2> QED
    BY <2>1, <2>3, <2>4, <2>5 DEF DataInv, SnapshotKept
<1>2. ASSUME NEW w \in Writers, WriteTxnStep(w) PROVE DataInv' /\ SnapshotKept
  BY <1>2, DataStepQuiet, DataStepLogging, DataStepPages DEF WriteTxnStep
<1> QED
  BY <1>1, <1>2, DataStepReaders, DataStepEnter, DataStepCheckpoint,
     DataStepOpen, DataStepEnd DEF Next

\* IInv holds in every reachable state.
LEMMA Invariance == Spec => []IInv
<1>1. Init => IInv
  BY ControlInit, DataInit DEF IInv
<1>2. IInv /\ [Next]_vars => IInv'
  BY ControlStep, DataStep DEF IInv
<1> QED
  BY <1>1, <1>2, PTL DEF Spec

\* Type correctness: for any number of threads, pages, frames, transactions,
\* crashes and I/O errors, no step of the handle caches a page that
\* page.verify would refuse or marks one dirty that is not cached.
THEOREM TypeCorrect == Spec => []TypeOK
<1>1. IInv => TypeOK
  <2> SUFFICES ASSUME IInv PROVE TypeOK
    OBVIOUS
  <2>1. /\ data \in PageFile(Pages, Contents)
        /\ DOMAIN cache \subseteq DataPages
        /\ cache \in [DOMAIN cache -> Nat]
        /\ dirty \subseteq DOMAIN cache
    BY DEF IInv, DataInv, PoolInv, IsPool
  <2>2. FlagInv
    BY DEF IInv, DataInv
  <2> QED
    BY <2>1, <2>2 DEF IInv, ControlInv, PcOK, DataInv, LogInv, TxnInv, FlagInv,
       TypeOK
<1> QED
  BY <1>1, Invariance, PTL

\* ReadTxn "sees a consistent snapshot": for every number of readers and
\* writers, and with any I/O error, nothing an open read transaction can
\* read changes before it ends.
THEOREM Snapshots == Spec => SnapshotStable
<1>1. ASSUME IInv, [Next]_vars, NEW r \in Readers,
             pc[r] = "reading", pc'[r] = "reading"
      PROVE  View' = View
  <2>1. pageCount' = pageCount /\ SamePages(cache', data')
    BY <1>1, DataStep DEF IInv, SnapshotKept
  <2>2. \A p \in Pages \ {HEADER} : Fetched(p)' = Fetched(p)
    BY <2>1 DEF SamePages, Shown, Fetched, DataPages
  <2> QED
    BY <2>1, <2>2 DEF View
<1>2. IInv /\ [Next]_vars =>
         [\A r \in Readers :
            pc[r] = "reading" /\ pc'[r] = "reading" => View' = View]_vars
  BY <1>1
<1> QED
  BY <1>2, Invariance, PTL DEF Spec, SnapshotStable

\* Once the database is poisoned no writer is in a transaction, or can get
\* into one: WriteTxn::new checks again under the lock.
PoisonInv == poisoned => \A w \in Writers : pc[w] \notin HoldLabels

\* Whoever sets the flag holds the lock, and lets go of it in that step.
LEMMA PoisonStep ==
  ASSUME Checkpointers = {}, ControlInv, PoisonInv, [Next]_vars
  PROVE  PoisonInv'
<1> USE ThreadsAssumption
    DEF ControlInv, PcOK, LockInv, PoisonInv, Up, Goto, Release, HandleGone,
        HoldLabels, CheckpointLabels, dbVars
<1>1. ASSUME NEW r \in Readers, ReadTxnStep(r) PROVE PoisonInv'
  BY <1>1 DEF ReadTxnStep, BeginRead, EnterRead, EndRead, ReadPage
<1>2. ASSUME NEW w \in Writers, WriteTxnStep(w) PROVE PoisonInv'
  <2>1. CASE BeginWrite(w) \/ EnterWrite(w)
    BY <2>1 DEF BeginWrite, EnterWrite
  <2>2. CASE ~(BeginWrite(w) \/ EnterWrite(w))
    <3>1. pc[w] \in HoldLabels
      BY <1>2, <2>2 DEF WriteTxnStep, Rollback, Commit, FlushWrite, FlushSync,
         FlushFails, Publish, EndPublish, PublishFails, AllocatePage, ReadInTxn,
         Install, InstallFails, PageMut, InTxn
    <3>2. ~poisoned /\ \A v \in Writers \ {w} : pc[v] \notin HoldLabels
      BY <3>1
    <3>3. \/ pc' = pc \/ \E l : Goto(w, l)
      BY <1>2, <2>2 DEF WriteTxnStep, Rollback, Commit, FlushWrite, FlushSync,
         FlushFails, Publish, EndPublish, StartCheckpoint, PublishFails,
         AllocatePage, ReadInTxn, Install, InstallFails, PageMut
    <3>4. poisoned' = poisoned \/ Goto(w, "idle")
      BY <1>2, <2>2 DEF WriteTxnStep, Rollback, Commit, FlushWrite, FlushSync,
         FlushFails, Publish, EndPublish, PublishFails,
         AllocatePage, ReadInTxn, Install, InstallFails, PageMut
    <3> QED
      BY <3>2, <3>3, <3>4
  <2> QED
    BY <2>1, <2>2
<1>3. ASSUME NEW t \in LockHolders, CheckpointStep(t) PROVE PoisonInv'
  <2>1. t \in Writers /\ pc[t] \in HoldLabels
    BY <1>3 DEF CheckpointStep, SyncPages, WriteHeader, SyncHeader,
       CheckpointFails, ResetLen, ResetHeader, ResetSync, ResetFails,
       ResetFailure, FlushAll
  <2>2. ~poisoned /\ \A v \in Writers \ {t} : pc[v] \notin HoldLabels
    BY <2>1
  <2>3. pc' = pc \/ \E l : Goto(t, l)
    BY <1>3 DEF CheckpointStep, SyncPages, WriteHeader, SyncHeader,
       CheckpointFails, ResetLen, ResetHeader, ResetSync, ResetFails, FlushAll
  <2>4. poisoned' = poisoned \/ Goto(t, "idle")
    BY <1>3 DEF CheckpointStep, SyncPages, WriteHeader, SyncHeader,
       CheckpointFails, ResetLen, ResetHeader, ResetSync, ResetFails, FlushAll
  <2> QED
    BY <2>2, <2>3, <2>4
<1>4. ASSUME OpenStep PROVE PoisonInv'
  <2>1. ~Up
    BY <1>4 DEF OpenStep, OpenWal, DiscardTail, ReplaySync, OpenDisk, OpenFails,
       ReplayPage, ResetLen, ResetHeader, ResetSync, ResetFailure
  <2>2. \A w \in Writers : pc'[w] = "idle"
    BY <1>4, <2>1 DEF OpenStep, OpenWal, DiscardTail, ReplaySync, OpenDisk,
       OpenFails, ReplayPage, ResetLen, ResetHeader, ResetSync
  <2> QED
    BY <2>2
<1>5. CASE DropHandle \/ Kill \/ PowerLoss
  BY <1>5 DEF DropHandle, Kill, PowerLoss, Crash
<1>6. CASE UNCHANGED vars
  BY <1>6 DEF vars
<1> QED
  BY <1>1, <1>2, <1>3, <1>4, <1>5, <1>6 DEF Next

\* "Reopening replays the still-intact WAL" (checkpoint_locked), where it
\* holds: as long as nobody calls Database::checkpoint, whose check for
\* poison can be stale, a poisoned handle removes nothing from the log.
THEOREM PoisonedLogIsKept ==
  ASSUME Checkpointers = {}
  PROVE  Spec => PoisonKeepsLog
<1>1. Init => PoisonInv
  BY DEF Init, PoisonInv
<1>2. IInv /\ PoisonInv /\ [Next]_vars => PoisonInv'
  BY PoisonStep DEF IInv
<1>3. ASSUME IInv, PoisonInv, Next, Up, Up', poisoned
      PROVE  log.now.recs \subseteq log'.now.recs
  <2>1. \A t \in LockHolders : pc[t] \notin HoldLabels
    BY <1>3 DEF PoisonInv
  <2>2. \A t \in LockHolders : ~CheckpointStep(t)
    BY <2>1 DEF CheckpointStep, SyncPages, WriteHeader, SyncHeader,
       CheckpointFails, ResetLen, ResetHeader, ResetSync, ResetFails,
       ResetFailure, FlushAll, HoldLabels, CheckpointLabels
  <2>3. ~OpenStep
    BY <1>3 DEF OpenStep, OpenWal, DiscardTail, ReplaySync, OpenDisk, OpenFails,
       ReplayPage, ResetLen, ResetHeader, ResetSync, ResetFailure, Up
  <2>4. ASSUME NEW w \in Writers, WriteTxnStep(w) PROVE log' = log
    <3>1. BeginWrite(w) \/ EnterWrite(w)
      BY <2>1, <2>4 DEF WriteTxnStep, Rollback, Commit, FlushWrite, FlushSync,
         FlushFails, Publish, EndPublish, PublishFails, AllocatePage, ReadInTxn,
         Install, InstallFails, PageMut, InTxn, HoldLabels
    <3> QED
      BY <3>1 DEF BeginWrite, EnterWrite
  <2>5. ASSUME NEW r \in Readers, ReadTxnStep(r) PROVE log' = log
    BY <2>5 DEF ReadTxnStep, BeginRead, EnterRead, EndRead, ReadPage
  <2>6. ~DropHandle /\ ~Kill /\ ~PowerLoss
    BY <1>3, ThreadsAssumption DEF DropHandle, Kill, PowerLoss, Crash,
       HandleGone, Up
  <2> QED
    BY <1>3, <2>2, <2>3, <2>4, <2>5, <2>6 DEF Next
<1>4. IInv /\ PoisonInv /\ [Next]_vars =>
         [Up /\ Up' /\ poisoned => log.now.recs \subseteq log'.now.recs]_vars
  BY <1>3
<1> QED
  BY <1>1, <1>2, <1>4, Invariance, PTL DEF Spec, PoisonKeepsLog
=============================================================================
