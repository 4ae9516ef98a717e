----------------------------- MODULE LockProofs -----------------------------
(***************************************************************************)
(* The control part of the inductive invariant: at most one thread is in a *)
(* write transaction or checkpoint, and none reads while one publishes.    *)
(***************************************************************************)
EXTENDS Database, TLAPS

\* Where a thread holds Database::wal.
HoldLabels ==
    {"txn", "flush_write", "flush_sync", "publish", "install",
     "publish_failed"} \cup CheckpointLabels

PcOK ==
    /\ pc \in [Threads \cup {Opener} -> Labels]
    /\ \A w \in Writers : pc[w] \in WriterLabels
    /\ \A c \in Checkpointers : pc[c] \in CheckpointerLabels
    /\ \A r \in Readers : pc[r] \in ReaderLabels
    /\ pc[Opener] \in OpenerLabels
    /\ walOwner \in LockHolders \cup {None}
    /\ publisher \in Writers \cup {None}

\* The locks do what locks do, and while nothing is open no thread runs.
LockInv ==
    /\ \A t \in LockHolders : pc[t] \in HoldLabels => walOwner = t
    /\ \A w \in Writers : pc[w] = "install" => publisher = w
    /\ publisher # None => \A r \in Readers : pc[r] # "reading"
    /\ ~Up => \A t \in Threads : pc[t] = "idle"

ControlInv == PcOK /\ LockInv

USE DEF Threads, LockHolders, Opener

\* A database just opened: no lock is held and no call runs.
LEMMA ControlInit == Init => ControlInv
BY ThreadsAssumption DEF Init, ControlInv, PcOK, LockInv, Up, Labels,
   WriterLabels, CheckpointerLabels, ReaderLabels, OpenerLabels, HoldLabels,
   CheckpointLabels

\* Every action keeps ControlInv.
LEMMA ControlStep == ControlInv /\ [Next]_vars => ControlInv'
<1> SUFFICES ASSUME ControlInv, [Next]_vars PROVE ControlInv'
  OBVIOUS
<1> USE ThreadsAssumption
    DEF ControlInv, PcOK, LockInv, Up, Goto, Release, HandleGone, Labels,
        WriterLabels, CheckpointerLabels, ReaderLabels, OpenerLabels,
        HoldLabels, CheckpointLabels, lockVars, txnVars
<1>1. ASSUME NEW r \in Readers, ReadTxnStep(r) PROVE ControlInv'
  <2>1. CASE BeginRead(r)
    BY <2>1 DEF BeginRead
  <2>2. CASE EnterRead(r)
    BY <2>2 DEF EnterRead
  <2>3. CASE EndRead(r)
    BY <2>3 DEF EndRead
  <2>4. ASSUME NEW p \in DataPages, ReadPage(r, p) PROVE ControlInv'
    BY <2>4 DEF ReadPage
  <2> QED
    BY <1>1, <2>1, <2>2, <2>3, <2>4 DEF ReadTxnStep
<1>2. ASSUME NEW w \in Writers, WriteTxnStep(w) PROVE ControlInv'
  <2>1. CASE BeginWrite(w)
    BY <2>1 DEF BeginWrite
  <2>2. CASE EnterWrite(w)
    BY <2>2 DEF EnterWrite
  <2>3. CASE Rollback(w)
    BY <2>3 DEF Rollback, InTxn
  <2>4. CASE Commit(w)
    BY <2>4 DEF Commit, InTxn
  <2>5. CASE FlushWrite(w)
    BY <2>5 DEF FlushWrite
  <2>6. CASE FlushSync(w)
    BY <2>6 DEF FlushSync
  <2>7. CASE FlushFails(w)
    BY <2>7 DEF FlushFails
  <2>8. CASE Publish(w)
    BY <2>8 DEF Publish
  <2>9. CASE EndPublish(w)
    BY <2>9 DEF EndPublish, StartCheckpoint
  <2>10. CASE PublishFails(w)
    BY <2>10 DEF PublishFails
  <2>11. CASE AllocatePage(w, serial + 1)
    BY <2>11 DEF AllocatePage
  <2>12. ASSUME NEW p \in DataPages, ReadInTxn(w, p) PROVE ControlInv'
    BY <2>12 DEF ReadInTxn
  <2>13. ASSUME NEW p \in DataPages, Install(w, p) PROVE ControlInv'
    BY <2>13 DEF Install
  <2>14. ASSUME NEW p \in DataPages, InstallFails(w, p) PROVE ControlInv'
    BY <2>14 DEF InstallFails
  <2>15. ASSUME NEW p \in DataPages, NEW v \in NewContents, PageMut(w, p, v)
         PROVE  ControlInv'
    BY <2>15 DEF PageMut
  <2> QED
    BY <1>2, <2>1, <2>2, <2>3, <2>4, <2>5, <2>6, <2>7, <2>8,
       <2>9, <2>10, <2>11, <2>12, <2>13, <2>14, <2>15
       DEF WriteTxnStep
<1>3. ASSUME NEW c \in Checkpointers, BeginCheckpoint(c) PROVE ControlInv'
  BY <1>3 DEF BeginCheckpoint
<1>4. ASSUME NEW c \in Checkpointers, EnterCheckpoint(c) PROVE ControlInv'
  BY <1>4 DEF EnterCheckpoint, StartCheckpoint
<1>5. ASSUME NEW t \in LockHolders, CheckpointStep(t) PROVE ControlInv'
  <2>1. CASE SyncPages(t)
    BY <2>1 DEF SyncPages
  <2>2. CASE WriteHeader(t)
    BY <2>2 DEF WriteHeader
  <2>3. CASE SyncHeader(t)
    BY <2>3 DEF SyncHeader
  <2>4. CASE CheckpointFails(t)
    BY <2>4 DEF CheckpointFails
  <2>5. CASE ResetLen(t)
    BY <2>5 DEF ResetLen
  <2>6. CASE ResetHeader(t)
    BY <2>6 DEF ResetHeader
  <2>7. CASE ResetSync(t)
    BY <2>7 DEF ResetSync
  <2>8. CASE ResetFails(t)
    BY <2>8 DEF ResetFails, ResetFailure
  <2>9. ASSUME NEW p \in DataPages, FlushAll(t, p) PROVE ControlInv'
    BY <2>9 DEF FlushAll
  <2> QED
    BY <1>5, <2>1, <2>2, <2>3, <2>4, <2>5, <2>6, <2>7, <2>8, <2>9
       DEF CheckpointStep
<1>6. CASE OpenStep
  <2>1. CASE OpenWal
    BY <2>1 DEF OpenWal
  <2>2. CASE DiscardTail
    BY <2>2 DEF DiscardTail
  <2>3. CASE ReplaySync
    BY <2>3 DEF ReplaySync
  <2>4. CASE OpenDisk
    BY <2>4 DEF OpenDisk
  <2>5. CASE OpenFails
    BY <2>5 DEF OpenFails
  <2>6. ASSUME NEW p \in Pages, ReplayPage(p) PROVE ControlInv'
    BY <2>6 DEF ReplayPage
  <2>7. CASE ResetLen(Opener)
    BY <2>7 DEF ResetLen
  <2>8. CASE ResetHeader(Opener)
    BY <2>8 DEF ResetHeader
  <2>9. CASE ResetSync(Opener)
    BY <2>9 DEF ResetSync
  <2> QED
    BY <1>6, <2>1, <2>2, <2>3, <2>4, <2>5, <2>6, <2>7, <2>8, <2>9
       DEF OpenStep
<1>7. CASE DropHandle
  BY <1>7 DEF DropHandle
<1>8. CASE Kill
  BY <1>8 DEF Kill, Crash
<1>9. CASE PowerLoss
  BY <1>9 DEF PowerLoss, Crash
<1>10. CASE UNCHANGED vars
  BY <1>10 DEF vars
<1> QED
  BY <1>1, <1>2, <1>3, <1>4, <1>5, <1>6, <1>7, <1>8, <1>9, <1>10 DEF Next
=============================================================================
