----------------------------- MODULE CommitProofs -----------------------------
(***************************************************************************)
(* The data part of the inductive invariant (pool, files, log and          *)
(* transaction are well formed), kept by read and write transactions.      *)
(***************************************************************************)
EXTENDS LockProofs, PoolProofs

USE DEF Threads, LockHolders, Opener, Verify, DecodeHeader

\* Where a transaction's pages have been verified.
CommitLabels ==
    {"flush_write", "flush_sync", "publish", "install", "publish_failed"}

\* Where the header has been read.
AssembledLabels == {"up", "set_len", "wal_header", "wal_sync"}

PoolInv ==
    /\ IsPool(cache, dirty, data)
    /\ ~Up => cache = Empty /\ dirty = {}

LogInv ==
    /\ log \in LogFile(Records) /\ FiniteLog(log)
    /\ pending \in SUBSET Records /\ IsFiniteSet(pending)
    /\ nextSeq \in Nat /\ nextTxn \in Nat

\* Only verified pages are published, and page 0 is never a data page.
TxnInv ==
    /\ DOMAIN txn \subseteq DataPages
    /\ txn \in [DOMAIN txn -> Nat \cup {Malformed}]
    /\ txnPages \in Nat /\ pageCount \in Nat /\ todo \subseteq Pages
    /\ \A w \in Writers :
          /\ pc[w] \in CommitLabels => \A p \in DOMAIN txn : txn[p] \in Nat
          /\ pc[w] = "install" => todo \subseteq DOMAIN txn
          /\ pc[w] \in CommitLabels \cup {"txn"} => txnPages > 0
    /\ pc[Opener] \in AssembledLabels => pageCount > 0

FlagInv ==
    /\ poisoned \in BOOLEAN /\ walPoisoned \in BOOLEAN
    /\ serial \in Nat /\ crashes \in Nat /\ faults \in Nat

DataInv == PoolInv /\ LogInv /\ TxnInv /\ FlagInv

\* What an open read transaction can see does not change in this step.
SnapshotKept ==
    \A r \in Readers : pc[r] = "reading" /\ pc'[r] = "reading" =>
       pageCount' = pageCount /\ SamePages(cache', data')

\* A database just opened has its pages and an empty log.
LEMMA DataInit == Init => DataInv
<1> SUFFICES ASSUME Init PROVE DataInv
  OBVIOUS
<1>1. Stored(InitialFile) \in PageFile(Pages, Contents)
  <2>1. InitialFile \in [Pages -> Contents]
    BY ConstantsAssumption, Constants DEF InitialFile, Contents
  <2> QED
    BY <2>1, StoredType
<1>2. PoolInv
  BY <1>1, EmptyPool DEF Init, PoolInv
<1>3. LogInv
  <2>1. IsImage([first |-> 0, recs |-> {}], Records)
    BY FS_EmptySet DEF IsImage, LogImage
  <2> QED
    BY <2>1, SavedLogType, FS_EmptySet DEF Init, LogInv
<1>4. TxnInv
  BY ConstantsAssumption DEF Init, TxnInv, Empty, CommitLabels,
     AssembledLabels
<1>5. FlagInv
  BY Zenon DEF Init, FlagInv
<1> QED
  BY <1>2, <1>3, <1>4, <1>5 DEF DataInv

\* A step that touches none of the files, the pool and the log.
LEMMA Untouched ==
  ASSUME DataInv, UNCHANGED <<data, log, poolVars, walVars, nextTxn>>,
         ~Up \/ Up'
  PROVE  PoolInv' /\ LogInv' /\ SamePages(cache', data')
<1>1. PoolInv'
  BY DEF DataInv, PoolInv, poolVars
<1>2. LogInv'
  BY DEF DataInv, LogInv, walVars
<1>3. SamePages(cache', data')
  BY DEF SamePages, Shown, Fetched, poolVars
<1> QED
  BY <1>1, <1>2, <1>3

\* HandleGone: nothing is left but the files.
LEMMA GoneOK ==
  ASSUME ControlInv, HandleGone, data' \in PageFile(Pages, Contents),
         log' \in LogFile(Records), FiniteLog(log'), FlagInv'
  PROVE  DataInv' /\ SnapshotKept
<1>1. PoolInv'
  BY EmptyPool DEF HandleGone, PoolInv
<1>2. LogInv'
  BY FS_EmptySet DEF HandleGone, LogInv
<1>3. TxnInv'
  BY ThreadsAssumption DEF HandleGone, TxnInv, Empty, CommitLabels,
     AssembledLabels
<1>4. SnapshotKept
  BY ThreadsAssumption DEF HandleGone, SnapshotKept
<1> QED
  BY <1>1, <1>2, <1>3, <1>4 DEF DataInv

\* ReadTxn: its reads only move pages in and out of the pool.
LEMMA DataStepReaders ==
  ASSUME ControlInv, DataInv, NEW r \in Readers, ReadTxnStep(r)
  PROVE  DataInv' /\ SnapshotKept
<1>0. Up /\ Up'
  BY ThreadsAssumption DEF ReadTxnStep, BeginRead, EnterRead, EndRead,
     ReadPage, ControlInv, LockInv, PcOK, Up, Goto
<1>1. CASE BeginRead(r) \/ EnterRead(r) \/ EndRead(r)
  <2>1. /\ UNCHANGED <<data, log, poolVars, dbVars, walVars, lockVars, txnVars,
                       countVars>>
        /\ \A w \in Writers \cup {Opener} : pc'[w] = pc[w]
    BY <1>1, ThreadsAssumption
       DEF BeginRead, EnterRead, EndRead, Goto, ControlInv, PcOK
  <2>2. PoolInv' /\ LogInv' /\ SamePages(cache', data')
    BY <1>0, <2>1, Untouched DEF dbVars
  <2>3. TxnInv' /\ FlagInv'
    BY <2>1 DEF DataInv, TxnInv, FlagInv, dbVars, txnVars, walVars, countVars
  <2> QED
    BY <2>1, <2>2, <2>3 DEF DataInv, SnapshotKept, dbVars
<1>2. ASSUME NEW p \in DataPages, ReadPage(r, p) PROVE DataInv' /\ SnapshotKept
  <2>1. IsPool(cache', dirty', data') /\ SamePages(cache', data')
    BY <1>2, FetchPageOK, FetchPageFailsOK DEF ReadPage, DataInv, PoolInv
  <2>2. faults' \in Nat
    BY <1>2 DEF ReadPage, FetchPage, FetchPageFails, WriteBackFails, Fails,
       NoFault, DataInv, FlagInv
  <2>3. UNCHANGED <<log, dbVars, walVars, lockVars, txnVars, pc, serial,
                    crashes>>
    BY <1>2 DEF ReadPage
  <2>4. LogInv' /\ TxnInv' /\ FlagInv'
    BY <2>2, <2>3 DEF DataInv, LogInv, TxnInv, FlagInv, dbVars, walVars, txnVars
  <2> QED
    BY <1>0, <2>1, <2>3, <2>4 DEF DataInv, PoolInv, SnapshotKept, dbVars
<1> QED
  BY <1>1, <1>2 DEF ReadTxnStep

\* The records of a commit are well formed, and finitely many.
LEMMA LogRecordsOK ==
  ASSUME NEW t \in Nat, NEW seq \in Nat, NEW images,
         DOMAIN images \subseteq Pages,
         \A p \in DOMAIN images : images[p] \in Contents
  PROVE  /\ LogRecords(t, seq, images) \in SUBSET Records
         /\ IsFiniteSet(LogRecords(t, seq, images))
         /\ Cardinality(DOMAIN images) \in Nat
<1> DEFINE S == DOMAIN images
           rec(p) == [type |-> "image", seq |-> seq + Rank(S, p), txn |-> t,
                      page |-> p, val |-> images[p]]
           T == {rec(p) : p \in S}
           last == [type |-> "commit", seq |-> seq + Cardinality(S), txn |-> t]
<1>1. IsFiniteSet(S) /\ Cardinality(S) \in Nat
  BY Constants, FS_Subset, FS_CardinalityType
<1>2. ASSUME NEW p \in S PROVE Rank(S, p) \in Nat
  <2>1. {q \in S : q < p} \in SUBSET S
    OBVIOUS
  <2> QED
    BY <1>1, <2>1, FS_Subset, FS_CardinalityType DEF Rank
<1>3. ASSUME NEW p \in S PROVE rec(p) \in Records
  BY <1>2, <1>3 DEF Records, WalRecord
<1>4. last \in Records
  BY <1>1 DEF Records, WalRecord
<1>5. IsFiniteSet(T)
  <2> DEFINE f == [p \in S |-> rec(p)]
  <2>1. f \in Surjection(S, T)
    BY DEF Surjection
  <2> QED
    BY <1>1, <2>1, FS_Surjection
<1>6. LogRecords(t, seq, images) = T \cup {last}
  BY DEF LogRecords
<1>7. IsFiniteSet(T \cup {last})
  BY <1>5, FS_AddElement
<1> HIDE DEF rec, last
<1>8. T \cup {last} \in SUBSET Records
  BY <1>3, <1>4
<1> QED
  BY <1>1, <1>6, <1>7, <1>8

\* The images a commit logs: verified pages, and the header.
LEMMA ImagesOK ==
  ASSUME DataInv
  PROVE  /\ DOMAIN Images \subseteq Pages
         /\ \A p \in DOMAIN Images : Images[p] \in Contents
BY Constants DEF DataInv, TxnInv, Images, With

\* WriteTxn::commit appends well-formed records to Wal::pending.
LEMMA CommitOK ==
  ASSUME ControlInv, DataInv, NEW w \in Writers, Commit(w)
  PROVE  LogInv'
<1>1. nextTxn \in Nat /\ nextSeq \in Nat
  BY DEF DataInv, LogInv
<1> DEFINE R == LogRecords(nextTxn, nextSeq, Images)
<1>2. /\ R \in SUBSET Records /\ IsFiniteSet(R)
      /\ Cardinality(DOMAIN Images) \in Nat
  BY <1>1, ImagesOK, LogRecordsOK
<1>3. pending' = pending \cup R
  BY DEF Commit
<1> HIDE DEF R
<1>4. pending' \in SUBSET Records /\ IsFiniteSet(pending')
  BY Zenon, <1>2, <1>3, FS_Union DEF DataInv, LogInv
<1>5. nextSeq' \in Nat /\ nextTxn' \in Nat
  BY <1>1, <1>2 DEF Commit
<1> QED
  BY <1>4, <1>5 DEF Commit, DataInv, LogInv

\* Steps of a write transaction, in three groups: those that touch neither
\* the pool nor a file, those that log, those that use the pool.
LEMMA WriterRuns ==
  ASSUME ControlInv, NEW w \in Writers, WriteTxnStep(w)
  PROVE  /\ Up /\ Up'
         /\ \A v \in Writers \ {w} : pc'[v] = pc[v]
         /\ \A v \in Writers \ {w} : pc[w] \in HoldLabels =>
                                       pc[v] \notin HoldLabels
         /\ \A r \in Readers : pc'[r] = pc[r]
<1>1. pc[w] # "idle" \/ Up
  BY Zenon DEF WriteTxnStep, BeginWrite, EnterWrite, InTxn, Rollback, Commit,
     FlushWrite, FlushSync, FlushFails, Publish, EndPublish,
     PublishFails, AllocatePage, ReadInTxn, Install, InstallFails, PageMut
<1>2. pc' = pc \/ \E l : pc' = [pc EXCEPT ![w] = l]
  BY Zenon DEF WriteTxnStep, BeginWrite, EnterWrite, InTxn, Rollback, Commit,
     FlushWrite, FlushSync, FlushFails, Publish, EndPublish,
     PublishFails, AllocatePage, ReadInTxn, Install, InstallFails, PageMut, Release,
     StartCheckpoint, Goto
<1> QED
  BY <1>1, <1>2, ThreadsAssumption DEF ControlInv, PcOK, LockInv, Up

\* Beginning, allocating, publishing and returning.
LEMMA DataStepQuiet ==
  ASSUME ControlInv, DataInv, NEW w \in Writers, WriteTxnStep(w),
         \/ BeginWrite(w) \/ EnterWrite(w) \/ Rollback(w) \/ Publish(w)
         \/ EndPublish(w) \/ PublishFails(w) \/ AllocatePage(w, serial + 1)
  PROVE  DataInv' /\ SnapshotKept
<1>1. PoolInv' /\ LogInv' /\ SamePages(cache', data')
  <2>1. UNCHANGED <<data, log, poolVars, walVars, nextTxn>>
    BY DEF BeginWrite, EnterWrite, Rollback, Publish, EndPublish,
     PublishFails,   AllocatePage, dbVars
  <2> QED
    BY Zenon, <2>1, WriterRuns, Untouched
<1>2. SnapshotKept
  <2>1. pageCount' = pageCount \/ \A r \in Readers : pc[r] # "reading"
    BY DEF BeginWrite, EnterWrite, Rollback, Publish, EndPublish,
     PublishFails,   AllocatePage, dbVars
  <2> QED
    BY <1>1, <2>1 DEF SnapshotKept
<1>3. FlagInv'
  BY Zenon DEF BeginWrite, EnterWrite, Rollback, Publish, EndPublish,
     PublishFails, AllocatePage, DataInv, FlagInv, dbVars, walVars, countVars
<1>4. TxnInv'
  <2> USE WriterRuns DEF DataInv, TxnInv, ControlInv, PcOK, LockInv, HoldLabels,
          CommitLabels, AssembledLabels, Up, Goto, Release, dbVars, txnVars
  <2>1. CASE BeginWrite(w)
    BY <2>1 DEF BeginWrite
  <2>2. CASE EnterWrite(w)
    BY <2>2 DEF EnterWrite
  <2>3. CASE Rollback(w)
    BY <2>3 DEF Rollback, InTxn, Empty
  <2>4. CASE Publish(w)
    BY <2>4, Constants DEF Publish
  <2>5. CASE EndPublish(w)
    <3>1. DOMAIN cache \subseteq Pages
      BY Constants DEF PoolInv, IsPool
    <3>2. pc'[w] \in {"idle", "flush_all"}
      BY <2>5 DEF EndPublish, StartCheckpoint
    <3>3. txn' = Empty /\ txnPages' = 0 /\ todo' \subseteq Pages
      BY <2>5, <3>1 DEF EndPublish, StartCheckpoint
    <3> QED
      BY <2>5, <3>2, <3>3 DEF EndPublish, Empty
  <2>6. CASE PublishFails(w)
    BY <2>6 DEF PublishFails, Empty
  <2>7. CASE AllocatePage(w, serial + 1)
    <3>1. serial + 1 \in Nat /\ txnPages \in DataPages
      BY <2>7, ConstantsAssumption
         DEF AllocatePage, InTxn, FlagInv, DataPages, Pages, HEADER
    <3> QED
      BY <2>7, <3>1 DEF AllocatePage, InTxn, With
  <2> QED
    BY <2>1, <2>2, <2>3, <2>4, <2>5, <2>6, <2>7
<1> QED
  BY <1>1, <1>2, <1>3, <1>4 DEF DataInv

\* WriteTxn::commit and Wal::flush.
LEMMA DataStepLogging ==
  ASSUME ControlInv, DataInv, NEW w \in Writers, WriteTxnStep(w),
         Commit(w) \/ FlushWrite(w) \/ FlushSync(w) \/ FlushFails(w)
  PROVE  DataInv' /\ SnapshotKept
<1>1. UNCHANGED <<data, poolVars, pageCount>>
  BY DEF Commit, FlushWrite, FlushSync, FlushFails, dbVars
<1>5. FlagInv'
  <2>1. serial' \in Nat /\ crashes' \in Nat /\ faults' \in Nat
    BY DEF Commit, FlushWrite, FlushSync, FlushFails, Fails, DataInv, FlagInv,
       countVars
  <2>2. \/ poisoned' = poisoned /\ walPoisoned' = walPoisoned
        \/ poisoned' = TRUE /\ walPoisoned' = TRUE
    BY DEF Commit, FlushWrite, FlushSync, FlushFails, dbVars, walVars
  <2> QED
    BY Zenon, <2>1, <2>2 DEF DataInv, FlagInv
<1>2. PoolInv' /\ SamePages(cache', data')
  <2>1. Up'
    BY WriterRuns
  <2> QED
    BY <1>1, <2>1 DEF DataInv, PoolInv, poolVars, SamePages, Shown, Fetched
<1>3. LogInv'
  <2>1. CASE Commit(w)
    BY <2>1, CommitOK
  <2>2. CASE FlushWrite(w)
    <3>1. log' \in LogFile(Records) /\ FiniteLog(log')
      BY <2>2, LogAppendedType DEF FlushWrite, DataInv, LogInv
    <3> QED
      BY <2>2, <3>1 DEF FlushWrite, DataInv, LogInv, walVars, dbVars
  <2>3. CASE FlushSync(w)
    <3>1. log' \in LogFile(Records) /\ FiniteLog(log')
      BY <2>3, LogSyncType DEF FlushSync, DataInv, LogInv
    <3> QED
      BY <2>3, <3>1, FS_EmptySet DEF FlushSync, DataInv, LogInv, dbVars
  <2>4. CASE FlushFails(w)
    <3>1. log' \in LogFile(Records) /\ FiniteLog(log')
      <4>1. log \in LogFile(Records) /\ FiniteLog(log)
        BY DEF DataInv, LogInv
      <4>2. ASSUME NEW written \in SUBSET pending,
                   log' = LogAppended(log, written)
            PROVE  log' \in LogFile(Records) /\ FiniteLog(log')
        <5>1. IsFiniteSet(written) /\ written \in SUBSET Records
          BY FS_Subset DEF DataInv, LogInv
        <5> QED
          BY <4>1, <4>2, <5>1, LogAppendedType
      <4>3. CASE log' = LogSyncFailed(log)
        BY <4>1, <4>3, LogSyncType
      <4>4. Prefixes(pending) \subseteq SUBSET pending
        BY DEF Prefixes
      <4> QED
        BY <2>4, <4>2, <4>3, <4>4 DEF FlushFails
    <3> QED
      BY <2>4, <3>1 DEF FlushFails, DataInv, LogInv
  <2> QED
    BY <2>1, <2>2, <2>3, <2>4
<1>4. TxnInv'
  <2> USE WriterRuns DEF DataInv, TxnInv, ControlInv, PcOK, LockInv, HoldLabels,
          CommitLabels, AssembledLabels, Up, Goto, Release, dbVars, txnVars
  <2>1. CASE Commit(w)
    BY <2>1 DEF Commit, InTxn
  <2>2. CASE FlushWrite(w)
    BY <2>2 DEF FlushWrite
  <2>3. CASE FlushSync(w)
    BY <2>3 DEF FlushSync
  <2>4. CASE FlushFails(w)
    BY <2>4 DEF FlushFails, Empty
  <2> QED
    BY <2>1, <2>2, <2>3, <2>4
<1> QED
  BY <1>1, <1>2, <1>3, <1>4, <1>5 DEF DataInv, SnapshotKept

\* Reading, copying and installing pages through the pool.
LEMMA DataStepPages ==
  ASSUME ControlInv, DataInv, NEW w \in Writers, WriteTxnStep(w),
         NEW p \in DataPages,
         \/ ReadInTxn(w, p) \/ Install(w, p) \/ InstallFails(w, p)
         \/ \E v \in NewContents : PageMut(w, p, v)
  PROVE  DataInv' /\ SnapshotKept
<1> USE DEF dbVars, walVars, txnVars
<1>1. UNCHANGED <<log, dbVars, walVars, serial, crashes, txnPages>>
  BY Zenon DEF ReadInTxn, Install, InstallFails, PageMut
<1>2. faults' \in Nat
  <2>1. faults' = faults \/ faults' = faults + 1
    BY Zenon DEF ReadInTxn, Install, InstallFails, PageMut, FetchPage,
       FetchPageFails, InstallPage, WriteBackFails, Fails, NoFault
  <2> QED
    BY <2>1 DEF DataInv, FlagInv
<1>3. LogInv' /\ FlagInv'
  BY <1>1, <1>2 DEF DataInv, LogInv, FlagInv
<1>4. Up /\ Up'
  BY Zenon, WriterRuns
<1>5. IsPool(cache, dirty, data)
  BY DEF DataInv, PoolInv
<1> USE DEF CommitLabels, HoldLabels
<1>6. CASE ReadInTxn(w, p)
  <2>1. IsPool(cache', dirty', data') /\ SamePages(cache', data')
    BY Zenon, <1>5, <1>6, FetchPageOK, FetchPageFailsOK DEF ReadInTxn
  <2>2. TxnInv'
    BY <1>6 DEF ReadInTxn, DataInv, TxnInv
  <2> QED
    BY <1>1, <1>3, <1>4, <2>1, <2>2 DEF DataInv, PoolInv, SnapshotKept
<1>7. ASSUME NEW v \in NewContents, PageMut(w, p, v)
      PROVE  DataInv' /\ SnapshotKept
  <2>1. /\ IsPool(cache', dirty', data') /\ SamePages(cache', data')
        /\ \E u \in Nat \cup {Malformed} : txn' = With(txn, p, u)
    <3>1. v \in Nat \cup {Malformed}
      BY DEF NewContents, DataInv, FlagInv
    <3>2. CASE p \in DOMAIN txn
      BY Zenon, <1>5, <1>7, <3>1, <3>2
         DEF PageMut, poolVars, SamePages, Shown, Fetched
    <3>3. CASE p \notin DOMAIN txn
      <4>1. FetchPage(p) /\ (txn' = With(txn, p, v)
                               \/ txn' = With(txn, p, cache'[p]))
        BY Zenon, <1>7, <3>3 DEF PageMut
      <4> QED
        BY SMTT(20), <1>5, <3>1, <4>1, FetchPageOK
    <3> QED
      BY <3>2, <3>3
  <2>2. TxnInv'
    <3>1. pc[w] = "txn" /\ pc' = pc /\ todo' = todo
      BY <1>7 DEF PageMut, InTxn
    <3>2. \A u \in Writers : pc[u] \notin CommitLabels
      BY <3>1, WriterRuns
    <3>3. /\ DOMAIN txn' \subseteq DataPages
          /\ txn' \in [DOMAIN txn' -> Nat \cup {Malformed}]
      BY <2>1 DEF With, DataInv, TxnInv
    <3> QED
      BY <1>1, <3>1, <3>2, <3>3 DEF DataInv, TxnInv
  <2> QED
    BY Zenon, <1>1, <1>3, <1>4, <2>1, <2>2 DEF DataInv, PoolInv, SnapshotKept
<1>8. CASE Install(w, p)
  <2>1. pc[w] = "install" /\ p \in DOMAIN txn /\ txn[p] \in Nat
    BY <1>8 DEF Install, IsNext, DataInv, TxnInv
  <2>2. IsPool(cache', dirty', data')
    BY SMTT(20), <1>5, <1>8, <2>1, InstallPageOK DEF Install
  <2>3. \A r \in Readers : pc[r] # "reading"
    BY <2>1, ThreadsAssumption DEF ControlInv, LockInv
  <2>4. TxnInv'
    BY <1>8 DEF Install, DataInv, TxnInv
  <2> QED
    BY <1>3, <1>4, <2>2, <2>3, <2>4 DEF DataInv, PoolInv, SnapshotKept
<1>9. CASE InstallFails(w, p)
  <2>1. IsPool(cache', dirty', data') /\ SamePages(cache', data')
    BY <1>5, <1>9, WriteFailureOK DEF InstallFails, WriteBackFails
  <2>2. TxnInv'
    BY <1>9, WriterRuns DEF InstallFails, Goto, DataInv, TxnInv, ControlInv,
       PcOK, Up, AssembledLabels
  <2> QED
    BY <1>1, <1>3, <1>4, <2>1, <2>2 DEF DataInv, PoolInv, SnapshotKept
<1> QED
  BY <1>6, <1>7, <1>8, <1>9
=============================================================================
