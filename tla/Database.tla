------------------------------ MODULE Database ------------------------------
(***************************************************************************)
(* An oxenDB database handle (crates/oxendb/src/db) over its two files:    *)
(* write transactions, read transactions, checkpoints, and the recovery    *)
(* every open runs, with process kills, power losses and I/O errors        *)
(* between any two of their steps.                                         *)
(*                                                                         *)
(* A step ends where another thread, or a crash, can tell the difference:  *)
(* at every lock, every write to a file and every sync.  Page contents are *)
(* abstracted to the number of the transaction that wrote them; the        *)
(* contents of page 0, the file header, to the page count it stores.       *)
(***************************************************************************)
EXTENDS Naturals, FiniteSets, TLC, Files, WalLog

CONSTANTS
    Writers, Checkpointers, Readers,   \* the threads sharing the handle
    MaxPage,          \* the highest page id the model allocates
    InitialPages,     \* page count of the database at the start
    Frames,           \* Options::buffer_pool_pages
    AutoCheckpoint,   \* Options::auto_checkpoint_bytes in records, 0: None
    WriterPriority,   \* does a waiting publish keep new readers out?
    Faults,           \* of "kill", "power", "walio", "dataio"
    MaxTxns,          \* bound on logged transactions
    MaxCrashes,       \* bound on kills and power losses
    MaxFaults,        \* bound on I/O errors
    Hole,             \* a page the file does not reach, or zeroes
    Malformed,        \* a page whose header its transaction overwrote
    None

Pages == 0 .. MaxPage
HEADER == 0
DataPages == Pages \ {HEADER}
Opener == "opener"      \* the thread that runs Database::open
Threads == Writers \cup Checkpointers \cup Readers
LockHolders == Writers \cup Checkpointers
Contents == Nat \cup {Torn, Hole, Malformed}

\* Page::verify of a data page: what a transaction wrote passes, what was
\* torn, never written or overwritten in its header does not.
Verify(page) == page \in Nat

\* FileHeader::decode of page 0: an intact header lists at least itself.
DecodeHeader(page) == page \in Nat \ {0}

Records == WalRecord(Pages, Contents)

FaultKinds == {"kill", "power", "walio", "dataio"}

ASSUME ConstantsAssumption ==
    /\ MaxPage \in Nat /\ InitialPages \in 1 .. (MaxPage + 1)
    /\ Frames \in Nat \ {0} /\ AutoCheckpoint \in Nat
    /\ WriterPriority \in BOOLEAN
    /\ Faults \subseteq FaultKinds
    /\ MaxTxns \in Nat /\ MaxCrashes \in Nat /\ MaxFaults \in Nat

ASSUME ThreadsAssumption ==
    /\ None \notin Threads /\ Opener \notin Threads
    /\ Writers \cap Checkpointers = {}
    /\ Writers \cap Readers = {}
    /\ Checkpointers \cap Readers = {}

ASSUME ContentsAssumption ==
    Torn \notin Nat /\ Hole \notin Nat /\ Malformed \notin Nat

VARIABLES
    data, log,      \* the data file and the WAL file (module Files)
    cache, dirty,   \* BufferPool: cached pages, and which differ from disk
    pageCount,      \* DiskManager::page_count
    poisoned,       \* Database::poisoned
    nextTxn,        \* Database::next_txn
    nextSeq,        \* Wal::next_seq
    pending,        \* Wal::pending
    walPoisoned,    \* Wal::poisoned
    walOwner,       \* who holds Database::wal
    publisher,      \* who holds Database::publish exclusively
    txn,            \* WriteTxn::dirty of the open write transaction
    txnPages,       \* WriteTxn::page_count
    todo,           \* pages the running publish, flush or replay has left
    pc,             \* where each thread is
    serial,         \* number of transactions logged so far
    crashes, faults \* how many crashes and I/O errors have happened

poolVars == <<cache, dirty>>
walVars == <<nextSeq, pending, walPoisoned>>
lockVars == <<walOwner, publisher>>
txnVars == <<txn, txnPages, todo>>
dbVars == <<pageCount, poisoned, nextTxn>>
countVars == <<serial, crashes, faults>>
vars == <<data, log, poolVars, dbVars, walVars, lockVars, txnVars, pc,
          countVars>>

\* A map with a point set or removed, and the empty map.
With(f, x, v) == [y \in DOMAIN f \cup {x} |-> IF y = x THEN v ELSE f[y]]
Without(f, x) == [y \in DOMAIN f \ {x} |-> f[y]]
Empty == [x \in {} |-> None]

-----------------------------------------------------------------------------
(***************************************************************************)
(* States                                                                  *)
(***************************************************************************)

\* A database of InitialPages pages, just opened, with an empty WAL: newly
\* created, or opened without a WAL file, which creates one that starts at
\* sequence number 0.
InitialFile ==
    [p \in Pages |-> IF p = HEADER THEN InitialPages
                     ELSE IF p < InitialPages THEN 0 ELSE Hole]

Init ==
    /\ data = Stored(InitialFile)
    /\ log = SavedLog([first |-> 0, recs |-> {}])
    /\ cache = Empty /\ dirty = {}
    /\ pageCount = InitialPages /\ poisoned = FALSE /\ nextTxn = 1
    /\ nextSeq = 0 /\ pending = {} /\ walPoisoned = FALSE
    /\ walOwner = None /\ publisher = None
    /\ txn = Empty /\ txnPages = 0 /\ todo = {}
    /\ pc = [t \in Threads \cup {Opener} |-> IF t = Opener THEN "up"
                                             ELSE "idle"]
    /\ serial = 0 /\ crashes = 0 /\ faults = 0

Up == pc[Opener] = "up"
Goto(t, l) == pc' = [pc EXCEPT ![t] = l]

\* An I/O error of this kind may happen now; the action that takes it counts.
Fails(kind) == kind \in Faults /\ faults < MaxFaults /\ faults' = faults + 1
NoFault == UNCHANGED faults

\* The lock holder drops its guard and its private state and returns.
Release(t) ==
    /\ walOwner' = None
    /\ txn' = Empty /\ txnPages' = 0 /\ todo' = {}
    /\ Goto(t, "idle")

-----------------------------------------------------------------------------
(***************************************************************************)
(* The buffer pool, one call at a time: a call holds the shard's `state'   *)
(* lock, and the write-back and the read of a miss happen under it.  Any   *)
(* cached page may be the victim; pins are dropped within the call that    *)
(* takes them.                                                             *)
(***************************************************************************)

\* Mutation: a dirty victim is dropped without write-back.
AcquireFrameDropsDirty ==
    IF Cardinality(DOMAIN cache) < Frames
    THEN {[cache |-> cache, dirty |-> dirty, data |-> data]}
    ELSE {[cache |-> Without(cache, q), dirty |-> dirty \ {q},
           data |-> data] : q \in DOMAIN cache}

\* Shard::acquire_frame: a free frame, or an evicted page's, written back
\* first if dirty.
AcquireFrame ==
    IF Cardinality(DOMAIN cache) < Frames
    THEN {[cache |-> cache, dirty |-> dirty, data |-> data]}
    ELSE {[cache |-> Without(cache, q), dirty |-> dirty \ {q},
           data |-> IF q \in dirty THEN PageWritten(data, q, cache[q])
                    ELSE data] : q \in DOMAIN cache}

\* The pool once there is a frame for page p.
FrameFor(p) ==
    IF p \in DOMAIN cache
    THEN {[cache |-> cache, dirty |-> dirty, data |-> data]}
    ELSE AcquireFrame

\* The write-back of the victim fails: it stays cached and dirty.
WriteBackFails ==
    /\ Cardinality(DOMAIN cache) >= Frames
    /\ Fails("dataio")
    /\ \E q \in dirty : data' \in PageWriteFailures(data, q, cache[q])
    /\ UNCHANGED poolVars

\* Shard::fetch_page, with DiskManager::read_page on a miss; the page it
\* returns is cache'[p].
FetchPage(p) ==
    \E a \in FrameFor(p) :
       LET page == IF p \in DOMAIN a.cache THEN a.cache[p]
                   ELSE a.data.now[p]
       IN  /\ Verify(page)
           /\ cache' = With(a.cache, p, page)
           /\ dirty' = a.dirty
           /\ data' = a.data
           /\ NoFault

\* fetch_page returns an error: the write-back failed, or, the victim gone
\* already, the read failed or page.verify refused what it returned.
FetchPageFails(p) ==
    /\ p \notin DOMAIN cache
    /\ \/ WriteBackFails
       \/ \E a \in AcquireFrame :
             /\ IF Verify(a.data.now[p]) THEN Fails("dataio") ELSE NoFault
             /\ cache' = a.cache /\ dirty' = a.dirty /\ data' = a.data

\* Shard::install_page.
InstallPage(p, page) ==
    /\ \E a \in FrameFor(p) :
          /\ cache' = With(a.cache, p, page)
          /\ dirty' = a.dirty \cup {p}
          /\ data' = a.data
    /\ NoFault

\* Shard::flush_page.
FlushPage(p) ==
    /\ data' = IF p \in dirty THEN PageWritten(data, p, cache[p]) ELSE data
    /\ dirty' = dirty \ {p}
    /\ UNCHANGED cache
    /\ NoFault

FlushPageFails(p) ==
    /\ p \in dirty
    /\ Fails("dataio")
    /\ data' \in PageWriteFailures(data, p, cache[p])
    /\ UNCHANGED poolVars

-----------------------------------------------------------------------------
(***************************************************************************)
(* Read transactions (db/txn.rs, ReadTxn)                                  *)
(***************************************************************************)

\* ReadTxn::new up to publish.read(): the only check for poison.
BeginRead(r) ==
    /\ Up /\ pc[r] = "idle" /\ ~poisoned
    /\ Goto(r, "lock_publish")
    /\ UNCHANGED <<data, log, poolVars, dbVars, walVars, lockVars, txnVars,
                   countVars>>

\* Mutation: a reader gets in while a commit is being published.
EnterReadDuringPublish(r) ==
    /\ pc[r] = "lock_publish"
    /\ Goto(r, "reading")
    /\ UNCHANGED <<data, log, poolVars, dbVars, walVars, lockVars, txnVars,
                   countVars>>

\* Mutation: new readers overtake a publish that waits.
EnterReadOvertakes(r) ==
    /\ pc[r] = "lock_publish" /\ publisher = None
    /\ Goto(r, "reading")
    /\ UNCHANGED <<data, log, poolVars, dbVars, walVars, lockVars, txnVars,
                   countVars>>

\* publish.read() returns.
EnterRead(r) ==
    /\ pc[r] = "lock_publish" /\ publisher = None
    /\ WriterPriority => \A w \in Writers : pc[w] # "publish"
    /\ Goto(r, "reading")
    /\ UNCHANGED <<data, log, poolVars, dbVars, walVars, lockVars, txnVars,
                   countVars>>

\* ReadTxn::read_page, of a page within the page count.
ReadPage(r, p) ==
    /\ pc[r] = "reading" /\ p # HEADER /\ p < pageCount
    /\ FetchPage(p) \/ FetchPageFails(p)
    /\ UNCHANGED <<log, dbVars, walVars, lockVars, txnVars, pc, serial,
                   crashes>>

\* Dropping the ReadTxn.
EndRead(r) ==
    /\ pc[r] = "reading"
    /\ Goto(r, "idle")
    /\ UNCHANGED <<data, log, poolVars, dbVars, walVars, lockVars, txnVars,
                   countVars>>

-----------------------------------------------------------------------------
(***************************************************************************)
(* Write transactions (db/txn.rs, WriteTxn)                                *)
(***************************************************************************)

\* WriteTxn::new up to lock_wal().
BeginWrite(w) ==
    /\ Up /\ pc[w] = "idle" /\ ~poisoned
    /\ Goto(w, "lock_wal")
    /\ UNCHANGED <<data, log, poolVars, dbVars, walVars, lockVars, txnVars,
                   countVars>>

\* Mutation: poison is not checked again once the lock is held.
EnterWriteUnchecked(w) ==
    /\ pc[w] = "lock_wal" /\ walOwner = None
    /\ Goto(w, "txn")
    /\ walOwner' = w
    /\ txnPages' = pageCount
    /\ UNCHANGED <<data, log, poolVars, dbVars, walVars, publisher, txn, todo,
                   countVars>>

\* lock_wal() returns; the second check for poison, then page_count.
EnterWrite(w) ==
    /\ pc[w] = "lock_wal" /\ walOwner = None
    /\ IF poisoned
       THEN Goto(w, "idle") /\ UNCHANGED <<walOwner, txnPages>>
       ELSE /\ Goto(w, "txn")
            /\ walOwner' = w
            /\ txnPages' = pageCount
    /\ UNCHANGED <<data, log, poolVars, dbVars, walVars, publisher, txn, todo,
                   countVars>>

InTxn(w) == pc[w] = "txn"
IsTxnPage(p) == p # HEADER /\ p < txnPages

\* WriteTxn::read_page of a page the transaction has no copy of.
ReadInTxn(w, p) ==
    /\ InTxn(w) /\ IsTxnPage(p) /\ p \notin DOMAIN txn
    /\ FetchPage(p) \/ FetchPageFails(p)
    /\ UNCHANGED <<log, dbVars, walVars, lockVars, txnVars, pc, serial,
                   crashes>>

\* WriteTxn::page_mut, which copies a page on first use, and what the caller
\* does to the copy: leave it, or overwrite it with v, well formed or not.
\* (An error of the fetch leaves the transaction as ReadInTxn's does.)
PageMut(w, p, v) ==
    /\ InTxn(w) /\ IsTxnPage(p)
    /\ IF p \in DOMAIN txn
       THEN /\ txn' = With(txn, p, v)
            /\ UNCHANGED <<data, poolVars, faults>>
       ELSE /\ FetchPage(p)
            /\ \/ txn' = With(txn, p, v)
               \/ txn' = With(txn, p, cache'[p])
    /\ UNCHANGED <<log, dbVars, walVars, lockVars, txnPages, todo, pc, serial,
                   crashes>>

\* WriteTxn::allocate_page; MaxPage bounds the model.
AllocatePage(w, v) ==
    /\ InTxn(w) /\ txnPages <= MaxPage
    /\ txn' = With(txn, txnPages, v)
    /\ txnPages' = txnPages + 1
    /\ UNCHANGED <<data, log, poolVars, dbVars, walVars, lockVars, todo, pc,
                   countVars>>

\* WriteTxn::rollback, dropping the transaction, commit() of an empty one,
\* and commit() of one with a malformed page, which returns before it logs.
Rollback(w) ==
    /\ InTxn(w)
    /\ Release(w)
    /\ UNCHANGED <<data, log, poolVars, dbVars, walVars, publisher, countVars>>

\* The images commit() logs: the header's too if the transaction grew the
\* database.
Images ==
    IF txnPages > pageCount THEN With(txn, HEADER, txnPages) ELSE txn

\* Mutation: pages are not verified before they are logged.
CommitUnverified(w) ==
    /\ InTxn(w) /\ serial < MaxTxns /\ txn # Empty
    /\ pending' = pending \cup LogRecords(nextTxn, nextSeq, Images)
    /\ nextSeq' = nextSeq + Cardinality(DOMAIN Images) + 1
    /\ nextTxn' = nextTxn + 1
    /\ serial' = serial + 1
    /\ Goto(w, "flush_write")
    /\ UNCHANGED <<data, log, poolVars, pageCount, poisoned, walPoisoned,
                   lockVars, txnVars, crashes, faults>>

\* WriteTxn::commit up to wal.flush(): every page is sealed and verified,
\* the transaction gets its id, and its records their sequence numbers.
Commit(w) ==
    /\ InTxn(w) /\ serial < MaxTxns
    /\ txn # Empty /\ \A p \in DOMAIN txn : Verify(txn[p])
    /\ pending' = pending \cup LogRecords(nextTxn, nextSeq, Images)
    /\ nextSeq' = nextSeq + Cardinality(DOMAIN Images) + 1
    /\ nextTxn' = nextTxn + 1
    /\ serial' = serial + 1
    /\ Goto(w, "flush_write")
    /\ UNCHANGED <<data, log, poolVars, pageCount, poisoned, walPoisoned,
                   lockVars, txnVars, crashes, faults>>

\* Wal::flush, write_all_at.
FlushWrite(w) ==
    /\ pc[w] = "flush_write"
    /\ log' = LogAppended(log, pending)
    /\ Goto(w, "flush_sync")
    /\ UNCHANGED <<data, poolVars, dbVars, walVars, lockVars, txnVars,
                   countVars>>

\* Mutation: the commit goes on without the sync.
FlushSyncSkipped(w) ==
    /\ pc[w] = "flush_sync"
    /\ pending' = {}
    /\ Goto(w, "publish")
    /\ UNCHANGED <<data, log, poolVars, dbVars, nextSeq, walPoisoned, lockVars,
                   txnVars, countVars>>

\* Wal::flush, sync_data; then commit() goes on to publish.
FlushSync(w) ==
    /\ pc[w] = "flush_sync"
    /\ log' = LogSynced(log)
    /\ pending' = {}
    /\ Goto(w, "publish")
    /\ UNCHANGED <<data, poolVars, dbVars, nextSeq, walPoisoned, lockVars,
                   txnVars, countVars>>

\* Mutation: a failed flush poisons nothing.
FlushFailsUnpoisoned(w) ==
    /\ Fails("walio")
    /\ \/ /\ pc[w] = "flush_write"
          /\ \E b \in Prefixes(pending) : log' = LogAppended(log, b)
       \/ /\ pc[w] = "flush_sync"
          /\ log' = LogSyncFailed(log)
    /\ Release(w)
    /\ UNCHANGED <<data, poolVars, dbVars, walVars, publisher, serial, crashes>>

\* Either fails: the log and the database are poisoned.  A failed write may
\* leave the first of the records behind.
FlushFails(w) ==
    /\ Fails("walio")
    /\ \/ /\ pc[w] = "flush_write"
          /\ \E b \in Prefixes(pending) : log' = LogAppended(log, b)
       \/ /\ pc[w] = "flush_sync"
          /\ log' = LogSyncFailed(log)
    /\ walPoisoned' = TRUE
    /\ poisoned' = TRUE
    /\ Release(w)
    /\ UNCHANGED <<data, poolVars, pageCount, nextTxn, nextSeq, pending,
                   publisher, serial, crashes>>

\* Mutation: the publish lock is not taken exclusively.
PublishAmongReaders(w) ==
    /\ pc[w] = "publish" /\ publisher = None
    /\ publisher' = w
    /\ pageCount' = txnPages
    /\ todo' = DOMAIN txn
    /\ Goto(w, "install")
    /\ UNCHANGED <<data, log, poolVars, poisoned, nextTxn, walVars, walOwner,
                   txn, txnPages, countVars>>

\* WriteTxn::publish: publish.write() returns once no reader is left;
\* set_page_count.
Publish(w) ==
    /\ pc[w] = "publish" /\ publisher = None
    /\ \A r \in Readers : pc[r] # "reading"
    /\ publisher' = w
    /\ pageCount' = txnPages
    /\ todo' = DOMAIN txn
    /\ Goto(w, "install")
    /\ UNCHANGED <<data, log, poolVars, poisoned, nextTxn, walVars, walOwner,
                   txn, txnPages, countVars>>

IsNext(p) == p \in todo /\ \A q \in todo : p <= q

\* publish(): the next image goes into the pool.
Install(w, p) ==
    /\ pc[w] = "install" /\ IsNext(p)
    /\ InstallPage(p, txn[p])
    /\ todo' = todo \ {p}
    /\ UNCHANGED <<log, dbVars, walVars, lockVars, txn, txnPages, pc, serial,
                   crashes>>

\* install_page fails: publish() returns, which frees the publish lock ...
InstallFails(w, p) ==
    /\ pc[w] = "install" /\ IsNext(p) /\ p \notin DOMAIN cache
    /\ WriteBackFails
    /\ publisher' = None
    /\ Goto(w, "publish_failed")
    /\ UNCHANGED <<log, dbVars, walVars, walOwner, txnVars, serial, crashes>>

\* ... and only then does commit() poison the database.
PublishFails(w) ==
    /\ pc[w] = "publish_failed"
    /\ poisoned' = TRUE
    /\ Release(w)
    /\ UNCHANGED <<data, log, poolVars, pageCount, nextTxn, walVars,
                   publisher, countVars>>

\* checkpoint_locked begins: flush_all lists the cached pages.
StartCheckpoint(t) ==
    /\ walOwner' = t
    /\ txn' = Empty /\ txnPages' = 0
    /\ todo' = DOMAIN cache
    /\ Goto(t, "flush_all")

\* publish() returns, maybe_auto_checkpoint looks at the length of the log,
\* and commit() returns Ok unless there is a checkpoint to run first.
EndPublish(w) ==
    /\ pc[w] = "install" /\ todo = {}
    /\ publisher' = None
    /\ IF AutoCheckpoint # 0 /\ Cardinality(log.now.recs) >= AutoCheckpoint
       THEN StartCheckpoint(w)
       ELSE Release(w)
    /\ UNCHANGED <<data, log, poolVars, dbVars, walVars, countVars>>

-----------------------------------------------------------------------------
(***************************************************************************)
(* Checkpoints (db/mod.rs), by a writer after its commit or by a           *)
(* Database::checkpoint call                                               *)
(***************************************************************************)

\* Database::checkpoint up to lock_wal(): the only check for poison.
BeginCheckpoint(c) ==
    /\ Up /\ pc[c] = "idle" /\ ~poisoned
    /\ Goto(c, "lock_wal")
    /\ UNCHANGED <<data, log, poolVars, dbVars, walVars, lockVars, txnVars,
                   countVars>>

EnterCheckpoint(c) ==
    /\ pc[c] = "lock_wal" /\ walOwner = None
    /\ StartCheckpoint(c)
    /\ UNCHANGED <<data, log, poolVars, dbVars, walVars, publisher, countVars>>

\* flush_cached: one page.
FlushAll(t, p) ==
    /\ pc[t] = "flush_all" /\ p \in todo
    /\ FlushPage(p)
    /\ todo' = todo \ {p}
    /\ UNCHANGED <<log, dbVars, walVars, lockVars, txn, txnPages, pc, serial,
                   crashes>>

\* The sync at the end of flush_all.
SyncPages(t) ==
    /\ pc[t] = "flush_all" /\ todo = {}
    /\ data' = PagesSynced(data)
    /\ Goto(t, "write_header")
    /\ UNCHANGED <<log, poolVars, dbVars, walVars, lockVars, txnVars,
                   countVars>>

\* DiskManager::write_file_header.
WriteHeader(t) ==
    /\ pc[t] = "write_header"
    /\ data' = PageWritten(data, HEADER, pageCount)
    /\ Goto(t, "sync_header")
    /\ UNCHANGED <<log, poolVars, dbVars, walVars, lockVars, txnVars,
                   countVars>>

\* Mutation: the header is not synced before the log is reset.
SyncHeaderSkipped(t) ==
    /\ pc[t] = "sync_header"
    /\ Goto(t, "set_len")
    /\ UNCHANGED <<data, log, poolVars, dbVars, walVars, lockVars, txnVars,
                   countVars>>

\* DiskManager::sync; Wal::reset begins by refusing a poisoned log
\* and one with unflushed records.
SyncHeader(t) ==
    /\ pc[t] = "sync_header"
    /\ data' = PagesSynced(data)
    /\ IF walPoisoned \/ pending # {}
       THEN Release(t) /\ poisoned' = TRUE
       ELSE /\ Goto(t, "set_len")
            /\ UNCHANGED <<poisoned, walOwner, txnVars>>
    /\ UNCHANGED <<log, poolVars, pageCount, nextTxn, walVars, publisher,
                   countVars>>

\* Mutation: a failed checkpoint does not poison the database.
CheckpointFailsUnpoisoned(t) ==
    /\ \/ /\ pc[t] = "flush_all"
          /\ \E p \in todo : FlushPageFails(p)
       \/ /\ (pc[t] = "flush_all" /\ todo = {}) \/ pc[t] = "sync_header"
          /\ data' = PagesSyncFailed(data)
          /\ Fails("dataio")
          /\ UNCHANGED poolVars
    /\ Release(t)
    /\ UNCHANGED <<log, dbVars, walVars, publisher, serial, crashes>>

\* A write or a sync of the data file fails: checkpoint_locked poisons.
CheckpointFails(t) ==
    /\ \/ /\ pc[t] = "flush_all"
          /\ \E p \in todo : FlushPageFails(p)
       \/ /\ pc[t] = "write_header"
          /\ data' \in PageWriteFailures(data, HEADER, pageCount)
          /\ Fails("dataio")
          /\ UNCHANGED poolVars
       \/ /\ (pc[t] = "flush_all" /\ todo = {}) \/ pc[t] = "sync_header"
          /\ data' = PagesSyncFailed(data)
          /\ Fails("dataio")
          /\ UNCHANGED poolVars
    /\ poisoned' = TRUE
    /\ Release(t)
    /\ UNCHANGED <<log, pageCount, nextTxn, walVars, publisher, serial,
                   crashes>>

-----------------------------------------------------------------------------
(***************************************************************************)
(* Wal::reset (storage/wal/log.rs), the end of a checkpoint and of an open *)
(***************************************************************************)

\* set_len(WAL_HEADER_SIZE).
ResetLen(t) ==
    /\ pc[t] = "set_len"
    /\ log' = LogTruncated(log, {})
    /\ Goto(t, "wal_header")
    /\ UNCHANGED <<data, poolVars, dbVars, walVars, lockVars, txnVars,
                   countVars>>

\* write_all_at(encode_header(next_seq)).
ResetHeader(t) ==
    /\ pc[t] = "wal_header"
    /\ log' = LogHeaderWritten(log, nextSeq)
    /\ Goto(t, "wal_sync")
    /\ UNCHANGED <<data, poolVars, dbVars, walVars, lockVars, txnVars,
                   countVars>>

\* sync_all: the checkpoint, or the open, has succeeded.
ResetSync(t) ==
    /\ pc[t] = "wal_sync"
    /\ log' = LogSynced(log)
    /\ IF t = Opener
       THEN Goto(t, "up") /\ UNCHANGED <<walOwner, txnVars>>
       ELSE Release(t)
    /\ UNCHANGED <<data, poolVars, dbVars, walVars, publisher, countVars>>

\* What a failed set_len, header write or sync leaves of the log file.
ResetFailure(t) ==
    /\ Fails("walio")
    /\ \/ pc[t] \in {"set_len", "wal_header"} /\ log' = log
       \/ pc[t] = "wal_sync" /\ log' = LogSyncFailed(log)

\* reset() fails in a checkpoint.
ResetFails(t) ==
    /\ t \in LockHolders
    /\ ResetFailure(t)
    /\ walPoisoned' = TRUE
    /\ poisoned' = TRUE
    /\ Release(t)
    /\ UNCHANGED <<data, poolVars, pageCount, nextTxn, nextSeq, pending,
                   publisher, serial, crashes>>

-----------------------------------------------------------------------------
(***************************************************************************)
(* Opening and recovery (Database::open_existing)                          *)
(***************************************************************************)

\* Neither a handle nor any of its threads is left.
HandleGone ==
    /\ cache' = Empty /\ dirty' = {}
    /\ pageCount' = 0 /\ poisoned' = FALSE /\ nextTxn' = 1
    /\ nextSeq' = 0 /\ pending' = {} /\ walPoisoned' = FALSE
    /\ walOwner' = None /\ publisher' = None
    /\ txn' = Empty /\ txnPages' = 0 /\ todo' = {}
    /\ pc' = [t \in Threads \cup {Opener} |-> IF t = Opener THEN "closed"
                                              ELSE "idle"]

\* The committed images in the records Wal::open returns.
Recovered == CommittedImages(Readable(log.now))

\* validate_image.
ValidateImage(r) ==
    IF r.page = HEADER THEN DecodeHeader(r.val) ELSE Verify(r.val)

\* Wal::open, which truncates a damaged tail, and the checks replay makes
\* before its first write: with an invalid image, no open goes further.
OpenWal ==
    /\ pc[Opener] = "closed"
    /\ \A r \in Recovered : ValidateImage(r)
    /\ todo' = ImagePages(Recovered)
    /\ LET valid == Readable(log.now)
       IN  /\ nextSeq' = log.now.first + Cardinality(valid)
           /\ IF valid = log.now.recs
              THEN Goto(Opener, "replay") /\ UNCHANGED log
              ELSE Goto(Opener, "discard") /\ log' = LogTruncated(log, valid)
    /\ UNCHANGED <<data, poolVars, dbVars, pending, walPoisoned, lockVars,
                   txn, txnPages, countVars>>

\* Wal::open syncs the log if it discarded a tail.
DiscardTail ==
    /\ pc[Opener] = "discard"
    /\ log' = LogSynced(log)
    /\ Goto(Opener, "replay")
    /\ UNCHANGED <<data, poolVars, dbVars, walVars, lockVars, txnVars,
                   countVars>>

\* replay: one page, in file order.
ReplayPage(p) ==
    /\ pc[Opener] = "replay" /\ IsNext(p)
    /\ \E r \in Latest(Recovered) :
          r.page = p /\ data' = PageWritten(data, p, r.val)
    /\ todo' = todo \ {p}
    /\ UNCHANGED <<log, poolVars, dbVars, walVars, lockVars, txn, txnPages,
                   pc, countVars>>

\* Mutation: replay does not sync the data file.
ReplaySyncSkipped ==
    /\ pc[Opener] = "replay" /\ todo = {}
    /\ Goto(Opener, "disk_open")
    /\ UNCHANGED <<data, log, poolVars, dbVars, walVars, lockVars, txnVars,
                   countVars>>

\* replay: the sync, if it wrote anything.
ReplaySync ==
    /\ pc[Opener] = "replay" /\ todo = {}
    /\ data' = IF Recovered = {} THEN data ELSE PagesSynced(data)
    /\ Goto(Opener, "disk_open")
    /\ UNCHANGED <<log, poolVars, dbVars, walVars, lockVars, txnVars,
                   countVars>>

\* Mutation: the file must be longer than the header says.
HeaderFitsStrictly ==
    /\ DecodeHeader(data.now[HEADER])
    /\ \E p \in Pages : data.now[p] # Hole /\ data.now[HEADER] < p + 1

\* DiskManager::open: the header decodes, and the file is as long as it says.
HeaderFits ==
    /\ DecodeHeader(data.now[HEADER])
    /\ \E p \in Pages : data.now[p] # Hole /\ data.now[HEADER] <= p + 1

\* DiskManager::open, then the handle is assembled around it; reset() is
\* what is left.
OpenDisk ==
    /\ pc[Opener] = "disk_open"
    /\ IF HeaderFits
       THEN /\ pageCount' = data.now[HEADER]
            /\ Goto(Opener, "set_len")
            /\ UNCHANGED <<poolVars, poisoned, nextTxn, walVars, lockVars,
                           txnVars>>
       ELSE HandleGone
    /\ UNCHANGED <<data, log, countVars>>

\* An I/O error while opening: open() returns it, and may be called again.
OpenFails ==
    /\ \/ /\ pc[Opener] = "discard"
          /\ Fails("walio")
          /\ log' = LogSyncFailed(log) /\ UNCHANGED data
       \/ /\ ResetFailure(Opener)
          /\ UNCHANGED data
       \/ /\ pc[Opener] = "replay"
          /\ Fails("dataio")
          /\ \/ \E r \in Latest(Recovered) :
                   /\ IsNext(r.page)
                   /\ data' \in PageWriteFailures(data, r.page, r.val)
             \/ todo = {} /\ data' = PagesSyncFailed(data)
          /\ UNCHANGED log
       \/ /\ pc[Opener] = "disk_open"
          /\ Fails("dataio")
          /\ UNCHANGED <<data, log>>
    /\ HandleGone
    /\ UNCHANGED <<serial, crashes>>

-----------------------------------------------------------------------------
(***************************************************************************)
(* The end of a handle: dropped, or lost in a crash                        *)
(***************************************************************************)

\* The Database value is dropped; Rust's borrows end every transaction
\* first.
DropHandle ==
    /\ Up /\ \A t \in Threads : pc[t] = "idle"
    /\ HandleGone
    /\ UNCHANGED <<data, log, countVars>>

Crash == crashes < MaxCrashes /\ crashes' = crashes + 1 /\ HandleGone

\* The process dies.  The operating system keeps what was written; of a
\* write_all_at to the log under way, the first records.
Kill ==
    /\ "kill" \in Faults /\ pc[Opener] # "closed"
    /\ \E written \in IF \E w \in Writers : pc[w] = "flush_write"
                      THEN Prefixes(pending) ELSE {{}} :
          log' = LogAppended(log, written)
    /\ Crash
    /\ UNCHANGED <<data, serial, faults>>

\* The machine stops: what was not synced is on the medium or not.
PowerLoss ==
    /\ "power" \in Faults
    /\ \E g \in PageSurvivors(data) : data' = Stored(g)
    /\ \E m \in log.may : log' = SavedLog(m)
    /\ Crash
    /\ UNCHANGED <<serial, faults>>

-----------------------------------------------------------------------------
(***************************************************************************)
(* The specification                                                       *)
(***************************************************************************)

\* What a write transaction puts on a page.
NewContents == {serial + 1, Malformed}

ReadTxnStep(r) ==
    BeginRead(r) \/ EnterRead(r) \/ EndRead(r)
        \/ \E p \in DataPages : ReadPage(r, p)

WriteTxnStep(w) ==
    \/ BeginWrite(w) \/ EnterWrite(w) \/ Rollback(w) \/ Commit(w)
    \/ FlushWrite(w) \/ FlushSync(w) \/ FlushFails(w)
    \/ Publish(w) \/ EndPublish(w) \/ PublishFails(w)
    \/ AllocatePage(w, serial + 1)
    \/ \E p \in DataPages : \/ ReadInTxn(w, p) \/ Install(w, p)
                            \/ InstallFails(w, p)
                            \/ \E v \in NewContents : PageMut(w, p, v)

CheckpointStep(t) ==
    \/ SyncPages(t) \/ WriteHeader(t) \/ SyncHeader(t) \/ CheckpointFails(t)
    \/ ResetLen(t) \/ ResetHeader(t) \/ ResetSync(t) \/ ResetFails(t)
    \/ \E p \in DataPages : FlushAll(t, p)

OpenStep ==
    \/ OpenWal \/ DiscardTail \/ ReplaySync \/ OpenDisk \/ OpenFails
    \/ \E p \in Pages : ReplayPage(p)
    \/ ResetLen(Opener) \/ ResetHeader(Opener) \/ ResetSync(Opener)

Next ==
    \/ \E r \in Readers : ReadTxnStep(r)
    \/ \E w \in Writers : WriteTxnStep(w)
    \/ \E c \in Checkpointers : BeginCheckpoint(c) \/ EnterCheckpoint(c)
    \/ \E t \in LockHolders : CheckpointStep(t)
    \/ OpenStep \/ DropHandle \/ Kill \/ PowerLoss

Spec == Init /\ [][Next]_vars

\* Every call that has begun goes on: threads are scheduled, and read
\* transactions end, as the docs of ReadTxn ask ("a commit waits for open
\* readers to finish").  Nothing makes a client begin or commit.
CommitStep(w) ==
    \/ FlushWrite(w) \/ FlushSync(w) \/ Publish(w) \/ EndPublish(w)
    \/ PublishFails(w)
    \/ \E p \in DataPages : Install(w, p)

FairSpec ==
    /\ Spec
    /\ \A w \in Writers : WF_vars(CommitStep(w))
    /\ \A t \in LockHolders : WF_vars(CheckpointStep(t))
    /\ \A r \in Readers : WF_vars(EndRead(r))
    /\ WF_vars(OpenStep)

-----------------------------------------------------------------------------
(***************************************************************************)
(* Properties                                                              *)
(***************************************************************************)

CheckpointLabels ==
    {"flush_all", "write_header", "sync_header", "set_len", "wal_header",
     "wal_sync"}
WriterLabels ==
    {"idle", "lock_wal", "txn", "flush_write", "flush_sync", "publish",
     "install", "publish_failed"} \cup CheckpointLabels
CheckpointerLabels == {"idle", "lock_wal"} \cup CheckpointLabels
ReaderLabels == {"idle", "lock_publish", "reading"}
OpenerLabels ==
    {"up", "closed", "discard", "replay", "disk_open", "set_len",
     "wal_header", "wal_sync"}
Labels == WriterLabels \cup ReaderLabels \cup OpenerLabels

\* The type invariant of the handle, its threads and its two files.
TypeOK ==
    /\ data \in PageFile(Pages, Contents)
    /\ log \in LogFile(Records)
    /\ DOMAIN cache \subseteq DataPages
    /\ cache \in [DOMAIN cache -> Nat]
    /\ dirty \subseteq DOMAIN cache
    /\ pageCount \in Nat /\ poisoned \in BOOLEAN /\ nextTxn \in Nat
    /\ nextSeq \in Nat /\ pending \subseteq Records
    /\ walPoisoned \in BOOLEAN
    /\ walOwner \in LockHolders \cup {None}
    /\ publisher \in Writers \cup {None}
    /\ DOMAIN txn \subseteq DataPages
    /\ txn \in [DOMAIN txn -> Nat \cup {Malformed}]
    /\ txnPages \in Nat
    /\ todo \subseteq Pages
    /\ pc \in [Threads \cup {Opener} -> Labels]
    /\ \A w \in Writers : pc[w] \in WriterLabels
    /\ \A c \in Checkpointers : pc[c] \in CheckpointerLabels
    /\ \A r \in Readers : pc[r] \in ReaderLabels
    /\ pc[Opener] \in OpenerLabels
    /\ serial \in Nat /\ crashes \in Nat /\ faults \in Nat

\* What fetch_page would return for page p.
Fetched(p) == IF p \in DOMAIN cache THEN cache[p] ELSE data.now[p]

\* What a transaction that began now would read: the page count, and every
\* page below it.
View ==
    [p \in Pages |-> IF p = HEADER THEN pageCount
                     ELSE IF p >= pageCount THEN Hole
                     ELSE Fetched(p)]

\* The contents each page may have once replay has written `latest' to a
\* data file with the possible contents `disk'.
AfterReplay(latest, disk) ==
    [p \in Pages |-> IF p \in ImagePages(latest)
                     THEN {r.val : r \in {q \in latest : q.page = p}}
                     ELSE disk[p]]

\* What the next open finds: after a power loss, one of several databases;
\* after the death of the process, what the page cache holds.
AfterPowerLoss ==
    {AfterReplay(latest, data.may) :
        latest \in {Latest(images) :
           images \in {CommittedImages(Readable(m)) : m \in log.may}}}
AfterKill ==
    {AfterReplay(latest, [p \in Pages |-> {data.now[p]}]) :
        latest \in {Latest(images) :
           images \in {CommittedImages(Readable(log.now))}}}

\* A database in which the contents of every page are certain.
Certain(f) == [p \in DOMAIN f |-> {f[p]}]

At(labels) == \E w \in Writers : pc[w] \in labels

\* Every database a crash can leave, of the set `outcomes', is the one
\* transactions read: with the running commit once it is durable, with or
\* without it while it is being written to the log.
IsWholeCommits(outcomes) ==
    LET before == Certain(View)
        after == Certain(Images @@ View)
    IN  outcomes \subseteq
           IF At({"flush_write", "flush_sync"}) THEN {before, after}
           ELSE IF At({"publish", "install", "publish_failed"}) THEN {after}
           ELSE {before}

\* WriteTxn::commit "makes every change durable and visible, or none of
\* them": while the handle is healthy, a power loss at any point, in a
\* commit, a checkpoint or an eviction, leaves exactly what transactions
\* read, plus the commit under way if its records are in the log.
PowerSafe == Up /\ ~poisoned => IsWholeCommits(AfterPowerLoss)

\* The same of the death of the process: recovery from what the operating
\* system kept gives exactly the committed transactions.
KillSafe == Up /\ ~poisoned => IsWholeCommits(AfterKill)

\* At every moment, before, during and after recovery, the log and the
\* data file together determine an intact copy of every page: a page or
\* header that a checkpoint, an eviction or a replay left torn always has
\* its image in the log.
Recoverable ==
    \A s \in AfterPowerLoss :
       \E n \in 1 .. MaxPage + 1 :
          \A p \in Pages : \E v \in s[p] :
             /\ s[p] = {v}
             /\ IF p = HEADER THEN v = n
                ELSE IF p < n THEN v \in Nat ELSE v = Hole

\* ReadTxn "sees a consistent snapshot": while a read transaction is open,
\* nothing it can read changes, whatever commits, checkpoints, evictions
\* and failing writes go on.
SnapshotStable ==
    [][\A r \in Readers :
          pc[r] = "reading" /\ pc'[r] = "reading" => View' = View]_vars

\* "Readers never see a half-published commit" (Database::publish): what
\* an open read transaction sees is what a recovery would restore, or the
\* database before the one commit that is waiting for it to end.
ReadersSeeWholeCommits ==
    ~walPoisoned /\ (\E r \in Readers : pc[r] = "reading") =>
       AfterKill \subseteq {Certain(View)} \cup
          IF At({"flush_write", "flush_sync", "publish"})
          THEN {Certain(Images @@ View)} ELSE {}

\* After a failure "reopening replays the still-intact WAL"
\* (checkpoint_locked): until then a poisoned handle removes nothing from
\* the log.
PoisonKeepsLog ==
    [][Up /\ Up' /\ poisoned => log.now.recs \subseteq log'.now.recs]_vars

\* commit() waits for the readers of the moment, not for those that come
\* later, and for nothing else: every commit that has begun returns, or
\* ends with the process.
CommitReturns ==
    \A w \in Writers : pc[w] = "flush_write" ~> pc[w] = "idle"

\* However often an open is cut short, by a crash during recovery or by an
\* I/O error, a database can be opened again: recovery can be repeated.
OpenCompletes == pc[Opener] = "closed" ~> Up

-----------------------------------------------------------------------------
(***************************************************************************)
(* The handle and its files implement an atomic store, whose contents are  *)
(* what the next recovery would make of them.                              *)
(***************************************************************************)

Writing ==
    IF At({"flush_write", "flush_sync"}) THEN Certain(Images) ELSE Empty

PowerStore == INSTANCE AtomicStore
                 WITH writing <- Writing, possible <- AfterPowerLoss
KillStore == INSTANCE AtomicStore
                 WITH writing <- Writing, possible <- AfterKill
=============================================================================
