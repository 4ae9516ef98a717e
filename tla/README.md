# A TLA+ verification of oxenDB's storage engine

oxenDB (`src/crates/oxendb`) is an embedded, single-writer transactional page
store: a data file of 4 KiB pages, a redo-only write-ahead log (WAL) of full page
images, a buffer pool, snapshot-style read transactions and crash recovery by
replay. This directory models the engine in TLA+, checks small instances with TLC
and proves some of its invariants for all instances with TLAPS.

Paths below are relative to `src/crates/oxendb/src/`.

## 1. The parts of the system

| Part | Source | What it does | Here |
|------|--------|--------------|------|
| Database handle | `db/mod.rs` | creates, opens, recovers, checkpoints; owns the WAL mutex (the single-writer lock), the publish lock and the poison flag | `Database`, `Lifecycle` |
| Transactions | `db/txn.rs` | `ReadTxn` holds the publish lock shared; `WriteTxn` holds the WAL mutex, keeps private copies, logs, syncs, publishes | `Database`, `PoolClients` |
| WAL | `storage/wal/log.rs`, `record.rs` | append, flush (write + sync), reset, open with tail truncation | `Database`, `WalLog`, `WalFile` |
| Recovery | `storage/recovery.rs` | replays the last committed image of each page | `Database`, `WalLog` |
| Data file | `storage/disk.rs`, `file_header.rs`, `page.rs` | page reads with verification, page writes, header, sync | `Database`, `PageStore` |
| Buffer pool | `storage/buffer_pool.rs` | shards of frames, pins, CLOCK eviction with write-back | `BufferPool`, `PageMemory`, `Shards`; `Database` one call at a time |
| Checksum | `storage/checksum/` | CRC32C in software and hardware | `Crc32c` |
| Files | std and the OS | `write_all_at`, `set_len`, `sync_data`, `sync_all` | `Files` (external) |

How they interact: a commit verifies its pages, appends their images and a commit
record to the WAL, writes and syncs it, takes the publish lock exclusively, raises
the page count and installs the images in the pool, where they are dirty. Dirty
pages reach the data file in place, when evicted or at a checkpoint; the data
file's header only at a checkpoint or in a replay. A checkpoint flushes, syncs,
writes the header, syncs, and resets the WAL. An open reads the WAL up to its first
bad record, replays, opens the data file and resets the WAL. An error that leaves
memory out of step with the files poisons the handle.

## 2. The modules

**`Files`** is external: what the operating system promises. A
file has `now` (what reads return, and what a killed process leaves) and `may`
(all that a power loss could leave). A page write that is not synced may be on the
medium, absent or torn; unsynced log records may be there in any subset; a
truncation and a header write of the log may have happened or not. After a failed
sync the kernel may have dropped the data and marked it clean (`lost`), so a later
successful sync does not make it durable. Three assumptions are made where the
code makes them: the WAL's 24-byte header is replaced as a whole (one sector), the
death of a process does not split a single page write, and rewriting a page with
the bytes it already has cannot tear it.

**`WalLog`** has the log as data: the records of a commit (`LogRecords`), the ones
`Wal::open` accepts (`Readable`), and what `replay` applies (`Committed`,
`CommittedImages`, `Latest`). A record keeps its sequence number, so a set of
records determines their place in the file.

**`Database`** is the engine. Its variables are the fields of `Database`,
`WriteTxn`, `Wal`, `BufferPool` and `DiskManager` that hold state, the two files,
the owners of the two locks, and a program counter `pc` for each thread and for
the thread that runs `open` (`Opener`). A step ends at every lock, write and sync,
which is where another thread or a crash can tell the difference:

| Code | Actions |
|------|---------|
| `ReadTxn::new`, `read_page`, drop | `BeginRead`, `EnterRead`, `ReadPage`, `EndRead` |
| `WriteTxn::new` | `BeginWrite`, `EnterWrite` (the two checks for poison) |
| `read_page`, `page_mut`, `allocate_page`, `rollback` | `ReadInTxn`, `PageMut`, `AllocatePage`, `Rollback` |
| `commit` | `Commit`, `FlushWrite`, `FlushSync`, `FlushFails`, `Publish`, `Install`, `InstallFails`, `PublishFails`, `EndPublish` |
| `checkpoint`, `checkpoint_locked`, `write_checkpoint` | `BeginCheckpoint`, `EnterCheckpoint`, `FlushAll`, `SyncPages`, `WriteHeader`, `SyncHeader`, `CheckpointFails` |
| `Wal::reset` | `ResetLen`, `ResetHeader`, `ResetSync`, `ResetFails` |
| `open_existing` | `OpenWal`, `DiscardTail`, `ReplayPage`, `ReplaySync`, `OpenDisk`, the reset, `OpenFails` |
| the end of a handle | `DropHandle`, `Kill`, `PowerLoss` |

Abstractions: the contents of a page are the number of the transaction that wrote
it, `Malformed` (a caller overwrote the page header, which `Page::verify`
refuses), `Torn` or `Hole`; those of page 0 are its page count. The automatic
checkpoint counts records instead of bytes. A pool call is one step, and
any cached page may be its victim, which includes every choice CLOCK can make; the
steps inside a call are `BufferPool`'s. Log messages, statistics and error texts are left out.

**`AtomicStore`** is what the engine promises about crashes: one value per page,
and commits that replace the values of their pages all together. `Database`
implements it through two refinement mappings, in which the store's contents are
what the next recovery would restore: after a power loss (`PowerStore`) and after
the death of the process (`KillStore`).

**`BufferPool`** is one shard of the pool at the level of its locks. Its variables
are the fields of `PoolState` (page table, pins, reference bits, CLOCK hand, free
list), the frames, the file behind them, the owner of the `state` mutex, and the
handles and guards in the hands of each thread. A step goes from one blocking point
to the next: `Hit` and `Miss` (the lookup), one iteration of the CLOCK `Sweep`,
`Evict` (the write-back of the victim), `Fill` (the read, or the installed
contents), `Overwrite` (install of a cached page, which waits for its frame without
`state`), `Snapshot`, `FlushPage` and `FlushWriteBack` (the flushes), `Unpin`,
`TakeRead` and `TakeWrite`. Callers hold several handles and guards at once. They
keep two rules that the code leaves to them: no install or flush with a handle in
hand, and no second guard that conflicts with one's own or is of the same page.

**`PageMemory`** is what the pool promises: a memory of pages with shared and
exclusive guards, in which an install happens at one instant or not at all. Frames,
evictions and the disk do not appear. `BufferPool` implements it (`IsPageMemory`):
the contents of a page are those of its frame if it has one, and of the disk
otherwise.

**`PoolClients`** composes `BufferPool` with the locks of the database handle: read
transactions whose `read_page` callbacks nest (a stack: the innermost returns first,
and drops its guard, then its handle), a commit that publishes its pages one
`install_page` at a time, write transactions that end without one, and checkpoints
with `flush_all`. It refines the granularity at which `Database` uses the pool; the
log is left out.

**`Shards`** is `BufferPool::new`'s split of the frames and `shard_for`'s hash, a
64-bit multiplication whose upper half is computed in limbs.

**`WalFile`** is the log as bytes amount to it: encoded records back to back, found
by decoding one after the other (`NextRecord`, `Scan`), on a file where an
interrupted write leaves any of its cells. A ghost variable keeps the same log in
the terms of `Files`, and `LogIsSetOfRecords` shows that the set of records that
`Database` works with is what the bytes give.

**`PageStore`** is `DiskManager` with the fields of pages and of the file header, the
order of the checks in `Page::verify`, `FileHeader::decode` and `DiskManager::open`,
and a medium that tears, misdirects and drops writes, lets stored fields decay and
cuts the file short, also inside page 0 (`Cut`). A checksum is there the fields it was
computed over. The ghost `newest` has, for each page, what was last written if nothing
has damaged it.

**`Crc32c`** has the tables, slicing by eight, the split of a piece between
instruction and byte loop, and the incremental hasher, on words of 32 bits held as
sets, against the bitwise definition (whose standard check value is an `ASSUME`).

**`Lifecycle`** is `Database::open`: creating or opening, `DiskManager::create` and
`Wal::create` call by call with the syncs of the directory, replay, reset, the
refusals, and the removal of a log. For a power loss a directory entry is durable
only after a sync of the directory. Commits and checkpoints are there only as far
as they decide which file holds what. `env` says which of kills, power losses, I/O
errors and removals a behaviour may have.

**`MCDatabase`**, **`MCBufferPool`**, **`MCPoolClients`** and **`MCStorage`**
instantiate them for TLC. `MCStorage` takes `Crc32c`, `Shards`, `PageStore`,
`WalFile` and `Lifecycle`, which share no state: each behaviour is of one of them.
`MCPoolClients` takes `PoolClients` twice, with a narrow pool and with a wide one.
The proofs are in `FilesProofs`, `LockProofs`, `PoolProofs`, `CommitProofs`,
`RecoveryProofs` and `DatabaseProofs`.

Definitions whose comment begins with "Mutation" are plausible bugs in the
definition that follows them. No specification uses them; putting one in the place
of its original shows that a property can fail.

## 3. What is checked

Of the engine (`Database`): `PowerSafe` and `KillSafe` (a crash at any point leaves
exactly what transactions read, plus possibly the commit that is being logged),
`Recoverable` (log and data file together always determine an intact copy of every
page, also in the middle of a recovery), `SnapshotStable` (nothing an open read
transaction can read changes), `ReadersSeeWholeCommits`, `PoisonKeepsLog` (a poisoned
handle removes nothing from the log), the refinements `PowerRefinement` and
`KillRefinement`, and the liveness properties `CommitReturns` and `OpenCompletes`.

Of the pool: `StateHolderNeverWaits` (the lock order of the module's docs: whoever
holds `state` finds the frame lock it wants free), `HandlesValid` (a handle's frame
holds its page until it is dropped), `PinsAreCounted`, `NoFrameLeaks` (every frame
is free, mapped or in some thread's hands, also after failed reads and write-backs),
`FlushAllWritesEverything`, `ExhaustedOnlyWhenAllPinned` (two sweeps always find an
unpinned frame), `IsPageMemory`. Of the pool under the database:
`PublishIsNeverExhausted` (a durable commit never meets a full pool, so a busy pool
cannot poison the handle), `SnapshotHolds`, `CheckpointIsComplete`, and
`TransactionsEnd` (no circle among the four kinds of locks, also with two read
transactions that hold two pages each).

Of the storage below: `ShardsAreUsable` (no shard without frames, and no frame of the
requested capacity lost) and `NearlyFullWhenRefused` (sequential ids
fill the shards evenly); `FlushedIsReadable`, `NothingStaleIsRead` and
`LogIsSetOfRecords` of the log's bytes; `ReadIsAVersion`, `UndamagedIsReadBack` (damage
to one page costs no other) and `DamageIsCorruption` of the data file; `IsTheChecksum` and `BurstsAreDetected`;
`CommitsSurvive`, `NoOrphanWal` and `CommittedNeverRefused` of the two files and
their directory.

| Run | Instance | Shows |
|-----|----------|-------|
| `power` | writer, checkpointer, reader, 2 power losses | `TypeOK`, `PowerSafe`, `Recoverable`, `PowerRefinement` |
| `kill` | writer, checkpointer, 2 readers, 2 kills, a failing log write | `KillSafe`, `KillRefinement`, `SnapshotStable`, `ReadersSeeWholeCommits` |
| `io_errors` | 2 writers, reader, 2 I/O errors on either file | `KillSafe`, `PoisonKeepsLog` |
| `progress` | 2 writers, reader, an I/O error on the data file, a power loss, fairness | `Recoverable`, `PowerRefinement`, `CommitReturns`, `OpenCompletes` |
| `pool` | 2 threads, 3 pages, 2 frames, 5 calls, a disk error | the properties of the pool |
| `clients` | writer, checkpointer, 2 pages, fairness; 1 frame, a reader and a disk error, or 2 frames and 2 readers | the properties of the pool under the database |
| `storage` | `Crc32c`, `Shards`, `PageStore`, `WalFile`, `Lifecycle` | the properties of the storage below |
| `stale_checkpoint`, `half_published`, `unsynced_replay`, `wal_removed`, `unsynced_entry` | the findings of section 5 | violations |

**Bounds of `Database`.** Two data pages and the header (three data pages in
`half_published`), a database of two pages that can grow to three, one frame, two
transactions, at most two crashes and two I/O errors. One frame for two pages makes
every second access evict; two pages make a commit that can be half done; growth by
one page makes the header image appear or not; two transactions give a log with two
images of one page, and a commit on top of an evicted one; two crashes let a
recovery be interrupted and run again. `AutoCheckpoint = 3` makes the log of a commit
that changes two pages, or one and the header, trigger a checkpoint and that of a
smaller one not.

**Bounds of the pool.** Three pages on two frames force an eviction while another
page stays pinned; two handles per thread allow nested reads; five calls are enough
for two threads to meet in an eviction, an install and a flush of one page (with four,
an eviction of a pinned frame goes unnoticed). In `clients` there are two
instances. With one frame (`Narrow`) every second page evicts, a reader's pin alone
exhausts the pool, and a disk error can hit any of it. With two frames (`Wide`) two
readers can each be in the callback of one page inside that of the other, in opposite
orders, both frames locked by both, while a commit waits and a checkpoint flushes;
four fetches are what this takes. (With exclusive instead of shared page locks the
wide instance deadlocks and the narrow one does not.)

**Bounds of the storage.** Capacities around the multiples of 64 and the powers of two
at which the number of shards changes, and pages until the largest of them is full; two
pages of two payloads with three writes and two faults; four log records in batches of
up to two, two crashes, one I/O error; up to 18 bytes in pieces of 1, 9 and 16, so that the
eight-byte loop runs not at all, with a remainder and without; five opens,
two commits and three crashes of a lifecycle, in environments with power losses (with
and without a removed log) and with kills and I/O errors.

**Fairness.** `FairSpec` assumes that a call that has begun goes on (weak fairness
of the steps of a commit, a checkpoint and an open) and that read transactions
end, which the docs of `ReadTxn` ask of the caller. Nothing forces a client to
begin or to commit. `WriterPriority` says that new readers do not overtake a
publish that waits for the lock: std's futex-based `RwLock` on Linux behaves so,
its documentation does not promise it, and without it commits can wait for ever
(the mutation of `EnterRead` shows this). `DbSpec` of `PoolClients` assumes the same
of the threads in the pool, that callbacks return and drop their guards, and that a
transaction once begun is ended; that the frames' and the publish lock do not let
readers overtake is again `WriterPriority`.

`Kill` and `PowerLoss` are not combined in a passing run because of findings 3 and
5, log errors not with power losses because of finding 3, I/O errors on the data file
not with an explicit checkpointer because of finding 1, nor with
`ReadersSeeWholeCommits` because of finding 2, and kills not with a removed log
because of finding 4.

## 4. What is proved

For any sets of threads, any number of pages, frames and transactions, and any
crashes and I/O errors (assumptions: the named `ASSUME`s of `Database`, which only
say that the constants have their types, that the three kinds of threads are
disjoint and that the special page contents are not numbers):

- `TypeCorrect`: `Spec => []TypeOK`. It says more than the shape of the state: only
  pages that pass `Page::verify` are ever cached.
- `Snapshots`: `Spec => SnapshotStable`. The view of an open reader never changes.
- `PoisonedLogIsKept`: without explicit checkpointers, `Spec => PoisonKeepsLog`.
  The run `stale_checkpoint` shows that the assumption is needed.

The inductive invariant is `IInv == ControlInv /\ DataInv`. `TypeOK` alone is not
inductive: that a fetched page is a number needs `Verify` in the fetch, but that an
installed one is needs to know that a transaction past `Commit` has verified
every page it holds (`TxnInv`); that a read transaction's view does not change when
its page is evicted needs that a clean cached page equals the file's copy
(`PoolInv`), and that no publish runs beside it needs mutual exclusion of `publisher`
and open readers (`LockInv`, in `ControlInv`). `LogInv` says that what can be in
the log is well typed whatever the crash, which a recovery needs. The argument:

1. `FilesProofs`: every operation of `Files` maps files to files.
2. `LockProofs`: `ControlInv` (who is where, and who holds which lock) is inductive
   on its own.
3. `PoolProofs`: each pool call keeps the pool's type and `PoolInv`, and returns the
   same view of every page it does not install.
4. `CommitProofs`, `RecoveryProofs`: one lemma per group of actions, each showing
   that `DataInv` is preserved and that the snapshot is kept.
5. `DatabaseProofs`: combines them into `Invariance` and derives the theorems.
   `PoisonInv` strengthens `IInv` for the third: in a poisoned handle nobody is
   inside a transaction or checkpoint.

Only model-checked: everything about crashes (`PowerSafe`, `KillSafe`,
`Recoverable`, the refinements), `ReadersSeeWholeCommits`, the modules `BufferPool`,
`PoolClients`, `Shards`, `WalFile`, `PageStore`, `Crc32c` and `Lifecycle`, and
liveness. Liveness is out of the prover's reach, and so is what the recursive
definitions of `WalFile` and `Crc32c` compute for every input.

## 5. Findings

1. **A checkpoint that waited for the lock does not check for poison again**
   (`db/mod.rs:178`). `WriteTxn::new` does. If a commit fails to publish while the
   checkpoint waits, the checkpoint writes a header for pages that are in neither
   the pool nor the file, and empties the log that had them. `db/mod.rs:190-193`
   promises that a failure leaves the WAL intact until the database is reopened.
   Run `stale_checkpoint`.
2. **The publish lock is released before the handle is poisoned**
   (`db/txn.rs:168-173`), so a reader that is already past its check for poison
   can read half a commit; `db/mod.rs:67-68` says that readers never do. Run
   `half_published`.
3. **Recovery replays log records that are not synced** (`db/mod.rs:119-120`,
   `storage/wal/log.rs:132`). After a kill between the write and the sync of a commit, and a
   power loss during the next open, a page can be torn without its image in the
   log; `docs/adr/0002-wal-and-recovery.md:54-55` says that cannot happen to the
   header. Run `unsynced_replay`.
4. **A log that open creates anew can be left without its header**
   (`storage/wal/log.rs:75`). When the log is missing, `open_existing` calls
   `Wal::create`, which creates the file and then writes its header; after a kill
   between the two, every later open refuses the database for a log that holds
   nothing. `docs/adr/0002-wal-and-recovery.md:105-106` says that a missing log is
   treated as empty. Run `wal_removed`.
5. **A directory entry that was never synced is used as if it were durable**
   (`db/mod.rs:119`). Only the call that creates a file syncs the directory. After a
   kill between the creation of a file and that sync, the next open finds and uses the
   file; commits are acknowledged, and a power loss takes the entry away.
   `docs/release-criteria.md:22-23` requires that a crash does not lose committed
   data. Run `unsynced_entry`.

## 6. What is not modelled, and the plan

Not modelled and not planned: panics and poisoned mutexes (every lock error is a
panic elsewhere first); two processes on one database (the code takes no file lock);
the byte offsets of fields in pages, headers and records (`PageStore` and `WalFile`
have the fields, their checks and what the checksum covers; an offset is data no
property here tells apart); error texts, logging and the counters of `RecoveryStats`;
`Page::set_lsn`, which nothing calls; `install_page`'s refusal of a page whose id is
another's, which changes nothing and which no caller meets (`commit` has verified the
ids); declarations and re-exports (`error.rs`, `lib.rs`). What a nested `read_page` of one page does while a flush waits for its
frame is excluded by the callers' rules of `BufferPool`: std's `RwLock` may then block
the caller on itself, and the code leaves it to the caller.

Left to do are proofs: the pool's lock order and pin counts (`StateHolderNeverWaits`,
`HandlesValid`, `PinsAreCounted`) for any number of threads and frames, then `KillSafe`
(the invariant relates the log's committed images to cache and file), `PowerSafe` and
the refinements.
