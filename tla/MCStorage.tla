----------------------------- MODULE MCStorage ------------------------------
(***************************************************************************)
(* The components at the bottom of the engine, which share no state, in    *)
(* one instance for TLC.  A behaviour is one of Crc32c, Shards, PageStore, *)
(* WalFile or Lifecycle, as `part' says; the variables of the others keep  *)
(* their initial values.  The properties are those of the components.      *)
(***************************************************************************)
EXTENDS Crc32c

CONSTANTS
    Capacities, MaxPageId,
    MaxPages, Payloads, Unsealed, Rotten, Cut, MaxWrites, StoreFaults,
    Hole, Torn, MaxRecords, MaxBatch, WalCrashes, WalFaults,
    Absent, Partial, Environments, MaxOpens, MaxCommits, MaxCrashes

VARIABLES
    part,
    frames, requested, pinned, next, refused,
    header, pages, isOpen, page_count, last, versions, newest, writes,
    storeFaults,
    now, may, lost, pending, durable_len, next_seq, poisoned, walPc, contents,
    flushed, log, stamps, walCrashes, walFaults,
    dir, medium, pc, pool, result, committed, env, opens, crashes

Split == INSTANCE Shards
Store == INSTANCE PageStore WITH MaxFaults <- StoreFaults, faults <- storeFaults
Wal == INSTANCE WalFile WITH
    MaxCrashes <- WalCrashes, MaxFaults <- WalFaults,
    pc <- walPc, crashes <- walCrashes, faults <- walFaults
Life == INSTANCE Lifecycle

Parts == {"checksum", "shards", "store", "wal", "lifecycle"}

shardVars == <<frames, requested, pinned, next, refused>>
storeVars == <<header, pages, isOpen, page_count, last, versions, newest,
               writes, storeFaults>>
walVars == <<now, may, lost, pending, durable_len, next_seq, poisoned, walPc,
             contents, flushed, log, stamps, walCrashes, walFaults>>
lifeVars == <<dir, medium, pc, pool, result, committed, env, opens, crashes>>
allVars == <<part, vars, shardVars, storeVars, walVars, lifeVars>>

\* A choice that another part's Init offers is not made.
AllInit ==
    /\ part \in Parts
    /\ Init /\ (part # "checksum" => cpu = "none")
    /\ Split!Init /\ Store!Init /\ Wal!Init
    /\ Life!Init /\ (part # "lifecycle" => env = CHOOSE e \in Environments : TRUE)

AllNext ==
    /\ UNCHANGED part
    /\ \/ /\ part = "checksum" /\ Next
          /\ UNCHANGED <<shardVars, storeVars, walVars, lifeVars>>
       \/ /\ part = "shards" /\ Split!Next
          /\ UNCHANGED <<vars, storeVars, walVars, lifeVars>>
       \/ /\ part = "store" /\ Store!Next
          /\ UNCHANGED <<vars, shardVars, walVars, lifeVars>>
       \/ /\ part = "wal" /\ Wal!Next
          /\ UNCHANGED <<vars, shardVars, storeVars, lifeVars>>
       \/ /\ part = "lifecycle" /\ Life!Next
          /\ UNCHANGED <<vars, shardVars, storeVars, walVars>>

AllSpec == AllInit /\ [][AllNext]_allVars

-----------------------------------------------------------------------------
\* The log and the two files stay well typed: the fields of Wal agree with
\* its file, and a handle that Database::open returned has a pool with pages.
StorageTypeOK == Wal!TypeOK /\ Life!TypeOK

\* BufferPool::new splits its frames into shards that are all of use.
ShardsAreUsable == Split!ShardsAreUsable
\* A shard that refuses a page is full only when the pool nearly is.
NearlyFullWhenRefused == Split!NearlyFullWhenRefused

\* DiskManager::read_page returns a version of the page that was written.
ReadIsAVersion == Store!ReadIsAVersion
\* DiskManager::read_page returns the last version, unless that is damaged.
UndamagedIsReadBack == Store!UndamagedIsReadBack
\* DiskManager::open calls a damaged header corrupt.
DamageIsCorruption == Store!DamageIsCorruption

\* Wal::open finds every record whose flush returned.
FlushedIsReadable == Wal!FlushedIsReadable
\* Wal::open finds no record that a reset or another open had discarded.
NothingStaleIsRead == Wal!NothingStaleIsRead
\* The file of encoded records is a log as module Files has it.
LogIsSetOfRecords == Wal!LogIsSetOfRecords

\* A crash leaves every commit that returned.
CommitsSurvive == Life!CommitsSurvive
\* A power loss leaves no log without a database file it belongs to.
NoOrphanWal == Life!NoOrphanWal
\* Database::open does not refuse a database with committed transactions.
CommittedNeverRefused == Life!CommittedNeverRefused
=============================================================================
