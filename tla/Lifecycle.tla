----------------------------- MODULE Lifecycle ------------------------------
(***************************************************************************)
(* Opening, creating and closing a database (db/mod.rs), with the creation *)
(* of its two files (DiskManager::create, Wal::create) taken call by call, *)
(* and what a kill, a power loss or an I/O error leaves in the directory.  *)
(*                                                                         *)
(* Commits, checkpoints, replay and reset are here only as far as they     *)
(* decide which of the two files hold the committed transactions: module   *)
(* Database has them in detail.  A file is Absent, Partial (created, its   *)
(* header not complete), or has its header and the number of the last      *)
(* transaction stored in it; 0 stands for none.  A log that holds commits  *)
(* a Partial data file lacks has the image of the header too, since the    *)
(* first commit allocates a page: replay repairs the data file.            *)
(***************************************************************************)
EXTENDS Naturals, FiniteSets

CONSTANTS
    Absent, Partial,
    Environments,   \* sets of what may happen to a database, of Events
    MaxOpens,       \* bound on calls of Database::open
    MaxCommits,     \* bound on commits
    MaxCrashes      \* bound on kills, power losses and I/O errors

Files == {"data", "wal"}
Contents == Nat \cup {Absent, Partial}
Results == {"none", "ok", "missing", "invalid", "refused", "io"}

\* The process dies, the power fails, a call that creates a file fails, or
\* the WAL of a closed, checkpointed database is removed.
Events == {"kill", "power", "io", "removal"}

VARIABLES
    dir,        \* the two files as the running system sees them
    medium,     \* for each, all that may be found after a power loss
    pc,         \* where Database::open, or the open database, is
    pool,       \* Options::buffer_pool_pages of the running open
    result,     \* how the last open ended
    committed,  \* commits that returned
    env,        \* the events there are in this behaviour
    opens, crashes

vars == <<dir, medium, pc, pool, result, committed, env, opens, crashes>>
countVars == <<committed, env, opens, crashes>>

\* A newer n, where a file that is not there, or not whole, has nothing.
Stored(c) == IF c \in Nat THEN c ELSE 0
Newest(d) == IF Stored(d["wal"]) > Stored(d["data"]) THEN Stored(d["wal"])
             ELSE Stored(d["data"])

Init ==
    /\ dir = [f \in Files |-> Absent]
    /\ medium = [f \in Files |-> {Absent}]
    /\ pc = "closed" /\ pool = 0 /\ result = "none"
    /\ committed = 0 /\ env \in Environments /\ opens = 0 /\ crashes = 0

-----------------------------------------------------------------------------
(***************************************************************************)
(* The file system                                                         *)
(***************************************************************************)

\* create_new: an entry that a power loss may take back.
CreateNew(f) ==
    /\ dir' = [dir EXCEPT ![f] = Partial]
    /\ medium' = [medium EXCEPT ![f] = @ \cup {Partial}]

Write(f, c) ==
    /\ dir' = [dir EXCEPT ![f] = c]
    /\ medium' = [medium EXCEPT ![f] = @ \cup {c}]

\* Data pages and the header written in place: a header that changes may be
\* torn, and then the file does not open.
Rewrite(c) ==
    /\ dir' = [dir EXCEPT !["data"] = c]
    /\ medium' = [medium EXCEPT !["data"] =
                      @ \cup {c} \cup IF dir["data"] = c THEN {} ELSE {Partial}]

\* sync_all, sync_data: the contents are durable; the entry need not be.
Sync(f) ==
    /\ medium' = [medium EXCEPT ![f] = {dir[f]} \cup (@ \cap {Absent})]
    /\ UNCHANGED dir

\* sync_all of the directory: every entry in it is durable.
SyncDir ==
    /\ medium' = [f \in Files |-> IF dir[f] = Absent THEN {Absent}
                                  ELSE medium[f] \ {Absent}]
    /\ UNCHANGED dir

Unwritten == UNCHANGED <<dir, medium>>

Goto(l) == pc' = l /\ UNCHANGED <<pool, result, countVars>>
Return(r) == pc' = "closed" /\ result' = r /\ UNCHANGED <<pool, countVars>>

\* A call of the creation may fail (module Database has the errors of the
\* other calls); a failed write leaves the file as it was.
IoError ==
    /\ "io" \in env /\ crashes < MaxCrashes
    /\ crashes' = crashes + 1
    /\ pc' = "closed" /\ result' = "io"
    /\ Unwritten /\ UNCHANGED <<pool, committed, env, opens>>

-----------------------------------------------------------------------------
(***************************************************************************)
(* Database::open                                                          *)
(***************************************************************************)

Open(create, pages) ==
    /\ pc = "closed" /\ opens < MaxOpens
    /\ opens' = opens + 1
    /\ pool' = pages
    /\ CASE dir["data"] # Absent ->
              /\ pc' = IF dir["wal"] = Absent THEN "open_data" ELSE "open_wal"
              /\ result' = "none"
         [] dir["data"] = Absent /\ ~create ->
              pc' = "closed" /\ result' = "missing"
         [] dir["data"] = Absent /\ create /\ dir["wal"] # Absent ->
              pc' = "closed" /\ result' = "refused"
         [] OTHER -> pc' = "create_data" /\ result' = "none"
    /\ Unwritten /\ UNCHANGED <<committed, env, crashes>>

\* Mutation: the new data file's directory entry is left to the next sync.
CreateDataNoDirSync ==
    \/ pc = "create_data" /\ CreateNew("data") /\ Goto("write_data")
    \/ pc = "write_data" /\ Write("data", 0) /\ Goto("sync_data")
    \/ pc = "sync_data" /\ Sync("data") /\ Goto("sync_data_dir")
    \/ pc = "sync_data_dir" /\ Unwritten /\ Goto("create_wal")

\* DiskManager::create
CreateData ==
    \/ pc = "create_data" /\ CreateNew("data") /\ Goto("write_data")
    \/ pc = "write_data" /\ Write("data", 0) /\ Goto("sync_data")
    \/ pc = "sync_data" /\ Sync("data") /\ Goto("sync_data_dir")
    \/ pc = "sync_data_dir" /\ SyncDir /\ Goto("create_wal")

\* Wal::create
CreateWal ==
    \/ pc = "create_wal" /\ CreateNew("wal") /\ Goto("write_wal")
    \/ pc = "write_wal" /\ Write("wal", 0) /\ Goto("sync_wal")
    \/ pc = "sync_wal" /\ Sync("wal") /\ Goto("sync_wal_dir")
    \/ pc = "sync_wal_dir" /\ SyncDir /\ Goto("assemble")

CreateFails ==
    /\ pc \in {"create_data", "write_data", "sync_data", "sync_data_dir",
               "create_wal", "write_wal", "sync_wal", "sync_wal_dir"}
    /\ IoError

\* open_existing: the log is read first when there is one, and replayed.
OpenWal ==
    /\ pc = "open_wal" /\ Unwritten
    /\ CASE dir["wal"] = Partial -> Return("refused")
         [] dir["wal"] = 0 -> Goto("open_data")
         [] OTHER -> Goto("replay")

\* Mutation: a replayed log is emptied at once, the data file not synced.
ReplayUnsynced ==
    pc = "replay" /\ Rewrite(Newest(dir)) /\ Goto("open_data")

Replay == pc = "replay" /\ Rewrite(Newest(dir)) /\ Goto("replay_sync")
ReplaySync == pc = "replay_sync" /\ Sync("data") /\ Goto("open_data")

\* DiskManager::open, then Wal::create or Wal::reset.
OpenData ==
    /\ pc = "open_data" /\ Unwritten
    /\ CASE dir["data"] = Partial -> Return("refused")
         [] dir["wal"] = Absent -> Goto("create_wal")
         [] OTHER -> Goto("reset")

\* Mutation: the log is truncated to nothing and its header written again.
ResetRewriting ==
    \/ pc = "reset" /\ Write("wal", Partial) /\ Goto("reset_header")
    \/ pc = "ckpt_reset" /\ Write("wal", Partial) /\ Goto("ckpt_header")
    \/ pc = "reset_header" /\ Write("wal", 0) /\ Goto("reset_sync")
    \/ pc = "ckpt_header" /\ Write("wal", 0) /\ Goto("ckpt_reset_sync")

\* Wal::reset, at the end of open_existing or of a checkpoint.
Reset == pc \in {"reset", "ckpt_reset"} /\ Write("wal", 0)
             /\ Goto(IF pc = "reset" THEN "reset_sync" ELSE "ckpt_reset_sync")
ResetSync == pc \in {"reset_sync", "ckpt_reset_sync"} /\ Sync("wal")
                 /\ Goto(IF pc = "reset_sync" THEN "assemble" ELSE "open")

\* BufferPool::new refuses a pool without pages; the files stay.
Assemble ==
    /\ pc = "assemble" /\ Unwritten
    /\ result' = IF pool = 0 THEN "invalid" ELSE "ok"
    /\ pc' = IF pool = 0 THEN "closed" ELSE "open"
    /\ UNCHANGED <<pool, countVars>>

-----------------------------------------------------------------------------
(***************************************************************************)
(* The open database, and its end                                          *)
(***************************************************************************)

\* WriteTxn::commit: logged, then synced; only then does it return.
Commit ==
    /\ pc = "open" /\ committed < MaxCommits
    /\ Write("wal", Newest(dir) + 1) /\ Goto("commit_sync")

CommitSync ==
    /\ pc = "commit_sync" /\ Sync("wal")
    /\ committed' = Newest(dir) /\ pc' = "open"
    /\ UNCHANGED <<pool, result, env, opens, crashes>>

\* write_checkpoint: the data file is written and synced, then the log reset.
Checkpoint == pc = "open" /\ Rewrite(Newest(dir)) /\ Goto("ckpt_sync")
CheckpointSync == pc = "ckpt_sync" /\ Sync("data") /\ Goto("ckpt_reset")

\* Database::close after its checkpoint, or the handle is dropped.
Close == pc = "open" /\ Return(result) /\ Unwritten

\* The WAL of a database that was closed with an empty log is removed, as
\* the test missing_wal_is_recreated does.
RemoveWal ==
    /\ "removal" \in env /\ pc = "closed"
    /\ dir["wal"] = 0 /\ dir["data"] \in Nat
    /\ dir' = [dir EXCEPT !["wal"] = Absent]
    /\ medium' = [medium EXCEPT !["wal"] = {Absent}]
    /\ UNCHANGED <<pc, pool, result, countVars>>

Kill ==
    /\ "kill" \in env /\ crashes < MaxCrashes /\ pc # "closed"
    /\ crashes' = crashes + 1 /\ pc' = "closed" /\ result' = "none"
    /\ Unwritten /\ UNCHANGED <<pool, committed, env, opens>>

PowerLoss ==
    /\ "power" \in env /\ crashes < MaxCrashes
    /\ crashes' = crashes + 1 /\ pc' = "closed" /\ result' = "none"
    /\ \E d \in medium["data"], w \in medium["wal"] :
          /\ dir' = [f \in Files |-> IF f = "data" THEN d ELSE w]
          /\ medium' = [f \in Files |-> {dir'[f]}]
    /\ UNCHANGED <<pool, committed, env, opens>>

Terminated ==
    pc = "closed" /\ opens = MaxOpens /\ UNCHANGED vars

Next ==
    \/ \E create \in BOOLEAN, pages \in {0, 1} : Open(create, pages)
    \/ CreateData \/ CreateWal \/ CreateFails
    \/ OpenWal \/ Replay \/ ReplaySync \/ OpenData \/ Reset \/ ResetSync
    \/ Assemble \/ Commit \/ CommitSync \/ Checkpoint \/ CheckpointSync
    \/ Close \/ RemoveWal \/ Kill \/ PowerLoss \/ Terminated

Spec == Init /\ [][Next]_vars

-----------------------------------------------------------------------------
(***************************************************************************)
(* Properties                                                              *)
(***************************************************************************)

\* The variables have their types, and a handle that Database::open returned
\* has a pool with pages.
TypeOK ==
    /\ dir \in [Files -> Contents]
    /\ \A f \in Files : medium[f] # {} /\ dir[f] \in medium[f]
    /\ pool \in {0, 1} /\ result \in Results
    /\ committed \in Nat /\ opens \in Nat /\ crashes \in Nat
    /\ pc = "open" => result = "ok" /\ pool > 0

\* What the crash that this environment has in store would leave now.
Left(f) == IF "power" \in env THEN medium[f] ELSE {dir[f]}

\* Whatever a crash could leave now still has every commit that returned:
\* the data file is there, and it or the log has them all.  The entries of
\* both files are durable before the first commit can return.
CommitsSurvive ==
    \A d \in Left("data"), w \in Left("wal") :
        committed > 0 =>
            d # Absent /\ (Stored(d) >= committed \/ Stored(w) >= committed)

\* A power loss never leaves a log that open cannot use: one without its
\* database file ("exists but its database file does not"), or with a torn
\* one and nothing to repair it ("A torn header write can only happen while
\* the WAL still holds the header image that repairs it", adr/0002).
NoOrphanWal ==
    "power" \in env =>
        \A d \in Left("data"), w \in Left("wal") :
            w # Absent => d \in Nat \/ (d = Partial /\ Stored(w) > 0)

\* An open of a database with committed transactions whose files nobody
\* removed is never refused: recovery gets past whatever a crash interrupted,
\* in an earlier open too.
CommittedNeverRefused ==
    committed > 0 /\ "removal" \notin env => result # "refused"

\* "A WAL file that is missing while the data file exists is treated as
\* empty" (adr/0002): its removal from a closed database with committed
\* transactions does not lead to an open that is refused.
MissingWalIsEmpty == committed > 0 => result # "refused"
=============================================================================
