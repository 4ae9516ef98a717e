---------------------------- MODULE PoolClients -----------------------------
(***************************************************************************)
(* The buffer pool in the hands of the database (db/mod.rs, db/txn.rs):    *)
(* read transactions with nested read_page callbacks, a commit publishing  *)
(* its pages, and checkpoints, under the two locks of the database handle. *)
(* Module Database takes every call of the pool as one step; here they     *)
(* interleave at the pool's own locks.  The log is left out, and the check *)
(* or setting of the poison flag is one step with the lock it goes with:   *)
(* module Database has the gaps between them.                              *)
(***************************************************************************)
EXTENDS BufferPool

CONSTANTS Readers, Writers, Checkpointers

VARIABLES
    tx,         \* where each thread is in its transaction or checkpoint
    images,     \* pages a commit has still to install
    walOwner,   \* who holds Database::wal
    publisher,  \* who holds Database::publish exclusively
    poisoned    \* Database::poisoned

dbVars == <<tx, images, walOwner, publisher, poisoned>>
allVars == <<vars, dbVars>>

DbInit ==
    /\ Init
    /\ tx = [t \in Threads |-> "out"]
    /\ images = [t \in Threads |-> {}]
    /\ walOwner = None /\ publisher = None /\ poisoned = FALSE

Phase(t, l) == tx' = [tx EXCEPT ![t] = l]
Budget == calls < MaxCalls
Idle(t) == pc[t] = "idle" /\ HoldsNothing(t)

\* The RwLock `publish'.
Reading == {t \in Threads : tx[t] = "reading"}

\* Mutation: new readers get past a commit that waits.
MayShareAlways == publisher = None

MayShare ==
    /\ publisher = None
    /\ WriterPriority => \A t \in Threads : tx[t] # "waiting"

\* ReadTxn::new, and its drop.
BeginRead(t) ==
    /\ t \in Readers /\ tx[t] = "out" /\ Budget
    /\ ~poisoned /\ MayShare
    /\ Phase(t, "reading")
    /\ UNCHANGED <<vars, images, walOwner, publisher, poisoned>>

EndRead(t) ==
    /\ tx[t] = "reading" /\ Idle(t)
    /\ Phase(t, "out")
    /\ UNCHANGED <<vars, images, walOwner, publisher, poisoned>>

\* The read_page callbacks a thread is in: the innermost has the last slot.
Nested(t) == Cardinality({s \in Slots \ {0} : handles[t][s] # None})
PagesOf(t) == {handles[t][s].page : s \in 1 .. Nested(t)}

\* ReadTxn::read_page, WriteTxn::read_page and page_mut fetch a page, also from
\* inside the callback of another, and lock the handle they get.
ReadPage(t) ==
    /\ tx[t] \in {"reading", "writing"} /\ Budget
    /\ Nested(t) < Depth
    /\ Nested(t) > 0 => guards[t][Nested(t)] # "none"
    /\ \E p \in PageIds \ PagesOf(t) : BeginFetch(t, p, Nested(t) + 1)
    /\ UNCHANGED dbVars

LockPage(t) ==
    /\ Nested(t) > 0 /\ Turn(t, Nested(t), "read", "read")
    /\ UNCHANGED <<calls, dbVars>>

\* The innermost callback returns: its guard is dropped, then its handle.
ReturnPage(t) ==
    LET s == Nested(t) IN
    /\ pc[t] = "idle" /\ s > 0 /\ guards[t][s] # "none"
    /\ guards' = [guards EXCEPT ![t][s] = "none"]
    /\ call' = [call EXCEPT ![t] = [op |-> "drop", slot |-> s]]
    /\ frame' = [frame EXCEPT ![t] = handles[t][s].frame]
    /\ Goto(t, "unpin")
    /\ KeepState
    /\ UNCHANGED <<pageVars, handles, result, calls, faults, dbVars>>

\* WriteTxn::new
BeginWrite(t) ==
    /\ t \in Writers /\ tx[t] = "out" /\ Budget
    /\ ~poisoned /\ walOwner = None
    /\ walOwner' = t
    /\ Phase(t, "writing")
    /\ UNCHANGED <<vars, images, publisher, poisoned>>

\* A commit of nothing, WriteTxn::rollback, or the transaction dropped.
Rollback(t) ==
    /\ tx[t] = "writing" /\ Idle(t)
    /\ walOwner' = None
    /\ Phase(t, "out")
    /\ UNCHANGED <<vars, images, publisher, poisoned>>

\* WriteTxn::commit, its pages logged: it waits for the readers.
Commit(t) ==
    /\ tx[t] = "writing" /\ Idle(t)
    /\ \E pages \in SUBSET PageIds \ {{}} :
          images' = [images EXCEPT ![t] = pages]
    /\ Phase(t, "waiting")
    /\ UNCHANGED <<vars, walOwner, publisher, poisoned>>

\* Mutation: pages are published while read transactions are open.
PublishAmongReaders(t) ==
    /\ tx[t] = "waiting" /\ publisher = None
    /\ publisher' = t
    /\ Phase(t, "publishing")
    /\ UNCHANGED <<vars, images, walOwner, poisoned>>

\* WriteTxn::publish takes `publish' exclusively.
Publish(t) ==
    /\ tx[t] = "waiting" /\ publisher = None /\ Reading = {}
    /\ publisher' = t
    /\ Phase(t, "publishing")
    /\ UNCHANGED <<vars, images, walOwner, poisoned>>

\* The next page is installed, and the outcome looked at.
PublishPage(t) ==
    /\ tx[t] = "publishing"
    /\ \E p \in images[t], v \in Values :
          /\ BeginInstall(t, p, v)
          /\ images' = [images EXCEPT ![t] = @ \ {p}]
    /\ Phase(t, "installing")
    /\ UNCHANGED <<walOwner, publisher, poisoned>>

PagePublished(t) ==
    /\ tx[t] = "installing" /\ Idle(t) /\ result[t] = "ok"
    /\ Phase(t, "publishing")
    /\ UNCHANGED <<vars, images, walOwner, publisher, poisoned>>

\* A page could not be installed: the database is poisoned, the commit ends.
PublishFails(t) ==
    /\ tx[t] = "installing" /\ Idle(t) /\ result[t] # "ok"
    /\ poisoned' = TRUE
    /\ publisher' = None /\ walOwner' = None
    /\ images' = [images EXCEPT ![t] = {}]
    /\ Phase(t, "out")
    /\ UNCHANGED vars

\* All pages are in: `publish' is released, and the commit ends or goes on
\* to an automatic checkpoint.
PublishDone(t) ==
    /\ tx[t] = "publishing" /\ images[t] = {}
    /\ publisher' = None
    /\ \/ Phase(t, "out") /\ walOwner' = None
       \/ Phase(t, "checkpoint") /\ UNCHANGED walOwner
    /\ UNCHANGED <<vars, images, poisoned>>

\* Mutation: a checkpoint runs beside a write transaction.
BeginCheckpointUnlocked(t) ==
    /\ t \in Checkpointers /\ tx[t] = "out" /\ Budget
    /\ ~poisoned
    /\ Phase(t, "checkpoint")
    /\ UNCHANGED <<vars, images, walOwner, publisher, poisoned>>

\* Database::checkpoint
BeginCheckpoint(t) ==
    /\ t \in Checkpointers /\ tx[t] = "out" /\ Budget
    /\ ~poisoned /\ walOwner = None
    /\ walOwner' = t
    /\ Phase(t, "checkpoint")
    /\ UNCHANGED <<vars, images, publisher, poisoned>>

\* write_checkpoint: flush_all, and what follows it.
Flush(t) ==
    /\ tx[t] = "checkpoint"
    /\ BeginFlushAll(t)
    /\ Phase(t, "flushing")
    /\ UNCHANGED <<images, walOwner, publisher, poisoned>>

CheckpointEnds(t) ==
    /\ tx[t] = "flushing" /\ Idle(t)
    /\ poisoned' = (poisoned \/ result[t] # "ok")
    /\ walOwner' = None
    /\ Phase(t, "out")
    /\ UNCHANGED <<vars, images, publisher>>

\* What a thread does once it has begun, whatever the others do.
DbStep(t) ==
    \/ PoolStep(t) /\ UNCHANGED dbVars
    \/ LockPage(t) \/ ReturnPage(t)
    \/ EndRead(t) \/ Rollback(t) \/ Commit(t) \/ Publish(t) \/ PublishPage(t)
    \/ PagePublished(t) \/ PublishFails(t) \/ PublishDone(t)
    \/ Flush(t) \/ CheckpointEnds(t)

DbTerminated ==
    /\ ~Budget \/ poisoned
    /\ \A t \in Threads : tx[t] = "out"
    /\ UNCHANGED allVars

DbNext ==
    \/ \E t \in Threads : \/ DbStep(t) \/ BeginRead(t) \/ ReadPage(t)
                          \/ BeginWrite(t) \/ BeginCheckpoint(t)
    \/ DbTerminated

DbSafety == DbInit /\ [][DbNext]_allVars

\* Threads run on, callbacks return and transactions end; none need begin.
DbSpec == DbSafety /\ \A t \in Threads : WF_allVars(DbStep(t))

-----------------------------------------------------------------------------
(***************************************************************************)
(* Properties                                                              *)
(***************************************************************************)

\* Publishing a durable commit never fails for want of a frame, however few
\* there are and however many pages read transactions had pinned before: a
\* busy pool cannot poison the database.
PublishIsNeverExhausted ==
    \A t \in Threads : tx[t] = "installing" => result[t] # "exhausted"

\* While a read transaction is open no page changes, although the pool
\* evicts, re-reads and flushes pages meanwhile and may fail to: two reads
\* of a page in one transaction agree.
SnapshotHolds ==
    [][\A t \in Threads : tx[t] = "reading" /\ tx'[t] = "reading" =>
          Contents' = Contents]_allVars

\* When a checkpoint's flush_all has succeeded, no page in the pool differs
\* from the data file: what the checkpoint drops from the log next is not
\* needed.
CheckpointIsComplete ==
    \A t \in Threads :
        pc[t] = "flush" /\ call[t].todo = {} /\ result[t] = "none" =>
            Dirty = {}

\* Every transaction and checkpoint ends: two read transactions, each with the
\* callback of one page inside that of another and in either order, a
\* checkpoint that flushes the pages they hold, and a commit that waits for
\* them do not block each other for ever.
TransactionsEnd == \A t \in Threads : []<>(tx[t] = "out")
=============================================================================
