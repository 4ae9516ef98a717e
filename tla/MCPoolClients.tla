---------------------------- MODULE MCPoolClients ---------------------------
(***************************************************************************)
(* Two small instances of PoolClients for TLC, over the same threads and   *)
(* pages: a behaviour is one of Narrow or of Wide, as `wide' says.         *)
(*                                                                         *)
(* Narrow has a single frame: every page read or installed evicts another, *)
(* with disk errors, and a nested page is refused.  Wide has a frame for   *)
(* each page and two readers: both are in the callback of one page inside  *)
(* that of the other, in either order, with both frames locked by both.    *)
(***************************************************************************)
EXTENDS Naturals

CONSTANTS
    r1, r2, w1, p1, p2, PageIds, Initial, Torn, Depth, WriterPriority, None,
    NarrowCalls, WideCalls

VARIABLES
    wide,
    pageTable, framePages, pinCounts, refBits, clockHand, freeFrames, frames,
    disk, stateOwner, handles, guards, pc, call, frame, sweep, result, owed,
    calls, faults,
    tx, images, walOwner, publisher, poisoned

Threads == {r1, r2, w1}

Narrow == INSTANCE PoolClients WITH
    Readers <- {r1}, Writers <- {w1}, Checkpointers <- {r2}, Capacity <- 1,
    Values <- {Initial, Initial + 1}, MaxCalls <- NarrowCalls, MaxFaults <- 1

Wide == INSTANCE PoolClients WITH
    Readers <- {r1, r2}, Writers <- {w1}, Checkpointers <- {w1}, Capacity <- 2,
    Values <- {Initial}, MaxCalls <- WideCalls, MaxFaults <- 0

allVars == <<wide, Narrow!allVars>>

Init == wide \in BOOLEAN /\ IF wide THEN Wide!DbInit ELSE Narrow!DbInit

Next == UNCHANGED wide /\ IF wide THEN Wide!DbNext ELSE Narrow!DbNext

Step(t) == UNCHANGED wide /\ IF wide THEN Wide!DbStep(t) ELSE Narrow!DbStep(t)

\* The fairness of DbSpec.
Spec == Init /\ [][Next]_allVars /\ \A t \in Threads : WF_allVars(Step(t))

-----------------------------------------------------------------------------
\* The properties of PoolClients, which do not depend on what differs.

\* WriteTxn::publish finds a frame for every page.
PublishIsNeverExhausted == Narrow!PublishIsNeverExhausted
\* After BufferPool::flush_all has succeeded the data file has every page.
CheckpointIsComplete == Narrow!CheckpointIsComplete
\* A ReadTxn sees no page change.
SnapshotHolds == Narrow!SnapshotHolds
\* Every ReadTxn, WriteTxn and checkpoint ends.
TransactionsEnd == Narrow!TransactionsEnd
=============================================================================
