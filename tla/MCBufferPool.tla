---------------------------- MODULE MCBufferPool ----------------------------
(***************************************************************************)
(* Small instances of BufferPool for TLC.                                  *)
(***************************************************************************)
EXTENDS BufferPool, TLC

CONSTANTS t1, t2, t3, p1, p2, p3

\* Threads are interchangeable, and so are pages.
PoolSymmetry == Permutations(Threads) \cup Permutations(PageIds)
=============================================================================
