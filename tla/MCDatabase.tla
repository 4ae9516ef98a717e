----------------------------- MODULE MCDatabase -----------------------------
(***************************************************************************)
(* Small instances of Database for TLC.                                    *)
(***************************************************************************)
EXTENDS Database

CONSTANTS w1, w2, c1, r1, r2

\* Threads of one kind are interchangeable.
ThreadSymmetry ==
    Permutations(Writers) \cup Permutations(Checkpointers)
        \cup Permutations(Readers)

PowerRefinement == PowerStore!Spec
KillRefinement == KillStore!Spec
=============================================================================
