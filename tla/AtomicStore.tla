----------------------------- MODULE AtomicStore -----------------------------
(***************************************************************************)
(* What an oxenDB database promises about crashes, without a log, a cache  *)
(* or files: it holds one value per page, and a commit replaces the values *)
(* of its pages all together.  While a commit runs, it is open whether the *)
(* store holds it; everything else is certain, and what is certain never   *)
(* becomes uncertain again except by the next commit.                      *)
(***************************************************************************)
EXTENDS TLC

VARIABLES
    writing,    \* the pages the running commit replaces, with their values
    possible    \* the contents the store may turn out to have

Apply(s, w) == w @@ s

Init == \E s \in possible : possible = {s}

\* The store resolves what was open, or the running commit enters it.  A
\* crash, a recovery and a step of a commit are all of this form; the next
\* commit to run is up to the client.
Next ==
    /\ possible' # {}
    /\ possible' \subseteq possible \cup {Apply(s, writing) : s \in possible}

Spec == Init /\ [][Next]_<<possible>>
=============================================================================
