------------------------------ MODULE MCZKAuth ------------------------------
(***************************************************************************)
(* Small servers for TLC: one or two users, threads, and the few ids,      *)
(* secrets and executors they can use at one time.                         *)
(***************************************************************************)
EXTENDS ZKAuth, TLC

\* Interchangeable values, for the runs without liveness properties.  AnyOf
\* draws one of several unused values, and any other gives the same state with
\* the two exchanged, so the symmetry is not broken by it.
Symmetry ==
    Permutations(Names) \cup Permutations(Requests) \cup Permutations(Ids)
    \cup Permutations(Secrets) \cup Permutations(Executors)
=============================================================================
