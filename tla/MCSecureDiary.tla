--------------------------- MODULE MCSecureDiary ---------------------------
(***************************************************************************)
(* A small group for TLC: 2 generates the numbers below 1019, and the      *)
(* products of a password and a secret stay below the order of the group,  *)
(* so that different pairs have different tokens.                          *)
(***************************************************************************)
EXTENDS SecureDiary, TLC

\* Nothing orders the titles, and no property of the runs is about liveness.
Symmetry == Permutations(Titles)

\* N * N stays within TLC's integers.
ASSUME RangeAssumption == N <= 46340
=============================================================================
