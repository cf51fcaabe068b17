------------------------------- MODULE MCPanel ------------------------------
(* A small instance of Panel for TLC. *)
EXTENDS Panel, TLC

CONSTANTS p1, p2, a1, a2, r1, r2, r3

Symmetry == Permutations({p1, p2}) \cup Permutations({r1, r2, r3}) \cup Permutations({a1, a2})
=============================================================================
