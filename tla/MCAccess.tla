------------------------------ MODULE MCAccess ------------------------------
(* Small instances of Access for TLC. *)
EXTENDS Access, TLC

CONSTANTS u1, u2, h1, h2

Symmetry == Permutations({h1, h2})
=============================================================================
