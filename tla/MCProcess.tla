------------------------------ MODULE MCProcess -----------------------------
(* A small instance of Process for TLC. *)
EXTENDS Process

CONSTANTS p1, a1, r1, s1, s2
=============================================================================
