--------------------------- MODULE MCSessionStore ---------------------------
(* A small instance of SessionStore for TLC. *)
EXTENDS SessionStore

CONSTANTS k1, k2, h1, h2
=============================================================================
