------------------------------- MODULE MCMcp -------------------------------
(* Small instances of Mcp for TLC. *)
EXTENDS Mcp, TLC

CONSTANTS t1, t2, own, taken
=============================================================================
