------------------------------ MODULE MCMemory ------------------------------
(* Memory on small instances: two contents and room for one of them, so that *)
(* every second memory brings the limit about.                               *)
EXTENDS Memory

CONSTANTS a, b, x1, x2
=============================================================================
