----------------------------- MODULE MCBreaker ------------------------------
(* Breaker with two callers, the global breaker and one endpoint.  Both the *)
(* threshold and the attempt limit are 2: enough for one caller to fail and *)
(* retry into a breaker that the other has just opened.                     *)
EXTENDS Breaker

CONSTANTS c1, c2, e1

MCCallers == {c1, c2}
MCEndpoints == {e1}
=============================================================================
