---------------------------- MODULE MCSendQueue -----------------------------
(* SendQueue on a small instance: two replies of two parts each compete for *)
(* two slots, so both the enqueue and the retry find the channel full.      *)
EXTENDS SendQueue

CONSTANTS r1, r2

MCReplies == {r1, r2}
=============================================================================
