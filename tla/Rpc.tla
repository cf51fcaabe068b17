-------------------------------- MODULE Rpc ---------------------------------
(***************************************************************************)
(* What Client.call of internal/mcp/client.go promises to those who call a *)
(* tool server, with no ids, no table, no pipes and no server: a call that *)
(* is made ends once, with its own response or with an error, and whoever  *)
(* has no call gets nothing.  Mcp.tla is shown to implement this module.   *)
(***************************************************************************)
EXTENDS Naturals

CONSTANT Callers

VARIABLES made,     \* calls made so far, which numbers them
          asking,   \* asking[c]: the call that c waits for, or None
          result    \* result[c]: the call whose response c has, or None

vars == <<made, asking, result>>

None == 0

TypeOK ==
  made \in Nat /\ asking \in [Callers -> 0..made] /\ result \in [Callers -> 0..made]

Init ==
  /\ made = 0
  /\ asking = [c \in Callers |-> None] /\ result = [c \in Callers |-> None]

Ask(c) ==
  /\ asking[c] = None
  /\ made' = made + 1
  /\ asking' = [asking EXCEPT ![c] = made + 1] /\ result' = [result EXCEPT ![c] = None]

\* The call ends, with its response or with an error.
End(c) ==
  /\ asking[c] # None
  /\ asking' = [asking EXCEPT ![c] = None]
  /\ \E r \in {None, asking[c]} : result' = [result EXCEPT ![c] = r]
  /\ UNCHANGED made

\* The caller has used its response.
Use(c) ==
  /\ asking[c] = None /\ result[c] # None
  /\ result' = [result EXCEPT ![c] = None]
  /\ UNCHANGED <<made, asking>>

Next == \E c \in Callers : Ask(c) \/ End(c) \/ Use(c)

Spec == Init /\ [][Next]_vars
=============================================================================
