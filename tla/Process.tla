------------------------------ MODULE Process ------------------------------
(***************************************************************************)
(* The process that main.go makes of its parts, as the gateway sees it:    *)
(* the configuration is loaded, the gateway starts, requests of the panel  *)
(* update the configuration, and a signal cancels the context some time    *)
(* before the process ends.  It may also die anywhere.  (The panel itself  *)
(* is in Panel; what is saved and sent on the way out is in SessionStore   *)
(* and SendQueue.)                                                         *)
(***************************************************************************)
EXTENDS Gateway

vars == <<configVars, gatewayVars>>

Init == ConfigInit /\ NoGateway

\* The gateway starts with the process and ends with it.
Follow ==
  IF proc' = proc THEN UNCHANGED gatewayVars
  ELSE GatewayGone(IF proc' = "up" THEN "top" ELSE "off")

\* Credentials from the form, a password from the first setup.
Submit(r) ==
  /\ Free
  /\ \/ \E a \in Apps : Update(r, [pwd |-> None, app |-> a])
     \/ \E p \in Passwords : mem.pwd = None /\ Update(r, [pwd |-> p, app |-> None])

\* A signal: srv.Shutdown waits for requests, eight seconds at most, and then
\* the context is cancelled.
Cancel ==
  /\ proc = "up" /\ ctx = "live" /\ ctx' = "done"
  /\ UNCHANGED <<configVars, gw, cur, token, open, closer, over, hearts>>

Saving == WriteBackup \/ WriteFile \/ WriteFileFails

Next ==
  \/ Saving /\ Follow
  \/ (LoadConfig \/ Repair \/ Dies) /\ Follow
  \/ \E r \in Requests : Submit(r) /\ Follow
  \/ GatewayNext /\ UNCHANGED configVars
  \/ Cancel

\* Go runs every goroutine that can go on, a request ends by an answer or its
\* timeout, a holder of the lock saves or fails, and an RWMutex lets those who
\* wait to read in before the next writer.
Fairness ==
  /\ SF_vars(Session /\ UNCHANGED configVars)
  /\ \A s \in Slots : WF_vars(HeartEnds(s) /\ UNCHANGED configVars)
  /\ \A s \in Slots : WF_vars(CloserEnds(s) /\ UNCHANGED configVars)
  /\ WF_vars(Saving /\ Follow)

Spec == Init /\ [][Next]_vars /\ Fairness

-----------------------------------------------------------------------------
(* Every variable has its type. *)
TypeOK == ConfigTypeOK /\ GatewayTypeOK

(* A connection that is lost is followed by another attempt, and the loop    *)
(* ends once the context is cancelled, although it may be waiting for a      *)
(* message that never comes.                                                 *)
GatewayGoesOn ==
  /\ (gw = "read" /\ ~open[cur]) ~> (gw \in {"auth", "stopped", "off"})
  /\ Cancelled ~> (gw \in {"stopped", "off"})

(* The goroutines of a session end when it does: none of them outlives the   *)
(* connection, however often it is opened again.                             *)
SessionsEnd ==
  \A s \in Slots : (cur # s /\ ~Unused(s)) ~> Unused(s)
=============================================================================
