------------------------------ MODULE Gateway ------------------------------
(***************************************************************************)
(* The connection to the QQ gateway (qq/bot.go): the loop that opens one   *)
(* session after the other, the access token it shares with the sender,    *)
(* and the goroutines of a session, its heartbeats and the one that closes *)
(* the connection when the context is cancelled.                           *)
(*                                                                         *)
(* A slot holds a connection and the goroutines that were started for it;  *)
(* it is used again when they are gone.  The messages of a session are in  *)
(* Turn and Access, the time between two attempts is left out.             *)
(***************************************************************************)
EXTENDS Config

CONSTANTS Slots,
          MaxHellos   \* bound: how many Hellos a server sends on a connection

ASSUME GatewayAssumption == MaxHellos \in Nat \ {0} /\ None \notin Slots

VARIABLES
  gw,      \* where the loop of StartBotGateway is
  cur,     \* the slot of the session that runs
  token,   \* tokenVal: the credentials it was given for, until it expires
  open,    \* open[s]: the connection can be read
  closer,  \* closer[s]: the goroutine waits for the context or the session
  over,    \* over[s]: sessionDone and done are closed
  hearts,  \* hearts[s]: the heartbeat goroutines of the connection
  ctx      \* the root context: "live", "done"

gatewayVars == <<gw, cur, token, open, closer, over, hearts, ctx>>

Places == {"off", "top", "sleep", "auth", "ask", "dial", "read", "identify", "stopped"}

NoGateway ==
  /\ gw = "off" /\ cur = None /\ token = None
  /\ open = [s \in Slots |-> FALSE] /\ closer = [s \in Slots |-> FALSE]
  /\ over = [s \in Slots |-> FALSE] /\ hearts = [s \in Slots |-> 0]
  /\ ctx = "live"

\* The process has ended, or begins with StartBotGateway.
GatewayGone(place) ==
  /\ gw' = place /\ cur' = None /\ token' = None
  /\ open' = [s \in Slots |-> FALSE] /\ closer' = [s \in Slots |-> FALSE]
  /\ over' = [s \in Slots |-> FALSE] /\ hearts' = [s \in Slots |-> 0]
  /\ ctx' = "live"

Cancelled == ctx = "done"

-----------------------------------------------------------------------------
(* Slips the code could contain; PROJECT.json names the property that would *)
(* notice each.                                                             *)

\* The connection is closed only when the session has ended.
ClosesLate(s) == FALSE

\* Nobody closes done.
EndedUnsaid(s) == FALSE

-----------------------------------------------------------------------------
\* The loop: the context first, then the credentials.
Top ==
  /\ gw = "top"
  /\ \/ Cancelled /\ gw' = "stopped"
     \/ ~Cancelled /\ Free /\ gw' = IF mem.app = None THEN "sleep" ELSE "auth"
  /\ UNCHANGED <<cur, token, open, closer, over, hearts, ctx>>

\* sleepCtx: the time is over or the context is done.
Wake ==
  /\ gw = "sleep"
  /\ gw' = "top" \/ (Cancelled /\ gw' = "stopped")
  /\ UNCHANGED <<cur, token, open, closer, over, hearts, ctx>>

\* getAccessToken keeps a token whatever becomes of the credentials, and asks
\* for one with those of now when it has none.
Fetched == IF token # None THEN {token} ELSE {mem.app, None}

Auth ==
  /\ gw = "auth" /\ Free /\ token' \in Fetched
  /\ gw' = IF token' = None THEN "sleep" ELSE "ask"
  /\ UNCHANGED <<cur, open, closer, over, hearts, ctx>>

\* The sender asks for it too, and it expires.
TokenChanges ==
  /\ gw # "off"
  /\ \/ Free /\ token = None /\ token' = mem.app
     \/ token # None /\ token' = None
  /\ UNCHANGED <<gw, cur, open, closer, over, hearts, ctx>>

\* The address of the gateway; without an answer the session is over.
Ask ==
  /\ gw = "ask" /\ gw' \in {"dial", "sleep"}
  /\ UNCHANGED <<cur, token, open, closer, over, hearts, ctx>>

Unused(s) == hearts[s] = 0 /\ ~closer[s]

DialFails ==
  /\ gw = "dial" /\ gw' = "sleep"
  /\ UNCHANGED <<cur, token, open, closer, over, hearts, ctx>>

\* DialContext may return a connection although the context has just ended.
Dial(s) ==
  /\ gw = "dial" /\ Unused(s) /\ gw' = "read" /\ cur' = s
  /\ open' = [open EXCEPT ![s] = TRUE] /\ closer' = [closer EXCEPT ![s] = TRUE]
  /\ over' = [over EXCEPT ![s] = FALSE]
  /\ UNCHANGED <<token, hearts, ctx>>

\* A Hello starts a heartbeat goroutine; Identify follows when the token is
\* there.  Whether it could be written does not matter.
Hello ==
  /\ gw = "read" /\ open[cur] /\ hearts[cur] < MaxHellos
  /\ hearts' = [hearts EXCEPT ![cur] = @ + 1] /\ gw' = "identify"
  /\ UNCHANGED <<cur, token, open, closer, over, ctx>>

Identify ==
  /\ gw = "identify" /\ Free /\ token' \in Fetched /\ gw' = "read"
  /\ UNCHANGED <<cur, open, closer, over, hearts, ctx>>

\* The server or the network closes the connection.
Lost ==
  /\ cur # None /\ open[cur] /\ open' = [open EXCEPT ![cur] = FALSE]
  /\ UNCHANGED <<gw, cur, token, closer, over, hearts, ctx>>

Ended(s) == TRUE

\* ReadMessage fails: the deferred calls close done and sessionDone.  A
\* session always returns an error, so the loop sleeps.
ReadFails ==
  /\ gw = "read" /\ ~open[cur] /\ gw' = "sleep" /\ cur' = None
  /\ over' = [over EXCEPT ![cur] = Ended(cur)]
  /\ UNCHANGED <<token, open, closer, hearts, ctx>>

\* The heartbeat goroutine; a tick writes and forgets the error.
HeartEnds(s) ==
  /\ hearts[s] > 0 /\ over[s] /\ hearts' = [hearts EXCEPT ![s] = @ - 1]
  /\ UNCHANGED <<gw, cur, token, open, closer, over, ctx>>

Closes(s) == Cancelled

\* The goroutine beside it: it closes the connection when the context ends,
\* and goes when the session does.
CloserEnds(s) ==
  /\ closer[s] /\ (Closes(s) \/ over[s])
  /\ closer' = [closer EXCEPT ![s] = FALSE]
  /\ \/ Closes(s) /\ open' = [open EXCEPT ![s] = FALSE]
     \/ over[s] /\ UNCHANGED open
  /\ UNCHANGED <<gw, cur, token, over, hearts, ctx>>

Session ==
  \/ Top \/ Wake \/ Auth \/ Ask \/ DialFails \/ Identify \/ ReadFails
  \/ \E s \in Slots : Dial(s)

Goroutines(s) == HeartEnds(s) \/ CloserEnds(s)

GatewayNext == Session \/ TokenChanges \/ Hello \/ Lost \/ \E s \in Slots : Goroutines(s)

GatewayTypeOK ==
  /\ gw \in Places /\ cur \in Slots \cup {None} /\ token \in Apps \cup {None}
  /\ {open, closer, over} \subseteq [Slots -> BOOLEAN]
  /\ hearts \in [Slots -> 0..MaxHellos] /\ ctx \in {"live", "done"}
=============================================================================
