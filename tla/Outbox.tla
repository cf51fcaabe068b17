------------------------------- MODULE Outbox -------------------------------
(***************************************************************************)
(* What the outbound queue of internal/qq/sender.go promises to the code   *)
(* that hands it a message, with no queue, no worker and no retries: a     *)
(* message is either refused at once or waits, and a waiting message gets  *)
(* exactly one final verdict.  The verdict never changes afterwards; when  *)
(* the process ends, whatever still waits is abandoned.                    *)
(* SendQueue.tla is shown to implement this module.                        *)
(***************************************************************************)
CONSTANT Msgs       \* the outbound messages

VARIABLES status,   \* status[m]: what has become of m
          alive     \* FALSE once the process has ended

vars == <<status, alive>>

Verdicts == {"acked", "gaveUp", "dropped"}
Statuses == {"new", "waiting", "abandoned"} \cup Verdicts

TypeOK == status \in [Msgs -> Statuses] /\ alive \in BOOLEAN

Init == status = [m \in Msgs |-> "new"] /\ alive = TRUE

\* enqueue: the message is taken, or the queue is full and it is dropped.
Offer(m) ==
  /\ alive /\ status[m] = "new"
  /\ \E s \in {"waiting", "dropped"} : status' = [status EXCEPT ![m] = s]
  /\ UNCHANGED alive

\* The worker reaches a verdict about a message that waits.
Resolve(m) ==
  /\ alive /\ status[m] = "waiting"
  /\ \E s \in Verdicts : status' = [status EXCEPT ![m] = s]
  /\ UNCHANGED alive

\* The process ends.
End ==
  /\ alive
  /\ alive' = FALSE
  /\ status' = [m \in Msgs |-> IF status[m] = "waiting" THEN "abandoned"
                                                         ELSE status[m]]

Next == (\E m \in Msgs : Offer(m) \/ Resolve(m)) \/ End

Spec == Init /\ [][Next]_vars
=============================================================================
