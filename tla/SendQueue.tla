----------------------------- MODULE SendQueue ------------------------------
(***************************************************************************)
(* The outbound send queue of the QQ adapter, internal/qq/sender.go:       *)
(* producers (message handlers, the scheduler, the panel) hand messages to *)
(* a bounded channel without blocking; one worker takes them one at a      *)
(* time, delivers, and puts a failed message back AT THE TAIL of the same  *)
(* channel until its attempts are spent.  StopSender makes the worker      *)
(* drain the channel and return; the process ends when the worker has      *)
(* returned or the stop timeout has passed.                                *)
(*                                                                         *)
(* A reply is what one SendTextSegmented call sends: its parts go to one   *)
(* conversation, one enqueue each, and other producers run between them.   *)
(* A producer may stop after any part, so shorter replies and single       *)
(* messages (SendText, a sticker) are covered.  The waits of the worker    *)
(* (notBefore, sendMinInterval) only delay it; the delay is the time that  *)
(* passes before its next step.                                            *)
(***************************************************************************)
EXTENDS Integers, Sequences, FiniteSets

CONSTANTS Replies,      \* the replies that get sent
          Parts,        \* parts of a reply, at most
          QueueSize,    \* sendQueueSize (256)
          MaxAttempts,  \* sendMaxAttempts (3)
          NoMsg         \* the worker holds nothing

Msgs == Replies \X (1..Parts)
Entry == [msg : Msgs, attempts : 0..MaxAttempts]

ASSUME SendQueueAssumption ==
  /\ Parts \in Nat \ {0}
  /\ QueueSize \in Nat \ {0}
  /\ MaxAttempts \in Nat \ {0}
  /\ NoMsg \notin Entry

VARIABLES
  next,        \* next[r]: parts of r handed to enqueue so far
  queue,       \* sendQueueCh
  hand,        \* the entry the worker has received and not finished
  worker,      \* "run", "drain" (after senderStop) or "exited"
  stopping,    \* senderStop is closed
  up,          \* the process is running
  sendDropped, \* the counter behind DroppedMessages
  tries,       \* history: calls of sendOnce for each message
  acked,       \* history: messages whose sendOnce returned nil
  gaveUp,      \* history: messages given up after the last attempt
  early        \* history: messages handed to enqueue before StopSender

vars == <<next, queue, hand, worker, stopping, up, sendDropped, tries, acked,
          gaveUp, early>>

InQueue == {queue[i].msg : i \in 1..Len(queue)}
InHand  == IF hand = NoMsg THEN {} ELSE {hand.msg}
Pending == InQueue \cup InHand
Offered == {m \in Msgs : m[2] <= next[m[1]]}
Vanished == Offered \ (Pending \cup acked \cup gaveUp)

Init ==
  /\ next = [r \in Replies |-> 0]
  /\ queue = <<>>
  /\ hand = NoMsg
  /\ worker = "run"
  /\ stopping = FALSE
  /\ up = TRUE
  /\ sendDropped = 0
  /\ tries = [m \in Msgs |-> 0]
  /\ acked = {}
  /\ gaveUp = {}
  /\ early = {}

-----------------------------------------------------------------------------
(* Slips the code could contain; PROJECT.json names the property that would *)
(* notice each.                                                             *)

\* The newest message first.
TakeNewest ==
  /\ up /\ worker \in {"run", "drain"}
  /\ hand = NoMsg /\ queue # <<>>
  /\ hand' = queue[Len(queue)]
  /\ queue' = SubSeq(queue, 1, Len(queue) - 1)
  /\ UNCHANGED <<next, worker, stopping, up, sendDropped, tries, acked, gaveUp,
                 early>>

\* The drain loop does not receive.
TakeOnlyRunning ==
  /\ up /\ worker = "run"
  /\ hand = NoMsg /\ queue # <<>>
  /\ hand' = Head(queue)
  /\ queue' = Tail(queue)
  /\ UNCHANGED <<next, worker, stopping, up, sendDropped, tries, acked, gaveUp,
                 early>>

\* A missing return after the last attempt: given up and queued again.
GiveUpAndRequeue ==
  /\ up /\ hand # NoMsg
  /\ hand.attempts + 1 >= MaxAttempts
  /\ tries' = [tries EXCEPT ![hand.msg] = @ + 1]
  /\ gaveUp' = gaveUp \cup {hand.msg}
  /\ queue' = Append(queue, hand)
  /\ hand' = NoMsg
  /\ UNCHANGED <<next, worker, stopping, up, sendDropped, acked, early>>

\* The worker returns as soon as it sees the stop.
WorkerExitAtOnce ==
  /\ up /\ worker = "drain" /\ hand = NoMsg
  /\ worker' = "exited"
  /\ UNCHANGED <<next, queue, hand, stopping, up, sendDropped, tries, acked,
                 gaveUp, early>>

-----------------------------------------------------------------------------
\* select { case ch <- m: default: } -- a full channel drops and counts.
TryPut(e) ==
  \/ /\ Len(queue) < QueueSize
     /\ queue' = Append(queue, e)
     /\ UNCHANGED sendDropped
  \/ /\ Len(queue) >= QueueSize
     /\ sendDropped' = sendDropped + 1
     /\ UNCHANGED queue

\* The next part of reply r is enqueued; also after StopSender, since nothing
\* waits for the handlers.
Enqueue(r) ==
  /\ up /\ next[r] < Parts
  /\ next' = [next EXCEPT ![r] = @ + 1]
  /\ TryPut([msg |-> <<r, next[r] + 1>>, attempts |-> 0])
  /\ UNCHANGED <<hand, worker, stopping, up, tries, acked, gaveUp, early>>

\* The worker receives the head of the channel and waits out its notBefore.
Take ==
  /\ up /\ worker \in {"run", "drain"}
  /\ hand = NoMsg /\ queue # <<>>
  /\ hand' = Head(queue)
  /\ queue' = Tail(queue)
  /\ UNCHANGED <<next, worker, stopping, up, sendDropped, tries, acked, gaveUp,
                 early>>

\* sendOnce returns nil.
DeliverOk ==
  /\ up /\ hand # NoMsg
  /\ tries' = [tries EXCEPT ![hand.msg] = @ + 1]
  /\ acked' = acked \cup {hand.msg}
  /\ hand' = NoMsg
  /\ UNCHANGED <<next, queue, worker, stopping, up, sendDropped, gaveUp, early>>

\* sendOnce fails and the attempts are spent.
GiveUp ==
  /\ up /\ hand # NoMsg
  /\ hand.attempts + 1 >= MaxAttempts
  /\ tries' = [tries EXCEPT ![hand.msg] = @ + 1]
  /\ gaveUp' = gaveUp \cup {hand.msg}
  /\ hand' = NoMsg
  /\ UNCHANGED <<next, queue, worker, stopping, up, sendDropped, acked, early>>

\* sendOnce fails with attempts left: back into the channel, at the tail.
Retry ==
  /\ up /\ hand # NoMsg
  /\ hand.attempts + 1 < MaxAttempts
  /\ tries' = [tries EXCEPT ![hand.msg] = @ + 1]
  /\ TryPut([hand EXCEPT !.attempts = @ + 1])
  /\ hand' = NoMsg
  /\ UNCHANGED <<next, worker, stopping, up, acked, gaveUp, early>>

\* The select sees senderStop closed.  With a message also ready it may pick
\* either case, so Take stays enabled in mode "run".
StartDrain ==
  /\ up /\ worker = "run" /\ hand = NoMsg /\ stopping
  /\ worker' = "drain"
  /\ UNCHANGED <<next, queue, hand, stopping, up, sendDropped, tries, acked,
                 gaveUp, early>>

\* The drain loop finds the channel empty and the worker returns.
WorkerExit ==
  /\ up /\ worker = "drain" /\ hand = NoMsg /\ queue = <<>>
  /\ worker' = "exited"
  /\ UNCHANGED <<next, queue, hand, stopping, up, sendDropped, tries, acked,
                 gaveUp, early>>

\* StopSender closes senderStop; main calls it once, during shutdown.
StopSender ==
  /\ up /\ ~stopping
  /\ stopping' = TRUE
  /\ early' = Offered
  /\ UNCHANGED <<next, queue, hand, worker, up, sendDropped, tries, acked, gaveUp>>

\* StopSender returns, because the worker did or senderStopTimeout passed, and
\* the process ends.
Exit ==
  /\ up /\ stopping
  /\ up' = FALSE
  /\ UNCHANGED <<next, queue, hand, worker, stopping, sendDropped, tries, acked,
                 gaveUp, early>>

\* The process has ended.
Ended == ~up /\ UNCHANGED vars

Worker == Take \/ DeliverOk \/ GiveUp \/ Retry \/ StartDrain \/ WorkerExit

Next ==
  \/ \E r \in Replies : Enqueue(r)
  \/ Take \/ DeliverOk \/ GiveUp \/ Retry \/ StartDrain \/ WorkerExit
  \/ StopSender
  \/ Exit
  \/ Ended

\* The worker goroutine keeps running (its waits are finite and every HTTP call
\* has a client timeout).  Nothing obliges a producer to send, main to stop, or
\* a delivery to succeed.
Fairness == WF_vars(Worker)

Spec == Init /\ [][Next]_vars /\ Fairness

-----------------------------------------------------------------------------
\* Every variable has its type, and the channel never exceeds its capacity.
TypeOK ==
  /\ next \in [Replies -> 0..Parts]
  /\ queue \in Seq(Entry) /\ Len(queue) <= QueueSize
  /\ hand \in Entry \cup {NoMsg}
  /\ worker \in {"run", "drain", "exited"}
  /\ stopping \in BOOLEAN /\ up \in BOOLEAN
  /\ sendDropped \in Nat
  /\ tries \in [Msgs -> Nat]
  /\ acked \subseteq Msgs /\ gaveUp \subseteq Msgs /\ early \subseteq Msgs

\* The network sees a message at most MaxAttempts times, the worker gives one up
\* only after exactly that many real attempts, and a message that was sent or
\* given up is never in the channel again, however often it went round
\* (deliver, sender.go:143).
AttemptsBounded ==
  \A m \in Msgs : /\ tries[m] <= MaxAttempts
                  /\ m \in gaveUp => tries[m] = MaxAttempts
                  /\ m \in acked \cup gaveUp => m \notin Pending

\* DroppedMessages is exact: every message handed to enqueue is waiting, sent,
\* given up with a log line, or counted in sendDropped.  No message disappears
\* without a trace, the failure this file was written against (sender.go:20).
DropsCounted == sendDropped = Cardinality(Vanished)

\* The order that does hold inside a conversation: no part is tried before an
\* earlier part of the same reply has been tried or dropped.
FirstTriesInOrder ==
  \A r \in Replies, i, j \in 1..Parts :
    i < j /\ tries[<<r, j>>] > 0 =>
      tries[<<r, i>>] > 0 \/ <<r, i>> \in Vanished

\* A graceful stop is complete: when the worker has returned, nothing handed
\* over before StopSender still waits, retries included (sender.go:107-116).
DrainComplete == worker = "exited" => early \cap Pending = {}

\* A message handed over before the stop gets its verdict, unless the process
\* ends first: neither a full channel, nor failures, nor the drain strand it.
EarlySettles ==
  \A m \in Msgs :
    (m \in Pending /\ ~stopping) ~> (m \notin Pending \/ ~up)

\* The comment at sender.go:24 promises the order of messages within one
\* conversation: a part arrives only after the earlier parts of its reply have
\* arrived or were discarded.  A retry at the tail breaks it.
ConversationOrder ==
  \A r \in Replies, i, j \in 1..Parts :
    i < j /\ <<r, j>> \in acked => <<r, i>> \notin Pending

-----------------------------------------------------------------------------
(* The inductive invariant behind the proofs in DeliveryProofs.            *)

\* An entry's own counter is the number of attempts really made, and only a
\* message without a verdict is in the channel or in hand.
EntryOK(e) ==
  /\ e.attempts = tries[e.msg] /\ e.attempts < MaxAttempts
  /\ e.msg \in Offered \ (acked \cup gaveUp)

QueueOK == \A i \in 1..Len(queue) : EntryOK(queue[i])

\* No message is in the channel twice, nor in the channel and in hand.
NoRepeat ==
  /\ \A i, j \in 1..Len(queue) : queue[i].msg = queue[j].msg => i = j
  /\ InHand \cap InQueue = {}

HandOK == hand # NoMsg => EntryOK(hand)

CountsOK ==
  /\ acked \cup gaveUp \subseteq Offered
  /\ \A m \in Msgs : /\ tries[m] <= MaxAttempts
                     /\ m \in gaveUp => tries[m] = MaxAttempts
                     /\ m \notin Offered => tries[m] = 0

StopOK ==
  /\ ~stopping => early = {} /\ worker = "run"
  /\ early \subseteq Offered
  /\ worker = "exited" => hand = NoMsg /\ early \cap InQueue = {}

\* m is an earlier part of the reply of n.
Earlier(m, n) == m[1] = n[1] /\ m[2] < n[2]

\* Parts of one reply that were never tried wait in their order, the one in hand
\* before those in the channel; once a part was tried, no earlier one waits that
\* was not.
OrderOK ==
  /\ \A k, l \in 1..Len(queue) :
       Earlier(queue[k].msg, queue[l].msg) /\ tries[queue[k].msg] = 0 /\ tries[queue[l].msg] = 0
         => k < l
  /\ hand # NoMsg /\ tries[hand.msg] = 0 =>
       \A k \in 1..Len(queue) : Earlier(queue[k].msg, hand.msg) => tries[queue[k].msg] > 0
  /\ \A m, n \in Msgs : Earlier(m, n) /\ tries[n] > 0 /\ m \in Pending => tries[m] > 0
  /\ \A m \in acked : tries[m] > 0

IInv ==
  /\ TypeOK /\ QueueOK /\ NoRepeat /\ HandOK /\ CountsOK /\ StopOK /\ OrderOK
  /\ IsFiniteSet(Vanished) /\ DropsCounted

-----------------------------------------------------------------------------
\* The queue as its callers see it.
Status(m) ==
  IF m \notin Offered THEN "new"
  ELSE IF m \in acked THEN "acked"
  ELSE IF m \in gaveUp THEN "gaveUp"
  ELSE IF m \notin Pending THEN "dropped"
  ELSE IF up THEN "waiting" ELSE "abandoned"

Abs == INSTANCE Outbox WITH status <- [m \in Msgs |-> Status(m)], alive <- up

\* The queue implements Outbox: one final verdict per message, never revised.
ImplementsOutbox == Abs!Spec
=============================================================================
